----------------------------- MODULE SyncSafety -----------------------------
(***************************************************************************)
(* What proposer and validator rely on the synchronization agent for.      *)
(***************************************************************************)
EXTENDS SyncAgent

Processed(i) == i < next /\ i \notin Elements(delayed) \cup Elements(queued)

\* The game and the games it builds on: in every set that has it and parents of members.
Ancestry(i) ==
  {j \in Indices : \A S \in SUBSET Indices :
                     i \in S /\ (\A k \in S : games[k].parent \in S) => j \in S}

\* The agent blames a proposer only for a faulty proposal, at the index where it made
\* it, however far the op-node lags and whichever loads fail.
BlamesOnlyFaulty ==
  \A p \in Proposers : LET i == eliminations[p] IN
    i # 0 => games[i].proposer = p /\ ~games[i].good

\* The agent and the treasury never disagree on when a proposer was eliminated, though
\* the agent decides as it sees a fault and the chain when it prunes the tournament.
EliminationsAgreeWithTreasury ==
  \A p \in Proposers :
    eliminations[p] # 0 /\ round[p] # 0 => eliminations[p] = round[p]

\* The tip extends the last resolved proposal, and between calls of sync() both are in
\* the cache: the proposer stops without the one and cannot resolve without the other.
TipExtendsResolved ==
  pc # "off" => /\ lastResolved \in Ancestry(tip)
                /\ pc = "idle" /\ DOMAIN proposals # {} =>
                     {tip, lastResolved} \subseteq DOMAIN proposals

\* The successor the agent expects a tournament to produce is the one the chain
\* resolves.  A wrong guess is for ever: the resolution loop of sync() waits for it.
SuccessorIsSurvivor ==
  \A t \in DOMAIN proposals : \A w \in Children(t) \cap resolved :
    Processed(w) => proposals[t].successor = w

\* "Queue delayed proposal for later reprocessing once more blocks are available": a
\* game found delayed stays queued, or at the cursor, until sync() has skipped it or has
\* stored it and updated tip, last resolved game and eliminations for it.
DelayedStaysQueued ==
  pc # "off" => waiting \subseteq Elements(delayed) \cup Elements(queued) \cup {next}

-----------------------------------------------------------------------------
(***************************************************************************)
(* The inductive invariant behind BlamesOnlyFaulty: see AgentProofs.       *)
(***************************************************************************)

\* The game and all it builds on are correct.
Sound(i) ==
  \E S \in SUBSET Indices : i \in S /\ \A k \in S : games[k].good /\ games[k].parent \in S

\* A round of eliminations names faulty games of the eliminated.
Faults(rounds) ==
  /\ rounds \in [Proposers -> Nat]
  /\ \A p \in Proposers : LET i == rounds[p] IN
       i # 0 => i \in Indices /\ games[i].proposer = p /\ ~games[i].good

\* The ledger's games are a tree, its resolved games a chain of sound ones.
LedgerInv ==
  /\ \E n \in 1..MaxGames : Indices = 0..(n - 1)
  /\ games[Root].good /\ games[Root].parent = Root
  /\ \A i \in Indices : games[i].parent \in Indices /\ games[i].height \in Nat
  /\ \A i \in Indices \ {Root} :
       games[i].ours => games[i].height > games[games[i].parent].height
  /\ \A i \in resolved : Sound(i)
  /\ resolved # {} => \E m \in resolved : \A j \in resolved :
       games[j].height <= games[m].height /\ (j = m \/ Decided(j))
  /\ Faults(round)

ProposalRecords ==
  [correct : BOOLEAN, canonical : BOOLEAN, resolved : BOOLEAN, children : SUBSET Nat,
   successor : Int]

\* The indices the agent keeps are those of games.
Queues ==
  /\ delayed \in Seq(Indices) /\ queued \in Seq(Indices)
  /\ next \in Nat /\ count \in Nat /\ 0..(count - 1) \subseteq Indices

\* What the agent has cached as correct is sound, and what it follows is correct.
CacheIsSound ==
  /\ DOMAIN proposals \subseteq Indices
  /\ \A j \in DOMAIN proposals :
       /\ proposals[j] \in ProposalRecords
       /\ proposals[j].canonical => proposals[j].correct
       /\ proposals[j].correct => Sound(j)

AgentInv ==
  /\ Queues /\ CacheIsSound
  /\ pc # "off" => Sound(tip)
  /\ Faults(eliminations)

-----------------------------------------------------------------------------
(***************************************************************************)
(* The inductive invariant behind the agent's guesses, when the op-node is *)
(* ahead of every proposal: see AgentProofs.                               *)
(***************************************************************************)

\* The op-node starts ahead of every proposal that is ever made.
OpNodeAhead == \A i \in Indices, s \in InitialSafe : Block(i) < s

Height(i) == games[i].height
Parent(i) == games[i].parent

\* Games of this deployment are a tree in the order of creation, and a proposer climbs.
Climbing ==
  /\ games[Root].ours /\ Height(Root) = 0
  /\ now \in Int /\ \A i \in Indices : games[i].at \in Int
  /\ \A i \in Indices \ {Root} : games[i].ours =>
       /\ Parent(i) < i /\ games[Parent(i)].ours /\ Height(i) = Height(Parent(i)) + 1
       /\ games[i].proposer \in Proposers
  /\ \A i, j \in Indices \ {Root} :
       /\ games[i].ours /\ games[j].ours /\ games[i].proposer = games[j].proposer /\ i < j
       => Height(i) < Height(j)

\* What is left of a tournament that w has won.
WonBy(w) ==
  /\ ~Out(w)
  /\ \A c \in Children(Parent(w)) :
       /\ games[c].good /\ c < w => Out(c)
       /\ ~games[c].good => Out(c) \/ (c > w /\ games[c].at - games[w].at >= Timeout)

\* The resolved games are one chain from the root, and only its tournaments eliminate.
ChainResolved ==
  /\ resolved \subseteq Indices
  /\ \A w \in resolved \ {Root} : games[w].ours /\ Parent(w) \in resolved /\ WonBy(w)
  /\ \A v, w \in resolved : v < w => Height(v) < Height(w)
  /\ \A w \in resolved : \A h \in 0..Height(w) : \E v \in resolved : Height(v) = h
  /\ \A p \in Proposers : round[p] # 0 => games[round[p]].ours /\ Parent(round[p]) \in resolved

Followed == {c \in DOMAIN proposals : proposals[c].canonical}
SuccessorOf(t) == proposals[t].successor

\* The agent expects the child e of t to be ignored, being late.
TooLate(t, e) ==
  LET s == SuccessorOf(t) IN s # None /\ s < e /\ games[e].at - games[s].at >= Timeout

\* The agent has a faulty game against proposer p that the chain has not seen yet.
Foreseen(p, e) ==
  LET t == Parent(e) IN
  /\ round[p] = 0 /\ e < next /\ e \in Children(t) /\ games[e].proposer = p
  /\ ~games[e].good /\ t \in Followed /\ ~Decided(t) /\ ~TooLate(t, e)

\* Where sync() is, with nothing delayed.
NothingDelayed ==
  /\ delayed = <<>> /\ queued = <<>> /\ next <= GameCount
  /\ safe \in Int /\ safe0 \in Int
  /\ \E s \in InitialSafe : s <= safe /\ (pc \in {"count", "load"} => s <= safe0)
  /\ \A j \in DOMAIN proposals : j < next /\ games[j].ours
  /\ IF DOMAIN proposals = {}
     THEN pc # "off" => tip = next /\ lastResolved = next /\ next \in resolved
     ELSE tip \in Followed /\ lastResolved \in Followed \cap resolved

\* The games that the agent follows are one chain, up to its tip.
FollowedIsChain ==
  /\ \A c \in Followed : c <= tip /\ c \in Ancestry(tip)
  /\ \A c, d \in Followed : c < d => Height(c) < Height(d) /\ Parent(d) \in Followed
  /\ \A c, d \in Followed : \A h \in Height(c)..Height(d) : \E x \in Followed : Height(x) = h
  /\ \A t \in DOMAIN proposals : SuccessorOf(t) # None =>
       t \in Followed /\ SuccessorOf(t) \in Followed \ {Root} /\ Parent(SuccessorOf(t)) = t
  /\ \A c \in Followed \ {Root} : Parent(c) \in DOMAIN proposals => SuccessorOf(Parent(c)) = c

\* The chain follows the agent, and the agent the chain.
FollowedIsRight ==
  /\ \A c \in Followed \ {Root} : ~Out(c) /\ ~EliminatedBefore(eliminations, c)
  /\ \A c \in Followed, x \in resolved : Height(x) = Height(c) => x = c
  /\ \A w \in resolved : w < next /\ (\E t \in DOMAIN proposals : t <= w) => w \in Followed

\* The children of a followed game that the agent has seen.
ChildrenSeen ==
  \A t \in Followed : \A c \in Children(t) : c < next =>
    IF games[c].good
    THEN \/ c = SuccessorOf(t) \/ (SuccessorOf(t) # None /\ SuccessorOf(t) < c)
         \/ EliminatedBefore(eliminations, c)
    ELSE \/ eliminations[games[c].proposer] # 0 /\ eliminations[games[c].proposer] <= c
         \/ TooLate(t, c)

BlamesForeseen ==
  \A p \in Proposers : LET e == eliminations[p] IN e # 0 => round[p] = e \/ Foreseen(p, e)

GuessInv ==
  /\ Climbing /\ ChainResolved /\ NothingDelayed /\ FollowedIsChain /\ FollowedIsRight
  /\ ChildrenSeen /\ BlamesForeseen
=============================================================================
