------------------------------- MODULE Ledger -------------------------------
(***************************************************************************)
(* What the contracts promise when every faulty proposal is proven faulty  *)
(* before its challenge period ends: proposals are appended to a tree, and *)
(* each tournament is won by its earliest correct proposal whose proposer  *)
(* was not eliminated before.  The off-chain agents are modelled on top of *)
(* this ledger; KailuaLedger shows that the contracts implement it.        *)
(***************************************************************************)
EXTENDS Integers, FiniteSets

CONSTANTS
  Proposers,    \* accounts that propose
  NoProposer,   \* the proposer of the root
  Timeout,      \* MAX_CLOCK_DURATION
  MaxGames,     \* bound on the games
  FaultyClaims, \* whether a faulty proposal's root claim may be right: its fault is
                \* then in the intermediate outputs or the data that trails them
  MaxForeign,   \* bound on the games of other deployments
  MaxTime       \* bound on time

ASSUME LedgerAssumption ==
  /\ NoProposer \notin Proposers
  /\ Timeout \in Nat /\ MaxGames \in Nat \ {0}
  /\ FaultyClaims \subseteq BOOLEAN /\ FaultyClaims # {}
  /\ MaxForeign \in Nat /\ MaxTime \in Nat

VARIABLES
  games,        \* games[i], the factory's game at index i
  resolved,     \* the games with status DEFENDER_WINS
  round,        \* eliminationRound, 0 for none
  now           \* block.timestamp

ledgerVars == <<games, resolved, round, now>>

Root == 0
Indices == DOMAIN games
GameCount == Cardinality(Indices)

\* A game: whether it is the correct extension of its parent, whether its root
\* claim at least is right, its height in proposals above the root, and its
\* creation time.  Games of other types and other deployments share the factory.
GameOf(t, p, ok, claim, h) ==
  [parent |-> t, proposer |-> p, good |-> ok, claim |-> claim, height |-> h, at |-> now,
   ours |-> TRUE, kailua |-> TRUE]

Children(t) == {c \in Indices \ {Root} : games[c].ours /\ games[c].parent = t}
Decided(t) == \E c \in Children(t) : c \in resolved

\* isChildEliminated
Out(c) == LET r == round[games[c].proposer] IN r # 0 /\ r <= c

\* The proposal that survives its tournament.
Survivor(w) ==
  /\ games[w].good /\ ~Out(w)
  /\ \A c \in Children(games[w].parent) : c < w => ~games[c].good \/ Out(c)

\* The children of t that pruneChildren may eliminate, and those that it must
\* have eliminated before w is resolved.
Faulty(t) == {c \in Children(t) : ~games[c].good /\ ~Out(c)}
Beaten(w) == {c \in Faulty(games[w].parent) :
                c < w \/ games[c].at - games[w].at < Timeout}

Eliminate(E) ==
  round' = [p \in Proposers |->
              IF \E c \in E : games[c].proposer = p
              THEN CHOOSE c \in E : games[c].proposer = p
              ELSE round[p]]

LedgerInit ==
  /\ now = 0
  /\ games = [i \in {Root} |-> GameOf(Root, NoProposer, TRUE, TRUE, 0)]
  /\ resolved = {}
  /\ round = [p \in Proposers |-> 0]

-----------------------------------------------------------------------------
AddGame(g) ==
  /\ GameCount < MaxGames
  /\ games' = [i \in 0..GameCount |-> IF i = GameCount THEN g ELSE games[i]]

\* propose: proposers in good standing climb, and decided tournaments are closed.
CanSubmit(p, t) ==
  /\ games[t].ours /\ ~Decided(t)
  /\ round[p] = 0
  /\ \A i \in Indices : games[i].proposer = p => games[i].height <= games[t].height

Submit(p, t, ok) ==
  /\ CanSubmit(p, t)
  /\ \E claim \in IF ok THEN {TRUE} ELSE FaultyClaims :
       AddGame(GameOf(t, p, ok, claim, games[t].height + 1))
  /\ UNCHANGED <<resolved, round, now>>

\* Someone creates a game that is not of this deployment, of the same game type or not.
SubmitForeign ==
  /\ Cardinality({i \in Indices : ~games[i].ours}) < MaxForeign
  /\ \E same \in BOOLEAN :
       AddGame([GameOf(Root, NoProposer, FALSE, FALSE, 0) EXCEPT !.ours = FALSE, !.kailua = same])
  /\ UNCHANGED <<resolved, round, now>>

\* pruneChildren eliminates some of the children proven faulty; those proposed
\* after the survivor's challenge period are left alone.
PruneSome(t) ==
  /\ t \in resolved /\ ~Decided(t)
  /\ \E E \in SUBSET Faulty(t) :
       /\ E # {}
       /\ \A w \in Children(t) : Survivor(w) => E \subseteq Beaten(w)
       /\ Eliminate(E)
  /\ UNCHANGED <<games, resolved, now>>

ResolveRoot ==
  /\ Root \notin resolved
  /\ resolved' = {Root}
  /\ UNCHANGED <<games, round, now>>

CanResolve(w) ==
  /\ w # Root /\ games[w].ours
  /\ games[w].parent \in resolved /\ ~Decided(games[w].parent)
  /\ Survivor(w)

ResolveGame(w) ==
  /\ CanResolve(w)
  /\ Eliminate(Beaten(w))
  /\ resolved' = resolved \cup {w}
  /\ UNCHANGED <<games, now>>

LedgerTick == now < MaxTime /\ now' = now + 1 /\ UNCHANGED <<games, resolved, round>>

LedgerNext ==
  \/ \E p \in Proposers, t \in Indices, ok \in BOOLEAN : Submit(p, t, ok)
  \/ SubmitForeign
  \/ \E t \in Indices : PruneSome(t)
  \/ ResolveRoot
  \/ \E w \in Indices : ResolveGame(w)
  \/ LedgerTick

LedgerSpec == LedgerInit /\ [][LedgerNext]_ledgerVars
=============================================================================
