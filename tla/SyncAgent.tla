----------------------------- MODULE SyncAgent -----------------------------
(***************************************************************************)
(* The synchronization agent that proposer and validator share: it follows *)
(* the factory's games and the op-node's outputs, decides which proposals  *)
(* are correct and canonical, and tracks resolution.  Each remote read of  *)
(* sync() that another actor's step can precede is a step of its own.      *)
(* L2 blocks are counted in output spans.                                  *)
(***************************************************************************)
EXTENDS Ledger, Sequences, FiniteSetsExt

CONSTANTS
  Span,        \* blocks_per_proposal(), in output spans
  InitialSafe, \* bound: the safe L2 heads the op-node may start from
  MaxSafe,     \* bound on the safe L2 head
  MaxCrashes,  \* bound on restarts of the agent
  MaxFailures  \* bound on failed loads of a game

ASSUME SyncAssumption ==
  /\ Span \in Nat \ {0} /\ MaxSafe \in Nat /\ InitialSafe \subseteq 0..MaxSafe
  /\ MaxCrashes \in Nat /\ MaxFailures \in Nat

VARIABLES
  safe,          \* the op-node's safe L2 head, less the configured delay
  pc,            \* where sync() is
  tip,           \* cursor.canonical_proposal_tip
  next,          \* cursor.next_factory_index
  delayed,       \* cursor.delayed_factory_indices
  lastOutput,    \* cursor.last_output_index
  lastResolved,  \* cursor.last_resolved_game
  outputs,       \* the blocks whose outputs are cached
  proposals,     \* the cached proposals
  eliminations,  \* the cached elimination rounds, 0 for none
  heads,         \* l1_heads and its inverse: the L1 blocks known
  foreign,       \* those of them whose source is a game of another deployment
  safe0,         \* safe_l2_number, as this sync() read it
  count,         \* game_count, as this sync() read it
  first,         \* first_factory_index of this sync()
  queued,        \* delayed_indices of this sync()
  reported,      \* the proposals sync() has returned since the start
  waiting,       \* history: the games found DELAYED and not dealt with since
  crashes, failures

cursorVars == <<tip, next, delayed, lastOutput, lastResolved>>
localVars == <<safe0, count, first, queued>>
boundVars == <<crashes, failures>>
agentVars == <<pc, cursorVars, outputs, proposals, eliminations, heads, foreign, localVars,
               reported, waiting, boundVars>>
syncVars == <<ledgerVars, safe, agentVars>>

None == -1
Elements(s) == {s[i] : i \in 1..Len(s)}
Block(i) == Span * games[i].height

\* The agent before its first start.
AgentInit ==
  /\ pc = "off"
  /\ tip = Root /\ next = Root /\ delayed = <<>> /\ lastOutput = 0 /\ lastResolved = Root
  /\ outputs = {} /\ heads = {} /\ foreign = {}
  /\ proposals = [i \in {} |-> {}]
  /\ eliminations = [p \in Proposers |-> 0]
  /\ safe0 = 0 /\ count = 0 /\ first = 0 /\ queued = <<>>
  /\ reported = {} /\ waiting = {}
  /\ crashes = 0 /\ failures = 0

-----------------------------------------------------------------------------
(***************************************************************************)
(* Start and restart: SyncAgent::new and SyncCursor::load.  The anchor is  *)
(* lastResolved of the treasury, the highest resolved game.                *)
(***************************************************************************)
Anchor == CHOOSE i \in resolved : \A j \in resolved : games[j].height <= games[i].height

Start ==
  /\ pc = "off" /\ Root \in resolved
  /\ pc' = "idle"
  /\ tip' = Anchor /\ next' = Anchor /\ lastResolved' = Anchor
  /\ delayed' = <<>>
  /\ lastOutput' = IF Anchor = Root THEN Block(Anchor) ELSE Block(Anchor) - Span
  /\ outputs' = {} /\ heads' = {} /\ foreign' = {}
  /\ proposals' = [i \in {} |-> {}]
  /\ eliminations' = [p \in Proposers |-> 0]
  /\ reported' = {} /\ waiting' = {}
  /\ UNCHANGED <<ledgerVars, safe, localVars, boundVars>>

\* The process dies; its memory goes with it.
Crash ==
  /\ pc # "off" /\ crashes < MaxCrashes
  /\ pc' = "off" /\ crashes' = crashes + 1
  /\ safe0' = 0 /\ count' = 0 /\ first' = 0 /\ queued' = <<>>
  /\ UNCHANGED <<ledgerVars, safe, cursorVars, outputs, proposals, eliminations, heads,
                 foreign, reported, waiting, failures>>

-----------------------------------------------------------------------------
\* output_block_number: up to the safe head, at most one proposal's worth.
TargetOutput == Min({safe, lastOutput + Span})

\* sync(): fetch outputs from the op-node.
SyncOutputs ==
  /\ pc = "idle"
  /\ pc' = "count" /\ safe0' = safe
  /\ IF lastOutput + 1 < TargetOutput
     THEN outputs' = outputs \cup lastOutput..TargetOutput /\ lastOutput' = TargetOutput
     ELSE UNCHANGED <<outputs, lastOutput>>
  /\ UNCHANGED <<ledgerVars, safe, tip, next, delayed, lastResolved, proposals,
                 eliminations, heads, foreign, count, first, queued, reported, waiting, boundVars>>

\* sync(): read gameCount and enter the loop over new games.
CountGames ==
  /\ pc = "count"
  /\ pc' = "load" /\ count' = GameCount /\ first' = next /\ queued' = <<>>
  /\ UNCHANGED <<ledgerVars, safe, cursorVars, outputs, proposals, eliminations, heads,
                 foreign, safe0, reported, waiting, boundVars>>

-----------------------------------------------------------------------------
(***************************************************************************)
(* sync_proposal(i) and what sync() does with its result.                  *)
(***************************************************************************)
HasNext == delayed # <<>> \/ next < count
NextIndex == IF delayed # <<>> THEN Head(delayed) ELSE next
AfterPop == IF delayed # <<>> THEN Tail(delayed) ELSE delayed

\* "Skip dangling proposals"
Dangling(i) == DOMAIN proposals # {} /\ games[i].parent \notin DOMAIN proposals

\* The elimination rounds after the treasury was asked about i's proposer.
Fetched(i) ==
  [p \in Proposers |->
     IF p = games[i].proposer /\ eliminations[p] = 0 THEN round[p] ELSE eliminations[p]]

\* "Require synchrony with op-node"
IsDelayed(i) == lastOutput + 1 < Block(i)

\* was_proposer_eliminated_before
EliminatedBefore(elims, i) ==
  i # Root /\ elims[games[i].proposer] # 0 /\ elims[games[i].proposer] < i

\* Mutant: only children with the expected claim are recorded.
WithGoodChild(i) ==
  IF i = Root \/ i \in resolved \/ games[i].parent \notin DOMAIN proposals \/ ~games[i].good
  THEN proposals
  ELSE [proposals EXCEPT ![games[i].parent].children = @ \cup {i}]

\* The cache once i is appended to its parent's children: for an unresolved game,
\* whether or not it then participates.
WithChild(i) ==
  IF i = Root \/ i \in resolved \/ games[i].parent \notin DOMAIN proposals
  THEN proposals
  ELSE [proposals EXCEPT ![games[i].parent].children = @ \cup {i}]

\* Mutant: "Ignore timed-out counter-proposals" is forgotten.
TimedOutNever(i) == FALSE

\* "Skip proposals arriving after the timeout period for the correct proposal"
TimedOut(i) ==
  LET s == proposals[games[i].parent].successor
  IN s # None /\ games[i].at - games[s].at >= Timeout

\* determine_tournament_participation
Participates(elims, i) ==
  \/ i = Root \/ i \in resolved
  \/ /\ games[i].parent \in DOMAIN proposals
     /\ ~EliminatedBefore(elims, i)
     /\ proposals[games[i].parent].canonical
     /\ ~TimedOut(i)

\* The outputs that assess_correctness compares the proposal with.
OutputsCached(i) == i = Root \/ (Block(i) - Span + 1)..Block(i) \subseteq outputs

\* assess_correctness: is_correct() of claim, intermediate outputs, trail and parent.
IsCorrect(i) ==
  /\ games[i].good
  /\ \/ i = Root \/ i \in resolved
     \/ games[i].parent \in DOMAIN proposals /\ proposals[games[i].parent].correct

\* Mutants: a proposal as high as the tip replaces it; an incorrect one may.
CanonicalAtTipHeight(elims, i) ==
  /\ IsCorrect(i) /\ ~EliminatedBefore(elims, i)
  /\ tip \in DOMAIN proposals => Block(tip) <= Block(i)

CanonicalIfHigher(elims, i) ==
  /\ ~EliminatedBefore(elims, i)
  /\ tip \in DOMAIN proposals => Block(tip) < Block(i)

\* determine_if_canonical
IsCanonical(elims, i) ==
  /\ IsCorrect(i) /\ ~EliminatedBefore(elims, i)
  /\ tip \in DOMAIN proposals => Block(tip) < Block(i)

Loaded(elims, i) ==
  [correct |-> IsCorrect(i), canonical |-> IsCanonical(elims, i), resolved |-> i \in resolved,
   children |-> {}, successor |-> None]

\* The cache with proposal i inserted, its parent's successor when it is canonical.
WithProposal(elims, i) ==
  LET linked ==
        IF IsCanonical(elims, i) /\ games[i].parent \in DOMAIN proposals
        THEN [WithChild(i) EXCEPT ![games[i].parent].successor = i]
        ELSE WithChild(i)
  IN [j \in DOMAIN proposals \cup {i} |-> IF j = i THEN Loaded(elims, i) ELSE linked[j]]

\* sync_l1_head: the first game found with an L1 head is that head's source.
WithHead(i) == heads \cup {games[i].at}
WithSource(i, known) == IF games[i].ours THEN foreign ELSE foreign \cup (known \ heads)

\* "Process next game index if proposal was not delayed"
Advance(i) == next' = IF i = next THEN next + 1 ELSE next

\* The loop ends: "Keep delayed indices in cursor".
EndLoad(queue, rest) == pc' = "resolve" /\ delayed' = queue \o rest /\ queued' = <<>>

\* "skip entries for other game types" and "Skip proposals unrelated to current run": the
\* latter still make their L1 head known.
SkipForeign(i) ==
  /\ ~games[i].ours
  /\ delayed' = AfterPop /\ Advance(i)
  /\ heads' = IF games[i].kailua THEN WithHead(i) ELSE heads
  /\ UNCHANGED <<pc, tip, lastResolved, proposals, eliminations, queued, waiting>>

SkipDangling(i) ==
  /\ games[i].ours /\ Dangling(i)
  /\ delayed' = AfterPop /\ heads' = WithHead(i) /\ Advance(i)
  /\ waiting' = waiting \ {i}
  /\ UNCHANGED <<pc, tip, lastResolved, proposals, eliminations, queued>>

\* The op-node is not far enough.  If it has more blocks to give the loop ends for
\* this sync(); otherwise the game is queued.
Delay(i) ==
  /\ games[i].ours /\ ~Dangling(i) /\ IsDelayed(i)
  /\ eliminations' = IF i = Root THEN eliminations ELSE Fetched(i)
  /\ waiting' = waiting \cup {i}
  /\ IF Block(i) < safe0
     THEN EndLoad(queued, AfterPop) /\ UNCHANGED next
     ELSE queued' = Append(queued, i) /\ delayed' = AfterPop /\ Advance(i) /\ UNCHANGED pc
  /\ UNCHANGED <<tip, lastResolved, proposals, heads>>

\* No tournament participation.
SkipIrrelevant(i) ==
  /\ games[i].ours /\ ~Dangling(i) /\ ~IsDelayed(i)
  /\ i # Root /\ ~Participates(Fetched(i), i)
  /\ eliminations' = Fetched(i) /\ proposals' = WithChild(i)
  /\ delayed' = AfterPop /\ heads' = WithHead(i) /\ Advance(i)
  /\ waiting' = waiting \ {i}
  /\ UNCHANGED <<pc, tip, lastResolved, queued>>

\* An output to compare with is not cached: the loop ends with an error.
FailAssess(i) ==
  /\ games[i].ours /\ ~Dangling(i) /\ ~IsDelayed(i)
  /\ i # Root /\ Participates(Fetched(i), i) /\ ~OutputsCached(i)
  /\ eliminations' = Fetched(i) /\ proposals' = WithChild(i)
  /\ EndLoad(queued, AfterPop)
  /\ UNCHANGED <<tip, next, lastResolved, heads, waiting>>

\* Mutant: a proposer is eliminated for not being the one to follow.
BlamedIfNotCanonical(p) == ~p.canonical

\* "Update player eliminations"
Blamed(p) == ~p.canonical /\ ~p.correct

\* The proposal is stored.  sync() then looks up the proposal at the cursor, which is
\* another game when the index came from the delayed queue: that ends sync() with an
\* error, and the queue it was building is dropped.
Store(i) ==
  LET elims == IF i = Root THEN eliminations ELSE Fetched(i)
      p == Loaded(elims, i)
  IN
  /\ games[i].ours /\ ~Dangling(i) /\ ~IsDelayed(i)
  /\ Participates(elims, i) /\ OutputsCached(i)
  /\ proposals' = WithProposal(elims, i)
  /\ heads' = WithHead(i)
  /\ delayed' = AfterPop /\ Advance(i)
  /\ IF next \in DOMAIN proposals'
     THEN /\ waiting' = waiting \ {i}
          /\ tip' = IF p.canonical THEN i ELSE tip
          /\ lastResolved' = IF p.canonical /\ p.resolved THEN i ELSE lastResolved
          /\ eliminations' =
               IF i # Root /\ Blamed(p) /\ elims[games[i].proposer] = 0
               THEN [elims EXCEPT ![games[i].proposer] = i] ELSE elims
          /\ UNCHANGED <<pc, queued>>
     ELSE /\ pc' = "idle" /\ queued' = <<>>
          /\ eliminations' = elims
          /\ UNCHANGED <<waiting, tip, lastResolved>>

\* One iteration of the loop over new games.
LoadNext ==
  /\ pc = "load" /\ HasNext
  /\ LET i == NextIndex IN
       \/ SkipForeign(i) \/ SkipDangling(i) \/ Delay(i)
       \/ SkipIrrelevant(i) \/ FailAssess(i) \/ Store(i)
  /\ foreign' = WithSource(NextIndex, heads')
  /\ UNCHANGED <<ledgerVars, safe, lastOutput, outputs, safe0, count, first, reported,
                 boundVars>>

\* Proposal::load fails, as when a blob cannot be fetched: the loop ends.
LoadFails ==
  /\ pc = "load" /\ HasNext /\ games[NextIndex].kailua /\ failures < MaxFailures
  /\ failures' = failures + 1
  /\ EndLoad(queued, AfterPop)
  /\ UNCHANGED <<ledgerVars, safe, tip, next, lastOutput, lastResolved, outputs, proposals,
                 eliminations, heads, foreign, safe0, count, first, reported, waiting, crashes>>

LoadDone ==
  /\ pc = "load" /\ ~HasNext
  /\ EndLoad(queued, delayed)
  /\ UNCHANGED <<ledgerVars, safe, tip, next, lastOutput, lastResolved, outputs, proposals,
                 eliminations, heads, foreign, safe0, count, first, reported, waiting, boundVars>>

-----------------------------------------------------------------------------
(***************************************************************************)
(* The resolution loop: follow the successors of the last resolved         *)
(* proposal as far as they are resolved on chain, and free what is older.  *)
(***************************************************************************)
Successor == proposals[lastResolved].successor

CanFollow ==
  /\ lastResolved \in DOMAIN proposals
  /\ Successor \in DOMAIN proposals
  /\ Successor \in resolved

\* The outputs that prune_data frees: downwards, until one is missing.
Freed(s) ==
  LET earliest == IF Block(s) > Span THEN Block(s) - Span ELSE 0
  IN {b \in 0..(earliest - 1) : b..(earliest - 1) \subseteq outputs}

\* Mutant: the last resolved proposal is freed too.
KeptAbove(s) == {k \in DOMAIN proposals : k > s}

\* The indices of the queue q that prune_data keeps, in their order.
Retained(q, s) ==
  LET kept[n \in 0..Len(q)] ==
        IF n = 0 THEN <<>>
        ELSE IF q[n] >= s THEN Append(kept[n - 1], q[n]) ELSE kept[n - 1]
  IN kept[Len(q)]

\* The proposals that prune_data keeps.
Kept(s) == {k \in DOMAIN proposals : k >= s}

FollowResolution ==
  /\ pc = "resolve" /\ CanFollow
  /\ LET s == Successor IN
     /\ lastResolved' = s
     /\ proposals' = [j \in Kept(s) |->
                        IF j = s THEN [proposals[s] EXCEPT !.resolved = TRUE]
                        ELSE proposals[j]]
     /\ delayed' = Retained(delayed, s)
     /\ waiting' = {k \in waiting : k >= s}
     /\ outputs' = outputs \ Freed(s)
     /\ heads' = IF games[s].at \in heads THEN {h \in heads : h >= games[s].at} ELSE heads
  /\ foreign' = foreign \cap heads'
  /\ UNCHANGED <<ledgerVars, safe, pc, tip, next, lastOutput, eliminations, localVars,
                 reported, boundVars>>

\* sync() returns the new proposals it kept, or an error when the last resolved
\* proposal or its successor is missing.
Returned ==
  IF lastResolved \in DOMAIN proposals /\ Successor \in DOMAIN proposals \cup {None}
  THEN first..(next - 1) \cap DOMAIN proposals ELSE {}

SyncReturns ==
  /\ pc = "resolve" /\ ~CanFollow
  /\ pc' = "idle" /\ reported' = reported \cup Returned
  /\ safe0' = 0 /\ count' = 0 /\ first' = 0
  /\ UNCHANGED <<ledgerVars, safe, cursorVars, outputs, proposals, eliminations, heads,
                 foreign, queued, waiting, boundVars>>

-----------------------------------------------------------------------------
\* The op-node derives more of L2.
DeriveL2 ==
  /\ safe < MaxSafe
  /\ \E s \in (safe + 1)..MaxSafe : safe' = s
  /\ UNCHANGED <<ledgerVars, agentVars>>

SyncInit == LedgerInit /\ safe \in InitialSafe /\ AgentInit

AgentStep ==
  \/ Start \/ SyncOutputs \/ CountGames \/ LoadNext \/ LoadFails \/ LoadDone
  \/ FollowResolution \/ SyncReturns

\* L1 and L2 move on under the agent.
Environment ==
  /\ \/ LedgerNext /\ UNCHANGED safe
     \/ DeriveL2
  /\ UNCHANGED agentVars

SyncNext == AgentStep \/ Crash \/ Environment

SyncSpec == SyncInit /\ [][SyncNext]_syncVars
=============================================================================
