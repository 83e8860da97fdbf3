------------------------------ MODULE Proposer ------------------------------
(***************************************************************************)
(* The proposer agent: an endless loop of sync(), one attempt to resolve   *)
(* the successor of the last resolved proposal, and one attempt to extend  *)
(* the canonical tip.  A transaction is decided on in one step, tried out  *)
(* and broadcast in another, and mined in a third, or not at all; after    *)
(* the timeout the proposer carries on while the transaction may still be  *)
(* mined.  The nonce is that of the latest block, so the transactions that *)
(* are not mined yet compete for one place.                                *)
(***************************************************************************)
EXTENDS SyncSafety

CONSTANTS
  Me,            \* the proposer's account
  Vanguard,      \* the treasury's vanguard, NoProposer for none
  Advantage,     \* vanguardAdvantage
  ProposalTime,  \* seconds of L2 a proposal covers
  Limit,         \* ELIMINATIONS_LIMIT, the steps of one pruneChildren call
  MaxRivalGames, \* bound on the proposals of everybody else, which also stay
                 \* below the bound MaxSafe on the L2 chain
  MaxTimeouts    \* bound on transactions given up on

ASSUME ProposerAssumption ==
  /\ Me \in Proposers /\ Vanguard \in Proposers \cup {NoProposer}
  /\ {Advantage, ProposalTime, Limit, MaxRivalGames, MaxTimeouts} \subseteq Nat

VARIABLES
  turn,        \* the part of the loop body that is next
  prioritize,  \* prioritize_proposing
  sent,        \* the transactions that may be mined with the account's next nonce
  awaited,     \* the transaction the proposer is busy with
  timeouts

proposerVars == <<turn, prioritize, sent, awaited, timeouts>>
proposeVars == <<syncVars, proposerVars>>

\* propose(root claim of the correct extension of t, duplication counter d), and
\* resolve of g.  A repeated transaction has another hash.
ProposeTx(t, d) == [call |-> "propose", game |-> t, dup |-> d, try |-> timeouts]
ResolveTx(g) == [call |-> "resolve", game |-> g, dup |-> 0, try |-> timeouts]
NoTx == [call |-> "none"]

Sending == {"sendResolve", "sendPropose"}
Waiting == {"waitResolve", "waitPropose"}

\* "on startup, prioritize submitting a proposal"
ProposerInit ==
  /\ SyncInit
  /\ turn = "sync" /\ prioritize = TRUE /\ sent = {} /\ awaited = NoTx
  /\ timeouts = 0

-----------------------------------------------------------------------------
\* sync(), up to and including its return, with or without an error
Sync ==
  /\ turn = "sync"
  /\ AgentStep
  /\ turn' = IF pc' = "idle" /\ pc # "off" THEN "resolve" ELSE "sync"
  /\ UNCHANGED <<prioritize, sent, awaited, timeouts>>

Expired(g) == now - games[g].at >= Timeout

\* Mutant: the canonical tip is resolved.
ResolvableTip(g) == g = tip /\ g \in DOMAIN proposals /\ g \notin resolved

\* resolve_next_pending_proposal has something to resolve: the successor of the last
\* resolved proposal, not final yet, that pruneChildren returns.
Resolvable(g) ==
  /\ lastResolved \in DOMAIN proposals
  /\ g = proposals[lastResolved].successor
  /\ g \in DOMAIN proposals /\ g \notin resolved
  /\ ~Decided(games[g].parent) /\ Survivor(g)

\* Its challenge period and those of its rivals are over.  Before that the contract
\* accepts it as well if it is proven valid, or its rivals faulty.
Ripe(g) == Expired(g) /\ \A c \in Beaten(g) : Expired(c)

\* "Check if can prune next set of children in parent tournament": a trial call of
\* pruneChildren(Limit) finds the survivor if its steps suffice, one at least for each
\* rival to eliminate and at most two for each child, less what earlier calls did.  If
\* they do not, the pruning transaction goes to l1_provider, which has no wallet to
\* sign it, and fails.
MaySettle(g) == Cardinality(Beaten(g)) <= Limit
MustSettle(g) == 2 * Cardinality(Children(games[g].parent)) <= Limit

TryResolve ==
  /\ turn = "resolve"
  /\ \/ /\ ~prioritize
        /\ \E g \in Indices : Resolvable(g) /\ MaySettle(g) /\ awaited' = ResolveTx(g)
        /\ turn' = "sendResolve"
     \/ /\ prioritize \/ ~\E g \in Indices : Resolvable(g) /\ Ripe(g) /\ MustSettle(g)
        /\ turn' = "propose" /\ UNCHANGED awaited
  /\ UNCHANGED <<syncVars, prioritize, sent, timeouts>>

-----------------------------------------------------------------------------
(***************************************************************************)
(* Proposing.                                                              *)
(***************************************************************************)
\* The model's time starts one second after genesis.
MinProposalTime(t) == (games[t].height + 1) * ProposalTime

\* "Wait for vanguard to make submission"
VanguardLead(t) ==
  IF Vanguard \notin {NoProposer, Me} /\ proposals[t].children = {} THEN Advantage ELSE 0

\* The proposals on t with the right root claim, in duplication order.
Dupes(t) == {c \in Children(t) : games[c].claim}

\* Mutant: any existing proposal of the claim is simply counted.
IsOpenAlways(t) == TRUE

\* "Calculate required duplication counter": no dupe is unknown yet, or correct and by a
\* proposer in good standing.
IsOpen(t) ==
  \A d \in Dupes(t) :
    /\ d < next
    /\ d \in DOMAIN proposals /\ proposals[d].correct => EliminatedBefore(eliminations, d)

\* A proposal on the canonical tip t is due and can be made.
Candidate(t) ==
  /\ lastOutput >= Block(t) + Span
  /\ now >= MinProposalTime(t) + VanguardLead(t)
  /\ (Block(t) + 1)..(Block(t) + Span) \subseteq outputs
  /\ IsOpen(t)

TryPropose ==
  /\ turn = "propose" /\ tip \in DOMAIN proposals
  /\ IF Candidate(tip)
     THEN awaited' = ProposeTx(tip, Cardinality(Dupes(tip))) /\ turn' = "sendPropose"
     ELSE turn' = "sync" /\ UNCHANGED awaited
  /\ prioritize' = FALSE
  /\ UNCHANGED <<syncVars, sent, timeouts>>

\* "Canonical tip proposal missing from database!": the process ends.
TipMissing ==
  /\ turn = "propose" /\ tip \notin DOMAIN proposals
  /\ turn' = "sync" /\ prioritize' = TRUE
  /\ pc' = "off"
  /\ UNCHANGED <<ledgerVars, safe, cursorVars, outputs, proposals, eliminations, heads, foreign,
                 localVars, reported, waiting, boundVars, sent, awaited, timeouts>>

-----------------------------------------------------------------------------
(***************************************************************************)
(* Transactions.                                                           *)
(***************************************************************************)
Succeeds(x) ==
  IF x.call = "resolve" THEN CanResolve(x.game)
  ELSE CanSubmit(Me, x.game) /\ Cardinality(Dupes(x.game)) = x.dup

Executes(x) ==
  IF ~Succeeds(x) THEN UNCHANGED ledgerVars
  ELSE IF x.call = "resolve" THEN ResolveGame(x.game) ELSE Submit(Me, x.game, TRUE)

\* Where the proposer goes once it has a receipt or an error.
AfterTx(ok) ==
  /\ turn' = IF awaited.call = "resolve" THEN "propose" ELSE "sync"
  /\ prioritize' = (awaited.call = "propose" /\ ~ok)
  /\ awaited' = NoTx

\* SafeProvider: "Ensure call success", then broadcast.
Broadcast ==
  /\ turn \in Sending
  /\ IF Succeeds(awaited)
     THEN /\ sent' = sent \cup {awaited}
          /\ turn' = IF turn = "sendResolve" THEN "waitResolve" ELSE "waitPropose"
          /\ UNCHANGED <<prioritize, awaited>>
     ELSE AfterTx(FALSE) /\ UNCHANGED sent
  /\ UNCHANGED <<syncVars, timeouts>>

\* A transaction is mined, and executes or reverts: the proposer takes either receipt
\* for success.  Those with the same nonce are void.
Mined(x) ==
  /\ x \in sent /\ sent' = {}
  /\ Executes(x)
  /\ IF turn \in Waiting /\ x = awaited
     THEN AfterTx(TRUE) ELSE UNCHANGED <<turn, prioritize, awaited>>
  /\ UNCHANGED <<safe, agentVars, timeouts>>

\* The receipt does not come in time; the transaction may still be mined.
GiveUp ==
  /\ turn \in Waiting /\ timeouts < MaxTimeouts
  /\ timeouts' = timeouts + 1
  /\ AfterTx(FALSE)
  /\ UNCHANGED <<syncVars, sent>>

\* The receipt cannot come, another transaction having used the nonce.
LoseReceipt ==
  /\ turn \in Waiting /\ awaited \notin sent
  /\ AfterTx(FALSE)
  /\ UNCHANGED <<syncVars, sent, timeouts>>

Restart ==
  /\ Crash
  /\ turn' = "sync" /\ prioritize' = TRUE /\ awaited' = NoTx
  /\ UNCHANGED <<sent, timeouts>>

-----------------------------------------------------------------------------
Rivals == Proposers \ {Me}

\* Everybody else: other proposers, whoever prunes or resolves, and time.
World ==
  /\ \/ \E p \in Rivals, t \in Indices, ok \in BOOLEAN :
          /\ Cardinality({i \in Indices : games[i].proposer \in Rivals}) < MaxRivalGames
          /\ Block(t) + Span < MaxSafe
          /\ Submit(p, t, ok)
     \/ \E t \in Indices : PruneSome(t)
     \/ ResolveRoot
     \/ \E w \in Indices : ResolveGame(w)
     \/ LedgerTick
  /\ UNCHANGED <<safe, agentVars, proposerVars>>

Act == Sync \/ TryResolve \/ TryPropose \/ TipMissing \/ Broadcast \/ LoseReceipt

ProposerNext ==
  \/ Act \/ GiveUp \/ Restart \/ World
  \/ DeriveL2 /\ UNCHANGED proposerVars
  \/ \E x \in sent : Mined(x)

ProposerSpec == ProposerInit /\ [][ProposerNext]_proposeVars
=============================================================================
