# Kailua in TLA+

Kailua turns an optimistic rollup's dispute game into one decided by validity and
fault proofs. This directory holds TLA+ models of its contracts, of the agents around
them and of the proving program and its orchestration, the TLC runs that check them on
small instances, and TLAPS proofs of most of their safety properties for every number of
games, accounts, signatures, hosts, proofs and calls.

Paths below are relative to `src/`. The contracts are in
`crates/contracts/foundry/src/`; T, R and G stand for `KailuaTournament.sol`,
`KailuaTreasury.sol` and `KailuaGame.sol`.

## 1. The system

### Components, their state and operations

| part | state | operations | talks to |
|---|---|---|---|
| **KailuaTournament** (T), base of every proposal | `children`, `contenderIndex`, `opponentIndex`, `contenderDuplicates`, `proofStatus`, `provenAt`, `prover`, `validChildSignature` | `appendChild`, `pruneChildren`, `proveValidity`, `proveOutputFault`, `proveTrailFault` | treasury (`eliminate`), verifier, KZG precompile |
| **KailuaGame** (G), one proposal | parent, claim, blob hashes, duplication counter, `createdAt`, `status` | `initialize`, `resolve`, `getChallengerDuration` | its parent's tournament, treasury |
| **KailuaTreasury** (R), root of the tree and bank | `proposerOf`, `eliminationRound`, `eliminations`, `paidBonds`, `participationBond`, `lastProposal`, `lastResolved`, `vanguard`, `isLocked` | `propose`, `resolve`, `eliminate`, `claimProposerBond`, `claimEliminationBonds`, `setParticipationBond`, `assignVanguard` | DisputeGameFactory, recipients of ETH |
| **sync agent** (`crates/sync/src/agent.rs`, `cursor.rs`, `proposal.rs`), shared by proposer, validator and RPC | cursor (canonical tip, next factory index, delayed indices, last output, last resolved game); caches of outputs, proposals, eliminations, L1 heads | `new`, `sync` | L1 RPC, op-node, beacon node |
| **proposer** (`crates/proposer`) | `prioritize_proposing`, transactions in flight | one loop: sync, resolve the next pending proposal, propose on the tip | sync agent, L1 |
| **transaction sending** (`crates/sync/src/transact`) | nonce, gas premium | dry run, broadcast, wait with timeout | L1 |
| **validator** (`crates/validator`) | heaps of faults and validities to prove, last L1 head used per proposal, computed proofs | process proposals, dispatch proof requests, publish receipts and trail faults | sync agent, a pool of prover workers over channels |
| **prover** (`crates/prover/src/prove.rs`, `tasks.rs`, `client`) | queue of proving tasks, jobs, `num_proofs`, proofs in memory and on disk | cut a request into jobs, prove a job or its parts, split at the middle, stitch | FPVM client, proving services |
| **proving services** (`crates/prover/src/risczero`) | submission lock, permits, cycle counts on disk | look back for an order, submit one, await it; Bonsai sessions; the local zkVM | Boundless market, Bonsai |
| **FPVM client** (`crates/kona`, variants in `hana`, `hokulea`) | witness, cached executions, stitched journals | derive, execute, check the precondition, stitch, commit a journal | preimage oracle |
| **preimage oracle** (`crates/kona/src/oracle`) | shards of preimages, the entries set aside, values of local keys | record, finalize, validate, replay | host |
| **RPC** (`crates/rpc`) | cache of canonical proposals by L2 height | fill it from `sync`, answer queries | sync agent |
| **CLI** (`bin/cli`) | none | deploy, demo, benchmark | L1 |

### How they interact

A proposal is a game whose parent is another proposal: its siblings and it are the
children of the parent's tournament. Anyone may propose (with a bond), prove a child's
*signature* (root claim and blob hashes) valid or faulty, prune a tournament for a
number of steps, or resolve a child that is its tournament's survivor. Pruning
eliminates proposers whose signature is refuted; an eliminated proposer's later games
do not count anywhere, and its bond belongs to a prover. The agents see all this only
through RPC reads of a chain that moves between two reads, and compare proposals with
the outputs of an op-node that may be behind the proposals.

A validator that finds a proposal wrong at some output, or wants the right one of two
proven valid, asks a prover for a receipt of the corresponding blocks and publishes it
with openings of the proposal's blobs. The prover cuts the blocks into ranges that fit a
zkVM, gets each range proven by a service, and has the results joined by the same guest
program, which verifies the receipts it joins. What the guest commits to is all that the
tournament sees of this.

### What is hard

* **On chain**: transactions interleave in any order. A tournament is pruned a few
  steps at a time by different callers while proposals, proofs, and eliminations *in
  other tournaments* change the meaning of the stored indices. Two clocks (a rival that
  comes too late, a proposal that may resolve) share a boundary. Bonds are paid to
  recipients that can call back. A revert at the wrong place blocks a tournament for
  ever.
* **Agent**: it guesses the outcome of a tournament when it loads the children, follows
  only that guess, and forgets what it thinks is settled. Games can be delayed, fail to
  load, or be loaded after a restart, in all orders with respect to the chain's steps.
* **Proposer**: it decides on what it cached, tries the call, broadcasts it, and may
  give up on a transaction that is mined later.
* **Validator and prover**: results return in any order, late, or never, and must not
  be lost or paid for twice. Work is split again while its other halves are under way,
  files are left half written, orders outlive the process that made them.
* **Guest**: everything it reads comes from a host that may supply anything. Executions
  are used before they are justified, preimages are validated by pointers, proofs are
  joined in an order that the host chooses.
* **From proposal to proof**: root claim, intermediate outputs and trailing data lie in
  two numberings over several blobs; agent, validator, guest and contract each convert
  between them.

### What makes each part correct

* Contracts: one final chain; only sole survivors become final and stay so; honest
  proposers are never eliminated; pruning can always be resumed and never blocks; every
  elimination is bonded and its bond leaves only to its prover; collateral is backed; a
  tournament with a correct proposal is decided; only what is true of a proposal can be
  proven of it.
* Agent: it never blames a right proposer; its guesses of survivors, eliminations and
  child positions are those of the chain; tip and last resolved game stay known.
* RPC: a game named to a user is correct and becomes final.
* Proposer: its bond is safe, it does not pay for needless proposals, and it resolves
  what is due.
* Validator: no fault it knows of is forgotten, the data a proof needs outlives it, every
  fault is refuted on chain, and the proofs it asks for exist and are accepted.
* Prover: the parts tile the request, the counts are right, success means that the proof
  is there, failure has a cause, it ends; no proof is ordered needlessly.
* Guest: the oracle answers only what keys commit to and serves every honest run; a
  committed journal claims what derivation gives, and right intermediate outputs.

`PROJECT.json` lists the hazards at their lines, with the properties aimed at each.

## 2. The modules

```
PruneChildren --- PruneLoop            Ledger --- SyncAgent --- SyncSafety --- Rpc --- MCSync
     |                                    |                     |       |
KailuaTreasury                            |                 Proposer  Validator
     |                                    |                     |       |
KailuaTournament                          |        ProposerSafety     ValidatorSafety
     |                                    |                     |       |
KailuaProtocol                            |            MCProposer     MCValidator
     |                                    |
KailuaSafety ------- KailuaLedger (INSTANCE Ledger)
     |
KailuaLiveness ------ MCKailua --- MCContracts (with PruneLoop)

WitnessOracle --------------- MCGuest --- MCProofs --- MCProving --------- Prover
FpvmClient --- FaultProof ----/                            \----- ProofServices

Proofs:
PruneChildren --- PruneProofs --- PruneLoopProofs (with PruneLoop)
                       \--------- KailuaProofs (with KailuaSafety) --- KailuaBonds
                                        \--------------- KailuaRefines (with KailuaLedger)
ProposerSafety, Rpc, ValidatorSafety --- AgentProofs
FaultProof, WitnessOracle --- GuestProofs
Prover, ProofServices --- ServiceProofs
```

### On-chain

* **PruneChildren** is `pruneChildren` as one pure function of a tournament: a record
  of its children (signature, creation time, eliminated or not), which signatures are
  refuted, and the stored progress, to the outcome: whom it eliminates, the new
  progress and the returned child. `Late`, `Rival` and the like are the conditions of
  T:322-407. `Resumable` says what the comments of the function say of stored progress.
* **PruneLoop** is the same function iteration by iteration, with `u`, `v`, the step
  counter and the local `contender` as variables, started from every resumable
  tournament in its bounds, with a contender that has won already or not.
* **KailuaTreasury** and **KailuaTournament** hold the state and operations of the two
  contracts; **KailuaProtocol** composes them, one action per transaction. A call that
  reverts changes nothing and is not a step. `isLocked` is the moment during a payment
  when the recipient has control: every transaction it could make by calling back is
  enabled, except the claims that the guard refuses.
* **KailuaSafety** states the properties and the inductive invariants, **KailuaLiveness**
  progress. **PruneProofs**, **PruneLoopProofs**, **KailuaProofs**, **KailuaBonds** and
  **KailuaRefines** hold the theorems.
* **Ledger** is the abstract specification: what the three contracts amount to when
  every faulty proposal is proven faulty within its challenge period. Each tournament
  is won by its earliest correct proposal in good standing. **KailuaLedger** maps the
  contracts' state to it; `ImplementsLedger` is checked as a PROPERTY.

Abstractions: a signature is a model value; which signatures can be proven faulty is
fixed by the constants `OutputFaulty` and `TrailFaulty`, so the verifier, external to
the model, accepts exactly the truth; the duplication counter is kept because it
decides whether a proposal can be made; lists of eliminations are sets (their order is
only the order of payment); `provenAt` and `resolvedAt` are not read by any modelled
code and are left out; heights count proposals, not blocks; proofs with payout recipient
`address(0)` are excluded.

### Off-chain

* **SyncAgent** is one `SyncAgent` on top of `Ledger`. `sync()` is cut where another
  actor can come between two reads: outputs (`SyncOutputs`), `gameCount` (`CountGames`),
  each game of the loop (`LoadNext`: one disjunct per way an iteration ends, and
  `LoadFails`), each turn of the resolution loop (`FollowResolution`, with `prune_data`),
  the return (`SyncReturns`). `Crash` loses the memory, `Start` is `new` with
  `SyncCursor::load`. `DeriveL2` is the op-node. A game has the fields `ours` (its treasury is
  this deployment's) and `kailua` (its game type is). `heads` is `l1_heads`, each head named by
  the first game found with it; `foreign` are the heads whose source is a game of another
  deployment, which `sync_l1_head` records for every game of the same type.
* **Rpc** adds the RPC server to the agent: `HandleSync` is a step of `sync()`, and at its
  return the canonical ones of the new proposals enter `served`; `GameAddressFor` is the
  answer to a query, which may come at any time; `RpcCrash` loses agent and cache.
* **Proposer** adds the proposer's loop: `Sync`, `TryResolve`, `TryPropose`, then for a
  transaction `Broadcast` (after the dry run), `Mined`, `GiveUp` and `LoseReceipt`.
  Transactions not mined yet compete for one nonce: mining one voids the others. A
  transaction that is mined and reverts counts as success, as in the code.
* **Validator** adds the validator's loop. `ValidatorSync` ends with the proposals that are new;
  `Process` takes one of them through the decisions of `process_proposals` (`Answer`) to
  at most one request; `Handle` takes one item from a heap or from the computed proofs
  through `Dispatch`, `PublishReceipt`, `PublishTrail` or `DropFreed`. `work` is the
  multiset of all requests, tasks and proofs, each with the place where it is: heaps are
  ordered by random waits and channels by proving time, so any item may be next, and one
  that is pushed back for a retry stays as it was. `PublishReceipt` tells a validity proof as
  the code does, by the roots of its journal (`LooksValid`); `config.repeats` are the heights
  at which a wrong root claim repeats the right first output of its proposal, so that the
  receipt of its fault has these roots too. A receipt that the tournament refuses (`IsWelcome`)
  fails when it is tried out and is kept. `Prove` and `SpawnFails` are the workers,
  `RivalProof` other validators. Proofs on chain are the two sets
  `faultProven` and `validProven`; on this level the ledger eliminates and resolves only
  what they allow.

Abstractions: loading one game is one atomic read; the rocksdb copy of outputs is a
cache of the same values; `final_l2_block` is not set; L2 does not reorganize below the
safe head; balances, gas and the outdated-deployment exit are left out. The
validator's requests and its provers are not interleaved with the inside of `sync()`,
which neither reads nor changes them; receipts are SNARKs, as the validator asks for, so that
`encode_seal` finds their seal; a faulty proposal with a right root claim stands
for a fault in the trailing data, one with a wrong claim for a fault in an output. Time 0
of the agents' models is one second after genesis.

### Proofs and provers

* **WitnessOracle** is `VecOracle` with `LocalOnceOracle`. `Record` and `Encode` are the
  host: it saves what the client reads and finalizes it into shards, with pointers between
  equal entries (preloaded) or without (streamed, last shard first). `Load` is `validate`,
  `Seek` to `DropShard` the loop of `get`, `ReadShard` the next frame of a stream. A host
  may also begin with any of `Forgeries`. A key that commits to its preimage has itself as
  its only right value.
* **FpvmClient** is `run_core_client` in its three modes and `run_stitching_client` around
  it. One run goes through `Boot`, `Execute`/`Executed` (execution only) or
  `LoadPrecondition`, `Derive`/`DeriveCached`, `Epilogue` (derivation), then `Claim`,
  `StitchExecutions`, `StitchBoot` and `Commit`; every choice a host has is an `\E`. A check
  that fails is a panic and ends the run. Committed journals are in `proven`, and are what
  later runs may verify: the zkVM is external and verifies exactly these. Derivation
  (`Derived`) and the building of a block (`Build`) are external and deterministic. An
  output root names its block and the attributes that produced it; hashes are injective,
  except for what `safe_default` does with absent values and `hash_to_fe` with large ones.
  Payout recipient and image id are the same in all journals.
* **FaultProof** follows one proposal from blobs to contract: `LoadGame` and `Assess`
  (agent), `RequestFaultProof` and `RequestValidityProof` (validator), `Prove` (the guest's
  refusals), `PublishValidity`, `PublishOutputFault`, `PublishTrailFault` with the
  arguments that the code computes, and `Accepts...`, which the contract verifies.
  `RivalFault` and `RivalValidity` are anybody else, with every receipt that the guest can
  produce, for any blocks and with or without the proposal as its precondition, and with any
  openings. A KZG opening is a blob and a position.
* **Prover** is `prove` with its jobs (`compute_fpvm_proof`) and workers
  (`compute_cached_proof`). A range `<<l, h>>` is the blocks `l+1..h` and names a job, since
  jobs of one request never overlap. `Refusal` is `process_witness`; a witness is a number
  per block for its execution and its derivation. `Create` and `Write` are the two halves
  of saving a file; `Restart` keeps only the files. Two tasks with one file name are two
  tasks that prove the same claim. The claim of a request is taken to be the op-node's output
  at the claimed block, as it is in every request that the validator makes: the loop that cuts
  the request (`prove.rs:144`) compares output roots and would not end for another claim, while
  `Start` cuts by block numbers. `Fail` is an error of the service, or of the client before it
  knows the size of its witness.
* **ProofServices** is `seek_proof`: concurrent calls that look for orders of the same
  requirements (`Look`), measure cycles under a permit, submit under `BOUNDLESS_REQ`,
  await (`Retrieve`) and start over; Bonsai sessions and the local zkVM likewise. The
  market is external: orders have a 32-bit id (`Chain` gives the ids of each requirement,
  and two of them collide), an id is fulfilled once, orders may expire, submissions may be
  accepted and yet fail. A Bonsai session may also succeed and leave no receipt that can be
  downloaded, read and verified (`UNUSABLE`): no step leaves it, since the code then polls the
  same session again. `Prover` and `ProofServices` are separate specifications: the
  prover sees of a service only that it returns a proof, an error, or nothing to wait for.

Abstractions: execution traces come in one or two parts; the config hash and the
attributes hash keep one optional field, the one place where two inputs could share a
hash; prices, collateral, uploads and cycle counts of orders are left out, as is the
offline mode of the prover, which skips the cutting into jobs.

## 3. The runs

TLC checks every run within its bounds completely. `CHECK_DEADLOCK FALSE` is set where
games and time are bounded, so that the system may stop at the end of its bounds, and
where a call or a program ends (`contracts`, `proofs`). Counts are of distinct
states. In `MCContracts`, `MCProposer` and `MCProofs` a behaviour is one of the parts or
one of the instances alone, with the variables of the other parts at rest.

| run | instance | what it shows |
|---|---|---|
| `disputes` | 3 proposers, 4 proposals below the root, a correct and a wrong signature, pruning by 0 to 2 steps, 3 seconds (213,150) | One final chain, sole survivors, final decisions, honest proposers, no blocked elimination, and the inductive invariant of the proofs, which includes resumable pruning. |
| `contracts` | the loops of `pruneChildren` from every resumable tournament of up to 3 children, 2 signatures, 2 creation times, with or without a winner, with every step limit up to 6; the protocol with 2 proposers, 3 proposals, deposits, a raised bond, a vanguard, claims that call back (512,522) | The loops compute exactly the outcome that the protocol model uses, leave progress that can be resumed, settle a tournament without a winner with the limit that `resolve` passes, and end. Collateral is backed, present at every elimination, and leaves only to whom it is owed. |
| `progress` | 2 proposers, 3 proposals, fair validator and proposer (30,704) | A tournament with a correct proposal is decided. |
| `refine` | 3 proposers, 3 proposals, challenge period of 2 seconds, faults proven in time (92,838) | The contracts implement `Ledger`. |
| `sync` | 2 proposers, 3 games, one of them possibly foreign, 1 restart, 1 failed load, time for a late rival, op-node ahead, an RPC server (2,179,744) | The agent's guesses (successor, eliminations) agree with the chain; tip and last resolved game survive freeing and restarts; what the RPC server answers becomes final. |
| `sync_delayed` | 2 proposers, lagging op-node | **Violated**: finding 1 below. |
| `proposing` | op-node ahead: 1 rival with 2 proposals, 2 own heights, a lost receipt, an exclusive lead; lagging op-node: 1 rival proposal, 1 restart, 1 lost receipt (957,351) | Verdicts stay right while games are delayed, retried and lost, and the proposer's bond is safe. With the op-node ahead, no needless proposal, and everything due is resolved. |
| `validating` | 2 proposals at one or two heights with output or trail faults, 1 prover, one failure (request, transaction, prover or restart), any proofs by rivals, a game of another deployment; fast-forwarding with wrong claims that repeat an output at height 2, or one output per proposal (812,968) | No fault is forgotten, what proofs need stays at hand, and every known fault is refuted, with four exceptions: its provers are lost, its request has used up the L1 heads, its receipt is taken for a validity proof, or the source of its L1 head is foreign. |
| `proofs` | oracle: 2 hashed keys and a local one, 5 reads in 3 shard sizes, forgeries of up to 3 entries in 2 shards; client: up to 3 proofs over 2 to 4 blocks, 2 configurations, 2 L1 heads, every proposal of up to 4 outputs in blobs of 2 fields; disputes: every proposal of 1, 2, 3 and 4 outputs; prover: 9 requests of 2 to 4 blocks, 2 workers, up to 2 failures or restarts; services: 2 calls with 2 requirements and 1 permit on 16 configurations of services, 2 faults (1,749,600) | Answers are binding and replay never starves; journals claim derived outputs and right intermediate outputs, and right proposals that leave room in their last blob are accepted; the tournament believes the truth, whoever calls it, and the validator's proofs are accepted unless a fault's receipt has the roots of a validity proof. Splitting, counting and stitching fit together, impossible outcomes do not occur, success and failure are justified, the prover ends; no order is made needlessly, and every call ends, except one whose Bonsai session leaves no usable receipt and those that wait for the permits such calls hold. |
| `guest_filled` | as `proofs` | **Violated**: finding 2. |
| `dispute_looks_valid` | as `proofs` | **Violated**: finding 3. |
| `proving_forced` | as `proofs` | **Violated**: finding 4. |

**Why these bounds.** A proposer may have one game per height, so three proposers and
four proposals give every pattern of two siblings with a third, duplicates, and a
proposer with games in two tournaments of different heights, which is what pruning has
to survive; two signatures separate right from wrong, and one wrong value is enough
since the contract compares signatures only with each other and with the proven one.
Time has one tick before, at and after the challenge period. For the agent, two siblings
and a grandchild, or three siblings, with one fault of each kind (restart, failed load,
foreign game, lag) reach every branch of the loop, and a chain of three has a second
resolution to follow. The validator needs two siblings for duplicates and validity
proofs, and a proposal on a resolved one for what is freed under it. `MaxGames` of the proposer's runs leaves
room for all its own games, so that a bound never refuses a transaction it sends.
For the guest, blobs of two fields put a proposal's outputs at the first and last field of
a blob, across two blobs, and exactly into one; three proofs are a trace, a derivation
that uses it and a join, or a join of joins. The oracle's five reads of three keys give an
entry set aside over a shard boundary, a pointer into an earlier shard, and repeats. The
prover's requests are chosen one per way in which work is cut (by count, by the witness of
execution, of derivation, by none, skipping either phase); four blocks are split twice.
Two calls with colliding chains of ids and two faults give every race that two actors can
have with one market; a chain has as many ids as a call can pass over within these faults. Every bound is a named constant of its module, or a set of instances
in its MC module.

**Fairness.** `FairSpec` (progress): blocks keep coming; the deployment resolves the root; a recipient's
call returns (gas is finite); *one* validator keeps proving faults and *one* proposer
keeps resolving, both being endless loops that retry (`crates/validator/src/proposals/mod.rs`,
`crates/proposer/src/propose.rs:95`). Nothing is assumed of anybody else.
`proposing` (`Act` and `MineSome`, with the op-node ahead): the proposer's loop is never stopped, and some
transaction with the account's next nonce is mined if one is pending. Neither the chain's other
users nor the op-node are fair. `FairValidatorSpec` (validating): the loop is never
stopped, and work that is there turn after turn is eventually done, since every turn
handles all that is due and proofs end; this is strong fairness because each turn starts
with a `sync()` during which nothing is handled. `ProvingFairness` (proofs): the process runs, that
is, some step of it is taken as long as one can be taken; failures and restarts are not
fair, and are bounded by `troubles`. Every call of a service goes on when it can,
and the market or Bonsai serves what is open, sooner or later; expiries and failures are
bounded by `faults`. `contracts`: a call runs until it returns or reverts.

Every property has a mutant: a definition changed in the way a plausible slip would,
under which TLC finds the property violated. The mutated forms stand next to the
originals, marked *Mutant*.

### Findings

Each is the counterexample of a run that checks what a comment or the book says.

1. The agent loses a delayed game when the loop that reprocesses it ends early
   (`agent.rs:343`, against the comments at 299 and 342). A delayed game that is loaded at
   last ends `sync()` with an error, because its result is looked up under another index
   (`agent.rs:310`): it never becomes the canonical tip, against the comment at 312
   (`DelayedStaysQueued`, run `sync_delayed`). Because of this, the properties that need every
   game to be processed (`SuccessorIsSurvivor`, `AnswersBecomeFinal`, `ResolvesWhatIsDue`, ...)
   are checked with an op-node that is ahead; `BlamesOnlyFaulty` and `BondIsSafe`, which must
   hold however far it lags, are checked with one that lags as well.
2. `book/src/parameters.md:22` recommends a block span of `B * 4096 + 1`, and
   `book/src/validator.md:102` promises validity proofs of every correct canonical proposal. With
   one block per output, the intermediate outputs of such a proposal fill its last blob
   exactly, and the guest refuses it: it looks for trailing data in a blob after the last
   (`precondition.rs:394`), so that no validity proof exists (`RightProposalIsProvable`, run
   `guest_filled`). `WellFormedIsProvable` shows that all other right proposals are accepted.
3. `publish_receipt_proofs` checks whether a receipt is "a viable validity proof"
   (`receipts.rs:179`) by its two roots alone. The receipt of a fault at the first output has the
   same two roots if the proposal's root claim repeats the right first output (`LooksValid`):
   it is published as a validity proof and refused, again and again (`EveryProofIsAccepted`,
   run `dispute_looks_valid`). `ProofsAreAccepted` shows that no other proof is refused.
4. "Force the proving attempt regardless of witness size if we prove just one block"
   (`prove.rs:230`): `force_attempt` does not reach the attempt, so that a job of one block goes
   through the same limits as any other, and `prove` then gives up over a "forced proving
   attempt" (`SingleBlockIsForced`, run `proving_forced`). Only executions of one block are
   forced. `FailsForCause` shows that whatever fits when cut to single blocks is proven.

### Observations

What the models showed of the code beside what the properties say:

* When the step limit runs out in the search loop of `pruneChildren`, the local `contender`
  lags behind `u` (T:409) and the child that is returned may be one just eliminated.
  `resolve` is not affected (`ResolveLimitSettles`, `ResolveNamesContender`).
* The proposer prunes a backlog of more than 128 rivals through a provider without a wallet
  (`resolve.rs:119`), so that those transactions cannot be signed.
* With one output per proposal, a faulty proposal and the correct one after it, loaded by
  the same `sync()`, each cause a request for the same validity proof, since
  `process_proposals` looks up the parent's successor after all of them are loaded
  (`processing.rs:195` and 207).
* If that correct proposal is already resolved when it is loaded, the request is made all
  the same, and the proof has no child position to be published under (`receipts.rs:174`, an
  `expect`); `WorkFindsItsData` is stated for tournaments that are open.
* The book says that the validator ignores proposals of other deployments
  (`book/src/validator.md:93`). The agent records such a game, if it is of the same type, as the
  source of its L1 head (`agent.rs:286` and 499). A proof made with that head is published with
  this source (`receipts.rs:160`), which the tournament does not know (T:627), and never gets
  on chain: `FaultIsRefuted` is violated without its exception `HasForeignSource`.
* A request whose attempt fails has used up its L1 head all the same (`dispatch.rs:102`), and
  waits until somebody proposes with a later one (`OutOfHeads`).
* A Bonsai session that succeeded without a usable receipt is polled again without a pause
  or a limit (`bonsai.rs:118-151`, 194-213), the STARK loop with its permit in hand (`Stuck`,
  `PermitsLost`).
* `seek_proof` finds a proof file, logs "Proving skipped", and proves again
  (`risczero/mod.rs:58`). Parts that were queued by a job that has returned are still proven.
* Two calls whose ids collide may race each other to the market; the one that loses awaits
  an id that belongs to other requirements (`NoNeedlessOrder` allows the extra order). The
  receipt it gets is saved under the name of what it proves, not of what was asked.
* `acquire_owned_permit` keeps the mutex around the semaphore while it waits for a permit;
  since the permits are returned without it, no call waits for ever because of it.

## 4. The proofs

Everything here holds for all values of the constants that satisfy the assumptions which
the modules declare. `PROJECT.json` lists the theorems; below is the argument of each
proof module. The parts of an inductive invariant are defined next to the properties they
support, so that TLC can evaluate them on the instances of section 3.

### Assumptions

`TreasuryAssumption` (finitely many accounts, amounts are naturals), `TournamentAssumption`
(every signature but the right one can be refuted), `ProtocolAssumption` and `ClockAssumption`
(bounds and the challenge period are naturals), `LoopAssumption`, `LedgerAssumption`,
`SyncAssumption` and `ProposerAssumption` (types of bounds) say no more than that the
constants are of their kinds. The others are worth a word:

* `TimelyAssumption` (only `KailuaRefines`): the challenge period is not zero. With zero, a
  proposal could resolve in the second in which it was made.
* `HostsAssumption`: the inputs a host supplies have the types that decoding gives them; a
  blob and the field are not empty.
* `ShapesAssumption`, `NoCollisions` (disputes): a proposal has at least one output and an
  output covers at least one block; and nobody knows an output root that differs from an
  output of the chain but whose hash is the same field element. The second is the
  cryptographic assumption under which a blob of field elements commits to outputs at all.
  The instance of the `proofs` run satisfies it though its field is small; the elements that
  rivals write into blobs are any naturals.
* `OracleAssumption`: keys of different types differ, and forged shards are shards of
  entries. Their keys, values and pointers are arbitrary.
* `ChainAssumption`: among the ids that one call tries in a row none occurs twice. The ids
  are a chain of hashes cut to 32 bits; between different requirements they may collide.

### Pruning: `PruneProofs`, `PruneLoopProofs`

`PruneProofs` is about `pruneChildren` as a function. `PruneIsGood`: only children in play
with a refuted signature are eliminated, and the stored progress is resumable.
`ResolveNamesContender`, `ResolveLeavesSoleSurvivor`, `ResolveEmptiesOrNames`: with
`2 * childCount` steps, which is what `resolve` passes, the call gets to the end; the child
it returns is the stored contender, it survives, and every other child is out, a duplicate
or late. `PruneSparesLate`: nobody is eliminated who came after the challenge period of the
first surviving child of a signature. All follow the shape of the function: the search for
a contender, then the play against its opponents, whose first decisive rival is a minimum.

`PruneLoopProofs` shows that the code's three nested loops compute this function
(`LoopsMatchFunction`), hence leave resumable progress (`LoopsLeaveProgress`) and settle a
tournament without a winner under `resolve` (`LoopsSettle`). `LoopInv` has one conjunct per loop. Each says
that *the rest of the call, started from the locals as they are now,* has the outcome of
the whole call: so an iteration only has to preserve an equation, and no induction over
iterations is needed beyond that of the invariant itself. The steps that are left are
compared with the number of children still to be visited, which is where an off-by-one in
the step counter would show.

### Contracts: `KailuaProofs`

`Invariance` proves `Spec => []IInv`; `TypeCorrectness`, `OneFinalChain`,
`HonestProposersSafe`, `ProgressAlwaysResumable`, `EliminateNeverReverts` are its
corollaries. `IInv` is the conjunction of what has to be known together:

* `Tree`: games that exist form a tree by index and height, and a tournament's children are
  in creation order. `pruneChildren` compares positions, eliminations compare indices;
  without the order the two do not agree.
* `Progression`: a proposer's games climb, so no tournament has two of its children. This
  is why an elimination in one tournament is, for every later one, an elimination
  *before* its child.
* `SoundProofs`: the stored proofs agree with the verifier. Without it an honest child
  may be refuted.
* `Unstarted`: a tournament is pruned only after its own game is final, so at most one
  tournament is being pruned (`LiveIsLast`).
* `ResolvedFormOneChain`, `HonestNeverEliminated`, `PruneProgress`: the goals. They need each
  other: progress stays resumable elsewhere because eliminations happen only in the
  tournament of the last resolved game, and that tournament is unique because the
  resolved games are one chain.

The step theorem (`NextIInv`) has one lemma per action; the long ones are `ProposeIInv`
(a new child keeps the tree and the progress of every tournament) and `PruneIInv`, used
by both `PruneChildren` and `Resolve`, which applies `PruneIsGood` here and
`PruneProgressElsewhere` in the other tournaments.

`DecisionsStay` is an action property and follows from `IInv` for every step.
`SoleSurvivorsOnly` needs more: with `Clocks` (games are created in the order of their
indices, none in the future) the statement is inductive (`FinalInv`): a resolution leaves a
sole survivor by `ResolveLeavesSoleSurvivor`, its signature can no longer be refuted nor its
proposer eliminated before it, and a proposal that comes after the decision is late.

### Bonds: `KailuaBonds`

`EliminationsAreBonded` rests on `PendingIsBonded`: a proposer whose last proposal is
undecided has its bond locked. It is inductive together with `IInv`, since an elimination
happens only in the tournament of the last resolved game, where the eliminated proposer's
proposal is undecided. `CollateralIsBacked` is about sums over sets of accounts; the sum is
a recursive function over subsets, and `SubsetInduction` derives from the library's
well-founded orders that its value does not depend on the order and that paying some bonds
takes exactly their sum away. `SlashedBondsReachProvers` is an action property.

### Refinement: `KailuaRefines`

`ContractsImplementLedger` proves that under `TimelySpec` every transaction is a step of
`Ledger` or a stutter. `Timely` adds to `IInv` and `Clocks` that no fault outlives its clock
unproven. Then the child that `resolve` makes final is the `Survivor` of the ledger, and by
`PruneSparesLate` only siblings that the ledger eliminates with it are eliminated; partial
prunings map to eliminations of faulty siblings, and proofs, deposits and claims do not show.

### Agents: `AgentProofs`

`AgentProofs` extends `ProposerSafety`, `Rpc` and `ValidatorSafety`, so one set of lemmas serves
the agent alone, in the loops of proposer and validator, and behind the RPC server.

`BlameIsFair` proves `BlamesOnlyFaulty` of the agent alone, `ProposerBlamesFairly` and
`BondStaysSafe` of the agent in the proposer's loop. A game is `Sound` if it and all it
builds on are correct; as a set closed under parents, soundness needs no recursion, and new
games keep it. `LedgerInv` says that only sound games are resolved and only authors of
faulty ones eliminated; `AgentInv` that what the agent has cached as correct is sound, that
its tip is, and that its own record of eliminations names faulty games. This carries over
restarts because `SyncCursor::load` starts from a resolved game, and over delays because a
verdict once made is not revised. `OwnInv` adds that every transaction the proposer has ever
broadcast is `Harmless` whenever it is mined: that is why giving one up, losing its receipt
or crashing does no damage.

The agent's guesses about the chain hold only while it can assess every game it meets. The
theorems `SuccessorsSurvive`, `EliminationsAgree`, `TipExtends` (agent), `AnswersStayRight` (RPC
server), `ProposalsAreNeeded` and `ProposerGuessesRight` (proposer), `FaultsAreRemembered` and
`WorkHasItsData` (validator) therefore have the form `Spec /\ []OpNodeAhead => []P`:
`OpNodeAhead` says that every game that exists ends below the safe head an op-node may start
from. The instances of the runs `sync` and `validating` satisfy it in every reachable state,
with rivals, restarts and eliminations, and so does the half of `proposing` whose op-node is
ahead, so that the hypothesis is not empty; `sync_delayed` and the other half of `proposing`
show what is left without it. `ProposalsAreNeeded` is the general form of what
`ProposesOnlyNeeded` checks.
`GuessInv` is the inductive invariant:

* `Climbing`, `ChainResolved`: games are a tree in the order of creation, in which a proposer
  climbs; the resolved ones are a chain from the root, each of which won its tournament
  (`WonBy`), and only its tournaments eliminate.
* `NothingDelayed`: an op-node that is ahead never makes `sync()` put a game off, so the agent
  has seen every game below its cursor.
* `FollowedIsChain`, `FollowedIsRight`: the cached canonical games are a chain up to the tip,
  each the `successor` of its cached parent; none of them is eliminated, and where they and
  the resolved games have the same height they are the same. This is the guess: neither
  the chain nor the agent can get past a tournament with another winner.
* `ChildrenSeen`, `BlamesForeseen`: every child the agent has seen is the successor, a later
  duplicate, eliminated before, blamed or late; and whom the agent has blamed is eliminated
  on chain at that game or can still be, and at no other. These two carry the argument: the
  chain compares siblings when it prunes, the agent one by one as they appear, and only
  because a late child is late for both do they ignore the same ones.

`ServedInv` adds that what the server has stored stays on the followed or the resolved chain,
also after `prune_data` has freed it. `NeededInv` (with `Fresh`) says that a transaction which the
proposer has broadcast either counts fewer duplicates than there are by now, and is refused,
or was made when no duplicate was in good standing: so it is needed whenever it is mined.

Every step of the validator is one of `SyncNext` or leaves the agent alone, so `GuessInv` holds in
its loop too. `ValidatorInv` adds what its requests and proofs rely on:

* `CacheInv`: games are created in the order of time (`InOrder`), and of every cached one the L1
  head, the verdict and, until its tournament is decided, all children seen are at hand
  (`Cached`). The outputs are one interval that starts below the block of every followed game
  (`OutputsFrom`): `prune_data` frees from below and stops short of the last resolved one.
* `LoopInv`: between calls of `sync()` everything cached has been returned by it, and what the
  loop still has to process is newer than what it has `Handled`.
* `WorkInv`: an item is about a proposal that is cached, or was freed together with its parent;
  its kind fits the proposal, and its L1 head is not older than the proposal and known.
* `FaultInv`: a processed fault that is `Unsettled` has an item against it or is `Awaited`: the
  tournament's correct proposal is not there or not processed yet, and will bring the
  request. A duplicate is skipped only because an item answers its predecessor, and that
  item answers the duplicate as well. `ForwardInv` is needed beside it, since a fault in a
  tournament to fast forward is skipped on the strength of the request for the successor.

The steps that handle items share one lemma (`MovedWork`): an item stays, moves on with its
proposal, or is `Moot`, which no item against an unsettled fault is. With one output per proposal
this needs that all items are about correct proposals. `WorkHasItsData` follows from `CacheInv`
and `WorkInv`, `FaultsAreRemembered` from `LoopInv` and `FaultInv`. TLC found `ValidatorInv` to hold
on the instance of `validating` before it was proved.

### Guest: `GuestProofs`

`JournalsAreDerived` proves that every committed journal with an L1 head claims what
derivation gives (`IsDerived`). `ClientInv` holds between the checks of a run, when the run's
cached executions are not justified yet: a claim is right *or* the executions it relied on
are not yet `Trusted`, and `StitchExecutions` cannot pass in the second case, because their
hash is injective where `safe_default` accepts it. Journals compose along `ChainFrom`, for
joins of any depth, by induction over the number of blocks.

`PreconditionsHold` proves `ProvenPreconditionsHold`. `PreconditionInv` says of every committed
journal, and of a run from the point on where it has validated, which positions of the
proposal its stretch of blocks covers and that each is right (`Validated`). Two stretches that
are stitched cover together what each does, since an output position lies in exactly one of
them. The fields of several blobs are one sequence (`FlattenSeq`); that the field at a position
is in the blob and at the place that the quotient and the remainder name follows by induction
over the blobs, which `WellFoundedInduction` gives without an operator parameter.
`WellFormedProposalsAreProvable` runs the same arithmetic the other way: every position of a
right proposal passes, if there is room for trailing data or the run ends before them.

`StatusesAreRight` and `ValidatorProofsAreAccepted` prove `StatusIsRight` and
`ProofsAreAccepted`. `DisputeInv` follows the validator's work: `load_game`'s loop, a recursive
function over the blobs, splits their fields into two adjacent stretches (`Part`, `Cut`), so that
`io` and `trail` are the fields before and after position `count - 1`; `fault()` names the first
wrong one in the code's order (trail first, then outputs, then the claim); and the receipt is
of the position that the contract computes back from it. Soundness is the other direction:
a call that the tournament accepts, with arguments of anyone's choice, fixes one position,
whose field is the hash of an output that a receipt proves; by `NoCollisions` the field then is
right exactly if the output is. A receipt that `proveValidity` accepts from anyone has the
proposal as its precondition, or the proposal has one output, and the guest's validation of
the precondition is what makes the intermediate outputs and the trailing data right.
`ValidatorProofsAreAccepted` says of two kinds of proposals nothing, right ones that fill
their last blob and wrong ones with `LooksValid`; findings 2 and 3 are about these.

`OracleIsBinding` proves `AnswersAreBinding` for any shards and pointers. `OracleInv` says that
what can be popped was validated (`Right`) and that what was answered agrees with the cache
(`Binding`). The core is `Validate => Right`: an entry validated only by its pointer is right
because pointers go strictly back, an induction over shards and, within one, over places.
A second induction shows that what an honest host finalizes is well formed.

`HonestReplayIsServed` proves `ReplayServesAll`, for any number of reads, any shard size and
any order of the replay. `ReplayInv` counts: for every key, the entries left in the shards, in
the stream's frames and aside (`Left`) are as many as the reads to come take (`Owed`; a local
key needs one, which is cached). `finalize_preimages` places one entry after another, and each
placement adds one to the count of its key and to no other (`PlaceNextCounts`, with
`PlaceInduction` over the entries); its pointers lead to earlier equal entries, so `validate`
passes. A frame is never an empty shard, so the stream ends only when nothing is left; and what
is set aside never has the wanted key. So a read that is owed finds its entry, in the shards
loaded or in a frame to come.

### Services: `ServiceProofs`

`OrdersHaveReason` proves `NoNeedlessOrder`. `ServicesInv`: a call that stands at the n-th id
of its chain has passed over the earlier ones, each held by an order that is of no use to it
(`PassedOver`), and so has whoever placed an order at that id. Orders are never deleted and
leave the state "open" once, so what was passed over stays so, across restarts too.

`CutsTile`, `NoPanic`, `DoneMeansProven` and `FailureHasCause` prove `PartsTile`, `NeverPanics`,
`DoneIsProven` and `FailsForCause`, from the single invariant `ProverInv`:

* `WaitInv`: the ranges that wait, run, have returned or are proven (`Open` and `proofs`) are
  pairwise disjoint, as many as `need`, and cover the request (when proofs are neither left
  unawaited nor derivation skipped, which drops ranges on purpose). That the cuts of `prove`, of
  `compute_fpvm_proof` and of the preflights tile their range is shown over rising sequences of
  block numbers (`ChainCovers`); a split keeps a tiling, since the halves tile what they replace.
* `JobInv`: the tasks in the queue, with workers and in the inbox that carry a job's range
  (`Mine`) are exactly those it waits for, and the execution parts it has and waits for tile its
  range (`Counted`). So a result is always one that the job can use, and when the last part
  is in, the parts tile.
* `StaleInv`: a job that returns early leaves execution tasks behind. Its range is then split
  or dropped, so no range that waits or runs contains the one such a task names: the task is
  never taken for one of a later job, and its answer is lost (`Deliver`) as in the code, where
  the receiving end of its channel is gone.
* Files and errors only grow while the program runs (`Kept`), and `Restart` keeps the files, so
  `ResultInv`, which ties an outcome to the file or error behind it, survives every step; a
  file that is half written is no file (`partial`).
* `FailureInv` and `ResultInv` carry the cause of a failure: a witness that is too large for a range of
  one block means that the derivation of that block does not fit (`OneBlock`), because with
  execution-only proofs nothing else of it counts. `FailureHasCause` then says that nothing but
  an `Obstacle` makes `prove` give up when the derivation of every block fits.

`ProverAssumption` types the requests: block numbers, limits and sizes are naturals, the
request is not empty and `max_derivation_length` is positive, as `prove` requires to cut at all.

### Only model-checked

Liveness, which is out of the prover's reach: `CallTerminates`, `CorrectProposalDecidesTournament`,
`ResolvesWhatIsDue`, `FaultIsRefuted`, `ProverEnds`, `CallsEnd`.

## 5. Not modelled

* Derivation and block execution (third-party crates): deterministic functions here.
* The adapters for Celestia and EigenDA (`hana`, `hokulea`): they pass other data sources
  to the same stitching client; their own checks are calls of third-party crates.
* KZG and 255-bit field arithmetic, hash functions and byte layouts (`rkyv`, ABI): beyond
  TLC's integers, or without a property here that depends on them.
* Vendored contracts, beyond what `propose` and `initialize` use of the factory.
* Telemetry, retries of idempotent reads, signer and provider configuration, the CLI and
  its deployment script, developer tools (`fault`, `demo`, `bench`).
* L2 reorganizations below the safe head, and panics of a prover's worker.

`PROJECT.json` gives the reason for each part.

## 6. Plan

Built so far, in this order: pruning, contracts, their invariant, the ledger and its
refinement, agent, proposer, validator, guest, fault proofs from end to end, prover and
services, RPC; then the proofs of section 4. Every safety property of a passing run is now
stated by a theorem. Next would be the parts of section 5 with logic of their own: the
configuration checks of `fast_track`, and the sources of alternative data availability.
