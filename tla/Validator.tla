------------------------------ MODULE Validator ------------------------------
(***************************************************************************)
(* The validator agent.  Its loop calls sync(), decides for each new       *)
(* proposal which proof to ask for, if any, hands due requests to the      *)
(* provers, and publishes what comes back.  Requests wait for a random     *)
(* time and proofs take as long as they take, so that within one turn of   *)
(* the loop any of them may or may not be handled.  The ledger eliminates  *)
(* only what a proof refutes.                                              *)
(***************************************************************************)
EXTENDS SyncSafety, Bags

CONSTANTS
  Configs,         \* the validators and deployments considered: the heights to fast
                   \* forward, whether proposal_output_count is 1, and the heights at which
                   \* a wrong root claim repeats the right first output of its proposal
  Provers,         \* num_concurrent_provers
  MaxErrors        \* bound on failures: of requests, transactions, provers, the process

ASSUME ValidatorAssumption ==
  /\ \A c \in Configs : /\ c.forward \subseteq Nat /\ c.single \in BOOLEAN
                        /\ c.repeats \subseteq Nat /\ (c.single => c.repeats = {})
  /\ Provers \in Nat /\ MaxErrors \in Nat

VARIABLES
  config,       \* the one that runs
  phase,        \* the part of the loop body that is next
  loaded,       \* loaded_proposals, those not processed yet
  work,         \* the requests and proofs in buffers, channels and provers
  usedHead,     \* last_proof_l1_head
  workers,      \* the provers still running
  faultProven,  \* the tournaments and signatures proven faulty
  validProven,  \* the tournaments with a validity proof
  errors

chainVars == <<faultProven, validProven>>
pipeVars == <<phase, loaded, work, usedHead, workers>>
validatorVars == <<config, pipeVars, chainVars, errors>>
validateVars == <<syncVars, validatorVars>>

\* A request waits in the heap of its kind, then with the provers, who return a proof
\* or find that they need a later L1 head.
Request(kind, i) == [at |-> "buffer", kind |-> kind, game |-> i]
Task(kind, i, h) == [at |-> "prover", kind |-> kind, game |-> i, head |-> h]
Proof(kind, i, h) == [at |-> "computed", kind |-> kind, game |-> i, head |-> h]
NoProof(i) == [at |-> "computed", kind |-> "none", game |-> i]

Drop(x) == work' = work (-) SetToBag({x})
Move(x, y) == work' = (work (-) SetToBag({x})) (+) SetToBag({y})

\* The signature commits to root claim and blobs.  Besides the valid one there are two
\* faulty ones here: with a wrong claim, and with the right claim and faulty trailing data.
SameSignature(c, i) == games[c].good = games[i].good /\ games[c].claim = games[i].claim
FaultKind(i) == IF games[i].claim THEN "trail" ELSE "fault"

\* proofStatus of i's signature is set
IsProven(i) ==
  IF games[i].good THEN Parent(i) \in validProven
  ELSE <<Parent(i), games[i].claim>> \in faultProven

Refuted(i) == ~games[i].good /\ (IsProven(i) \/ Parent(i) \in validProven)

ValidatorInit ==
  /\ SyncInit
  /\ config \in Configs
  /\ phase = "sync" /\ loaded = {} /\ work = EmptyBag
  /\ usedHead = [i \in {} |-> 0] /\ workers = Provers
  /\ faultProven = {} /\ validProven = {}
  /\ errors = 0

-----------------------------------------------------------------------------
\* What follows sync(): "scan newly added proposals".
AfterSync(new) == IF new = {} THEN "work" ELSE "process"

\* The next turn of the loop: sync(), with or without an error.
ValidatorSync ==
  /\ phase \in {"sync", "work"}
  /\ AgentStep
  /\ loaded' = reported' \ reported
  /\ phase' = IF pc' # "idle" \/ pc = "off" THEN "sync" ELSE AfterSync(loaded')
  /\ UNCHANGED <<config, work, usedHead, workers, chainVars, errors>>

(***************************************************************************)
(* process_proposals                                                       *)
(***************************************************************************)
\* The earlier proposals of i's tournament that are in play.
Predecessors(i) ==
  {c \in proposals[Parent(i)].children \cap DOMAIN proposals :
     c < i /\ ~EliminatedBefore(eliminations, c)}

IsPriorFault(i) == \E c \in Predecessors(i) : ~proposals[c].correct

\* Mutant: every faulty predecessor counts as a duplicate.
IsAnyRepeat(i) == IsPriorFault(i)
IsRepeatSignature(i) == \E c \in Predecessors(i) : SameSignature(c, i)

IsSettled(i) ==
  \/ i \notin DOMAIN proposals \/ i = Root
  \/ proposals[i].resolved
  \/ Parent(i) \notin DOMAIN proposals
  \/ Parent(i) \in validProven

\* "Switch to validity proving if only one output is admissible": the request is for the
\* expected successor, when the first conflict with it shows.
AnswerSingleOutput(i) ==
  LET s == proposals[Parent(i)].successor
  IN IF /\ s # None
        /\ IF s = i THEN IsPriorFault(i) ELSE ~proposals[i].correct /\ ~IsPriorFault(i)
     THEN {Request("valid", s)} ELSE {}

AnswerFault(i) ==
  IF IsRepeatSignature(i) \/ proposals[i].correct \/ IsProven(i)
  THEN {} ELSE {Request(FaultKind(i), i)}

\* The request that proposal i gives rise to, if any.
Answer(i) ==
  LET forward == games[i].height \in config.forward
  IN IF IsSettled(i) THEN {}
     ELSE IF forward /\ proposals[i].canonical THEN {Request("valid", i)}
     ELSE IF forward /\ proposals[Parent(i)].successor # None THEN {}
     ELSE IF config.single THEN AnswerSingleOutput(i)
     ELSE AnswerFault(i)

Process ==
  /\ phase = "process"
  /\ LET i == Min(loaded) IN
       /\ loaded' = loaded \ {i}
       /\ work' = work (+) SetToBag(Answer(i))
  /\ phase' = AfterSync(loaded')
  /\ UNCHANGED <<syncVars, config, usedHead, workers, chainVars, errors>>

-----------------------------------------------------------------------------
(***************************************************************************)
(* dispatch_proof_requests                                                 *)
(***************************************************************************)
\* The proposal or its parent is missing: the item is dropped once they are resolved or
\* older, and kept otherwise.
IsMissing(i) == i \notin DOMAIN proposals \/ Parent(i) \notin DOMAIN proposals
IsFreed(i) == lastResolved >= IF i \notin DOMAIN proposals THEN i ELSE Parent(i)

DropFreed(x) ==
  /\ x.at # "prover" /\ x.kind # "trail"
  /\ IsMissing(x.game) /\ IsFreed(x.game)
  /\ Drop(x) /\ UNCHANGED <<usedHead, chainVars, errors>>

\* Mutant: range(last_block_no..)
SameHeads(i) ==
  IF i \notin DOMAIN usedHead THEN {games[i].at}
  ELSE {Min({h \in heads : h >= usedHead[i]})}

\* get_next_l1_head: the proposal's own, then each time the next one known.
NextHeads(i) ==
  IF i \notin DOMAIN usedHead THEN {games[i].at}
  ELSE LET later == {h \in heads : h > usedHead[i]}
       IN IF later = {} THEN {} ELSE {Min(later)}

UseHead(i, h) == usedHead' = [j \in DOMAIN usedHead \cup {i} |-> IF j = i THEN h ELSE usedHead[j]]

Dispatch(x) ==
  /\ x.at = "buffer" /\ x.kind # "trail" /\ ~IsMissing(x.game)
  /\ \/ IsProven(x.game) /\ Drop(x) /\ UNCHANGED <<usedHead, errors>>
     \/ /\ ~IsProven(x.game)
        /\ \E h \in NextHeads(x.game) :
             /\ UseHead(x.game, h)
             /\ \/ Move(x, Task(x.kind, x.game, h)) /\ UNCHANGED errors
                \/ errors < MaxErrors /\ errors' = errors + 1 /\ UNCHANGED work
  /\ UNCHANGED chainVars

-----------------------------------------------------------------------------
(***************************************************************************)
(* publish_receipt_proofs and publish_trail_proofs.  A transaction is      *)
(* tried out before it is sent; one that ends in an error may have been    *)
(* mined, and one that another proof overtakes is mined, reverts and       *)
(* counts as a success.                                                    *)
(***************************************************************************)
\* KailuaTournament accepts a proof about i
Accepts(i) == ~Decided(Parent(i)) /\ ~IsProven(i)

Record(kind, i) ==
  IF kind = "valid"
  THEN validProven' = validProven \cup {Parent(i)} /\ UNCHANGED faultProven
  ELSE faultProven' = faultProven \cup {<<Parent(i), games[i].claim>>} /\ UNCHANGED validProven

Transact(x) ==
  \/ Accepts(x.game) /\ Record(x.kind, x.game) /\ Drop(x) /\ UNCHANGED errors
  \/ /\ Accepts(x.game) /\ errors < MaxErrors /\ errors' = errors + 1
     /\ Record(x.kind, x.game) \/ UNCHANGED chainVars
     /\ UNCHANGED work
  \/ ~Accepts(x.game) /\ Drop(x) /\ UNCHANGED <<chainVars, errors>>

\* "request another proof with new head"
RequestAgain(i) ==
  Request(IF proposals[i].canonical \/ config.single THEN "valid" ELSE "fault", i)

\* "Check if proof is a viable validity proof": the roots of its journal are those of the
\* parent and of the proposal, as those of a fault proof may be too.
LooksValid(x) ==
  \/ x.kind = "valid"
  \/ x.kind = "fault" /\ games[x.game].height \in config.repeats

\* The tournament accepts the call that is made with a receipt: a fault proof is not called
\* a validity proof, and the source of its L1 head is known to the treasury.
IsWelcome(x) == (x.kind = "fault" => ~LooksValid(x)) /\ x.head \notin foreign

\* A receipt that is not welcome fails when it is tried out, and is kept for the next turn.
\* Receipts are SNARKs, of which encode_seal has the seal.
PublishReceipt(x) ==
  /\ x.at = "computed" /\ ~IsMissing(x.game)
  /\ \/ /\ Parent(x.game) \in validProven
        /\ Drop(x) /\ UNCHANGED <<chainVars, errors>>
     \/ /\ Parent(x.game) \notin validProven /\ x.kind = "none"
        /\ Move(x, RequestAgain(x.game)) /\ UNCHANGED <<chainVars, errors>>
     \/ /\ Parent(x.game) \notin validProven /\ x.kind # "none" /\ x.head \in heads
        /\ ~LooksValid(x) /\ IsProven(x.game)
        /\ Drop(x) /\ UNCHANGED <<chainVars, errors>>
     \/ /\ x.kind # "none" /\ x.head \in heads /\ IsWelcome(x)
        /\ Transact(x)
  /\ UNCHANGED usedHead

PublishTrail(x) ==
  /\ x.at = "buffer" /\ x.kind = "trail"
  /\ \/ /\ IsMissing(x.game) /\ lastResolved >= x.game
        /\ Drop(x) /\ UNCHANGED <<chainVars, errors>>
     \/ /\ ~IsMissing(x.game) /\ IsProven(x.game)
        /\ Drop(x) /\ UNCHANGED <<chainVars, errors>>
     \/ /\ ~IsMissing(x.game) /\ Transact(x)
  /\ UNCHANGED usedHead

Handle(x) ==
  /\ phase = "work"
  /\ DropFreed(x) \/ Dispatch(x) \/ PublishReceipt(x) \/ PublishTrail(x)
  /\ UNCHANGED <<syncVars, config, phase, loaded, workers>>

-----------------------------------------------------------------------------
(***************************************************************************)
(* handle_proving_tasks.  A task that fails is submitted again, which      *)
(* leaves everything as it was.                                            *)
(***************************************************************************)
\* The proof is computed, or the L1 head does not reach far enough.
Prove(x) ==
  /\ phase = "work" /\ x.at = "prover" /\ workers > 0
  /\ \/ Move(x, Proof(x.kind, x.game, x.head))
     \/ Move(x, NoProof(x.game))
  /\ UNCHANGED <<syncVars, config, phase, loaded, usedHead, workers, chainVars, errors>>

\* The prover binary cannot be started: the worker ends and its task is lost.
SpawnFails(x) ==
  /\ phase = "work" /\ x.at = "prover" /\ workers > 0 /\ errors < MaxErrors
  /\ workers' = workers - 1 /\ errors' = errors + 1 /\ Drop(x)
  /\ UNCHANGED <<syncVars, config, phase, loaded, usedHead, chainVars>>

\* A restart loses all requests and proofs.
ValidatorRestart ==
  /\ phase = "work" /\ work # EmptyBag /\ Crash /\ errors < MaxErrors /\ errors' = errors + 1
  /\ phase' = "sync" /\ loaded' = {} /\ work' = EmptyBag
  /\ usedHead' = [i \in {} |-> 0] /\ workers' = Provers
  /\ UNCHANGED <<config, chainVars>>

-----------------------------------------------------------------------------
(***************************************************************************)
(* The chain and the provers.  They move while the validator is not inside *)
(* sync(), whose interleavings SyncAgent covers; process_proposals reads   *)
(* nothing of the chain but its proofs.                                    *)
(***************************************************************************)
Propose ==
  \E p \in Proposers, t \in Indices, ok \in BOOLEAN :
    /\ Submit(p, t, ok)
    /\ LET g == games'[GameCount]
       IN g.good \/ (/\ t \notin validProven /\ <<t, g.claim>> \notin faultProven
                     /\ config.single => ~g.claim)

Prune ==
  \E t \in Indices :
    PruneSome(t) /\ \A p \in Proposers : round'[p] # round[p] => Refuted(round'[p])

Resolve ==
  \/ ResolveRoot
  \/ \E w \in Indices : ResolveGame(w) /\ \A c \in Beaten(w) : Refuted(c)

ValidatorWorld ==
  /\ phase = "work" \/ (pc \in {"off", "idle"} /\ DOMAIN proposals = {})
  /\ Propose \/ SubmitForeign \/ Prune \/ Resolve \/ LedgerTick
  /\ UNCHANGED <<safe, agentVars, validatorVars>>

\* Another validator's proof
RivalProof(i) ==
  /\ phase # "sync"
  /\ i # Root /\ games[i].ours /\ Accepts(i)
  /\ Record(IF games[i].good THEN "valid" ELSE "fault", i)
  /\ UNCHANGED <<syncVars, config, pipeVars, errors>>

ValidatorAct == ValidatorSync \/ Process

ValidatorNext ==
  \/ ValidatorAct \/ ValidatorRestart \/ ValidatorWorld
  \/ \E x \in BagToSet(work) : Handle(x) \/ Prove(x) \/ SpawnFails(x)
  \/ \E i \in Indices : RivalProof(i)

ValidatorSpec == ValidatorInit /\ [][ValidatorNext]_validateVars
=============================================================================
