--------------------------- MODULE ValidatorSafety ---------------------------
(***************************************************************************)
(* What the protocol and its operator expect of a validator.               *)
(***************************************************************************)
EXTENDS Validator

\* A faulty proposal that the validator knows of, in a tournament still open.
OpenFault(i) ==
  /\ i \in DOMAIN proposals \cap reported
  /\ i # Root /\ ~games[i].good /\ ~Refuted(i)
  /\ Parent(i) \in DOMAIN proposals /\ ~Decided(Parent(i))

\* What refutes i once it is published: a proof of its signature's fault, or of the
\* validity of its rival.
Answers(x, i) ==
  /\ Parent(x.game) = Parent(i)
  /\ SameSignature(x.game, i) \/ games[x.game].good

\* With one output per proposal only a validity proof helps, for which there has to be a
\* correct proposal.
Answerable(i) == config.single => proposals[Parent(i)].successor # None

\* No fault is forgotten: while no prover has been lost, there is a request or a proof
\* under way against every faulty proposal, through every skipped duplicate, failed
\* request or transaction, refused L1 head and freed proposal.
NoFaultForgotten ==
  workers = Provers /\ phase = "work" =>
    \A i \in Indices : OpenFault(i) /\ Answerable(i) =>
      \E x \in BagToSet(work) : Answers(x, i)

\* What a request or proof needs is at hand while its tournament is open: the outputs
\* to prove from, the L1 heads, and the position among its parent's children, which is
\* that of the contract's array.  The lookups of the last two panic, that of the first
\* wastes an L1 head.
WorkFindsItsData ==
  \A x \in BagToSet(work) : ~IsMissing(x.game) /\ ~Decided(Parent(x.game)) =>
    /\ Block(Parent(x.game))..Block(x.game) \subseteq outputs
    /\ games[x.game].at \in heads
    /\ x.kind \in {"fault", "valid"} /\ x.at # "buffer" => x.head \in heads
    /\ LET known == proposals[Parent(x.game)].children IN
         /\ x.game \in known
         /\ {d \in known : d < x.game} = {d \in Children(Parent(x.game)) : d < x.game}

-----------------------------------------------------------------------------
(***************************************************************************)
(* Progress: the loop is endless, handles every item that is due in each   *)
(* turn, and the provers work.                                             *)
(***************************************************************************)
FairValidatorSpec ==
  /\ ValidatorSpec
  /\ WF_validateVars(ValidatorAct)
  /\ SF_validateVars(\E x \in BagToSet(work) : Handle(x) \/ Prove(x))

\* The request is out of L1 heads: every attempt uses one up, a request that failed included,
\* and a later one is known only once somebody proposes again.
OutOfHeads(i) ==
  \E x \in BagToSet(work) : Answers(x, i) /\ x.at = "buffer" /\ NextHeads(x.game) = {}

\* The receipt that would refute i is refused each time it is tried: being taken for a
\* validity proof, or because of the source of its L1 head.
Receipts(i) == {x \in BagToSet(work) : Answers(x, i) /\ x.at = "computed" /\ x.kind # "none"}
IsMisread(i) == \E x \in Receipts(i) : x.kind = "fault" /\ LooksValid(x)
HasForeignSource(i) == \E x \in Receipts(i) : x.head \in foreign

\* Every fault the validator knows of is refuted on chain or moot, through duplicates,
\* insufficient L1 heads, failed transactions and restarts, with four exceptions: its
\* provers are lost, the request has used up the L1 heads, the receipt is taken for a
\* validity proof, or the source of its L1 head is a game of another deployment.
FaultIsRefuted ==
  \A i \in 1..(MaxGames - 1) :
    (i \in Indices /\ phase = "work" /\ OpenFault(i) /\ Answerable(i)) ~>
      (i \in Indices /\ (\/ Refuted(i) \/ Decided(Parent(i))
                         \/ workers < Provers \/ OutOfHeads(i)
                         \/ IsMisread(i) \/ HasForeignSource(i)))

-----------------------------------------------------------------------------
(***************************************************************************)
(* The inductive invariant behind NoFaultForgotten and WorkFindsItsData,   *)
(* when the op-node is ahead of every proposal: see AgentProofs.           *)
(***************************************************************************)

\* Games are created in the order of time.
InOrder ==
  /\ now \in Nat
  /\ \A i \in Indices : games[i].at \in 0..now
  /\ \A i, j \in Indices : i <= j => games[i].at <= games[j].at

\* What the agent has cached of a game.
Cached(j) ==
  /\ games[j].at \in heads
  /\ proposals[j].correct <=> games[j].good
  /\ proposals[j].resolved => j \in resolved
  /\ j # Root /\ Parent(j) \in DOMAIN proposals => Parent(j) \in Followed
  /\ ~games[j].good => eliminations[games[j].proposer] >= j
  /\ proposals[j].children \subseteq Children(j)
  /\ ~Decided(j) => {c \in Children(j) : c < next} \subseteq proposals[j].children

\* The outputs cached are those from lo on, which is below all that is followed.
OutputsFrom(lo) ==
  /\ IF outputs = {} THEN lo = lastOutput ELSE outputs = lo..lastOutput
  /\ \A c \in Followed : lo <= Block(c)
  /\ pc # "off" /\ DOMAIN proposals = {} => lo <= Block(next)
  /\ \A j \in DOMAIN proposals \ {Root} : outputs # {} /\ Block(j) <= lastOutput

CacheInv ==
  /\ InOrder
  /\ heads \subseteq Nat /\ \A j \in DOMAIN proposals : Cached(j)
  /\ lastOutput \in Nat /\ \E lo \in 0..lastOutput : OutputsFrom(lo)

\* The proposals that the loop has processed.
Handled == reported \ loaded

\* Where the loop is; sync() has returned all that is cached, the newest last.
LoopInv ==
  /\ phase \in {"sync", "process", "work"} /\ workers \in 0..Provers /\ config \in Configs
  /\ phase = "process" <=> loaded # {}
  /\ phase # "sync" => pc = "idle"
  /\ pc = "off" => work = EmptyBag
  /\ loaded \subseteq reported
  /\ \A i \in Handled, j \in loaded : i < j
  /\ pc # "off" => reported \subseteq 0..(next - 1)
  /\ pc \in {"idle", "count"} => DOMAIN proposals \subseteq reported
  /\ pc \in {"load", "resolve"} =>
       /\ first \in 0..next /\ reported \subseteq 0..(first - 1)
       /\ DOMAIN proposals \subseteq reported \cup first..(next - 1)
  /\ pc \in {"off", "idle", "count", "load", "resolve"}

Items ==
  [at : {"buffer"}, kind : {"fault", "valid", "trail"}, game : Nat]
    \cup [at : {"prover", "computed"}, kind : {"fault", "valid"}, game : Nat, head : Nat]
    \cup [at : {"computed"}, kind : {"none"}, game : Nat]

\* A request or proof is about a proposal that is cached, or was freed with its parent;
\* validity is proven of correct ones, and at an L1 head that is not older.
ItemInv(x) ==
  /\ x \in Items
  /\ x.game \in reported \ {Root} /\ games[x.game].ours
  /\ x.game \in DOMAIN proposals \/ Parent(x.game) \notin DOMAIN proposals
  /\ x.kind # "none" => (x.kind = "valid" <=> games[x.game].good)
  /\ config.single => games[x.game].good
  /\ x.game \in DOMAIN proposals => (proposals[x.game].canonical <=> games[x.game].good)
  /\ x.at # "buffer" /\ x.kind # "none" =>
       /\ x.head >= games[x.game].at
       /\ x.game \in DOMAIN proposals => x.head \in heads

WorkInv ==
  /\ IsABag(work) /\ \A x \in BagToSet(work) : ItemInv(x)
  /\ \A i \in DOMAIN usedHead :
       i \in Indices /\ usedHead[i] \in Nat /\ usedHead[i] >= games[i].at

Forwards(i) == Height(i) \in config.forward

\* The correct proposal of a tournament to fast forward is being proven.
ForwardInv ==
  \A s \in Handled \cap (Followed \ {Root}) :
    /\ Forwards(s) /\ Parent(s) \in DOMAIN proposals
    /\ ~Decided(Parent(s)) /\ Parent(s) \notin validProven
    => \E x \in BagToSet(work) : x.game = s

\* A processed fault is answered, or will be when the correct proposal is processed.
Awaited(i) ==
  LET s == SuccessorOf(Parent(i)) IN
    \/ config.single /\ s = None
    \/ (config.single \/ Forwards(i)) /\ s \in DOMAIN proposals \ Handled

\* With one output per proposal a fault proof does not end the request for validity.
Unsettled(i) ==
  /\ i \in DOMAIN proposals \ {Root} /\ ~games[i].good
  /\ Parent(i) \in DOMAIN proposals /\ ~Decided(Parent(i))
  /\ Parent(i) \notin validProven /\ (IsProven(i) => config.single)

FaultInv ==
  \A i \in Handled : Unsettled(i) =>
    Awaited(i) \/ \E x \in BagToSet(work) : Answers(x, i)

ValidatorInv ==
  /\ CacheInv /\ LoopInv /\ WorkInv
  /\ workers = Provers /\ pc # "off" => ForwardInv /\ FaultInv
=============================================================================
