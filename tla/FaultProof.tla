----------------------------- MODULE FaultProof -----------------------------
(***************************************************************************)
(* The way of one proposal from its blobs to its proof: how the agent      *)
(* reads and assesses it, which proof the validator asks the guest for,    *)
(* with which arguments it publishes what comes back, and what the         *)
(* tournament then verifies.  Others may publish proofs of it at any time. *)
(*                                                                         *)
(* Every game here has a correct parent; the op-node's outputs are those   *)
(* that FpvmClient derives.  A KZG opening is a blob and a position in it. *)
(***************************************************************************)
EXTENDS FpvmClient, FiniteSetsExt

CONSTANTS
  Shapes,    \* the deployments considered: head of the parent, output count and span
  Elements,  \* bound: the field elements that a blob of a rival holds
  Claims     \* bound: the root claims of a rival

VARIABLES
  game,      \* the proposal on chain
  job,       \* the validator's work on it
  status     \* proofStatus of its signature

disputeVars == <<game, job, status>>

\* output_at_block of the op-node
Output(n) == ChainFrom(Genesis, Absent, n)
Outputs(s) == {Output(n) : n \in 0..(s.head + s.count * s.span)}

ASSUME ShapesAssumption ==
  /\ Shapes \subseteq [head : Nat, count : Nat \ {0}, span : Nat \ {0}]
  /\ Elements \subseteq Nat /\ Claims \subseteq AgreedRoots

\* Nobody knows of an output root whose hash falls on the same field element as that of an
\* output of the chain.
ASSUME NoCollisions ==
  \A s \in Shapes : \A o \in Claims \cup Outputs(s), x \in Outputs(s) :
    HashToFe(o) = HashToFe(x) => o = x

BlobIndex(k) == k \div FieldsPerBlob
FieldElementIndex(k) == k % FieldsPerBlob

\* PROPOSAL_BLOBS
ProposalBlobs(count) ==
  BlobIndex(count - 1) + (IF FieldElementIndex(count - 1) = 0 THEN 0 ELSE 1)

-----------------------------------------------------------------------------
(* Proposals *)

\* create_sidecar: as many blobs as the field elements need, and zeros after them.
CreateSidecar(fields) ==
  [b \in 1..ProposalBlobs(Len(fields) + 1) |->
     [f \in 1..FieldsPerBlob |->
        LET k == (b - 1) * FieldsPerBlob + f IN IF k <= Len(fields) THEN fields[k] ELSE 0]]

Game(s, blobs, claim) ==
  [head |-> s.head, count |-> s.count, span |-> s.span, blobs |-> blobs,
   agreed |-> Output(s.head), claim |-> claim]

\* The proposal that an honest proposer makes.
OwnProposal(s) ==
  Game(s, CreateSidecar([i \in 1..(s.count - 1) |-> HashToFe(Output(s.head + i * s.span))]),
       Output(s.head + s.count * s.span))

\* Any other that KailuaGame.initialize accepts: it asks for PROPOSAL_BLOBS blobs.
RivalProposals(s) ==
  {Game(s, blobs, claim) : claim \in Claims,
     blobs \in [1..ProposalBlobs(s.count) -> [1..FieldsPerBlob -> Elements]]}

DisputeInit ==
  /\ game \in UNION {{OwnProposal(s)} \cup RivalProposals(s) : s \in Shapes}
  /\ job = [pc |-> "new"]
  /\ status = "none"

-----------------------------------------------------------------------------
(* The agent reads and assesses the proposal *)

\* One blob: the intermediate outputs still due, and what remains is trailing data.
ReadBlob(count, data, blob) ==
  LET n == Min({count - Len(data.io) - 1, FieldsPerBlob}) IN
  [io |-> data.io \o SubSeq(blob, 1, n), trail |-> data.trail \o SubSeq(blob, n + 1, FieldsPerBlob)]

\* Proposal::load_game
LoadGame ==
  /\ job.pc = "new"
  /\ LET read[b \in 0..Len(game.blobs)] ==
           IF b = 0 THEN [io |-> <<>>, trail |-> <<>>]
                    ELSE ReadBlob(game.count, read[b - 1], game.blobs[b])
         data == read[Len(game.blobs)]
     IN job' = [pc |-> "loaded", io |-> data.io, trail |-> data.trail]
  /\ UNCHANGED <<game, status>>

\* assess_correctness
CorrectIo(i) == job.io[i] = HashToFe(Output(game.head + i * game.span))
CorrectTrail(i) == job.trail[i] = 0
CorrectClaim == game.claim = Output(EndOf(game))

NoFault == [kind |-> "none", at |-> 0]

\* Mutant: the root claim is not counted among the positions.
FaultOfUnshifted ==
  LET trail == {i \in DOMAIN job.trail : ~CorrectTrail(i)}
      io == {i \in DOMAIN job.io : ~CorrectIo(i)} IN
  IF trail # {} THEN [kind |-> "trail", at |-> Len(job.io) + Min(trail) - 1]
  ELSE IF io # {} THEN [kind |-> "output", at |-> Min(io) - 1]
  ELSE IF ~CorrectClaim THEN [kind |-> "output", at |-> Len(job.io)]
  ELSE NoFault

\* fault(), with positions from zero: trailing data first, after the root claim.
FaultOf ==
  LET trail == {i \in DOMAIN job.trail : ~CorrectTrail(i)}
      io == {i \in DOMAIN job.io : ~CorrectIo(i)} IN
  IF trail # {} THEN [kind |-> "trail", at |-> Len(job.io) + Min(trail)]
  ELSE IF io # {} THEN [kind |-> "output", at |-> Min(io) - 1]
  ELSE IF ~CorrectClaim THEN [kind |-> "output", at |-> Len(job.io)]
  ELSE NoFault

Assess ==
  /\ job.pc = "loaded"
  /\ job' = [pc |-> "assessed", io |-> job.io, trail |-> job.trail, fault |-> FaultOf]
  /\ UNCHANGED <<game, status>>

\* output_fe_at
OutputFeAt(at) ==
  IF at < Len(job.io) THEN job.io[at + 1]
  ELSE IF at = Len(job.io) THEN HashToFe(game.claim)
  ELSE job.trail[at - Len(job.io)]

\* io_commitment_for and io_proof_for
Opening(k) == [blob |-> game.blobs[BlobIndex(k) + 1], position |-> FieldElementIndex(k)]

-----------------------------------------------------------------------------
(* The validator asks for a proof *)

Precondition == [head |-> game.head, count |-> game.count, span |-> game.span, blobs |-> game.blobs]

Receipt(precondition, agreed, claimed, number) ==
  [precondition |-> precondition, agreed |-> agreed, claimed |-> claimed, number |-> number]

Ask(receipt) ==
  job' = [pc |-> "asked", io |-> job.io, trail |-> job.trail, fault |-> job.fault,
          receipt |-> receipt]

RequestFaultProof ==
  /\ job.pc = "assessed" /\ job.fault.kind = "output"
  /\ LET agreed == game.head + game.span * job.fault.at
         claimed == agreed + game.span
     IN Ask(Receipt(NoProposal, Output(agreed), Output(claimed), claimed))
  /\ UNCHANGED <<game, status>>

RequestValidityProof ==
  /\ job.pc = "assessed" /\ job.fault = NoFault
  /\ Ask(Receipt(IF game.count > 1 THEN Precondition ELSE NoProposal,
                 game.agreed, game.claim, EndOf(game)))
  /\ UNCHANGED <<game, status>>

\* What the guest can prove: see ProvenOutputsAreDerived and ProvenPreconditionsHold.
Provable(r) ==
  LET roots == [i \in 1..(r.number - r.agreed.n) |-> ChainFrom(r.agreed, Absent, i)] IN
  /\ r.claimed = ChainFrom(r.agreed, Absent, Len(roots))
  /\ r.precondition # NoProposal => ValidatePrecondition(r.precondition, r.agreed.n, roots)

Prove ==
  /\ job.pc = "asked"
  /\ job' = [job EXCEPT !.pc = IF Provable(job.receipt) THEN "proved" ELSE "unprovable"]
  /\ UNCHANGED <<game, status>>

-----------------------------------------------------------------------------
(* What the tournament verifies *)

\* The blob is the proposal's own and the opening is that of the field.
VerifyIntermediateOutput(k, fe, o) ==
  /\ BlobIndex(k) + 1 \in DOMAIN game.blobs
  /\ o.blob = game.blobs[BlobIndex(k) + 1]
  /\ o.position = FieldElementIndex(k) /\ o.blob[o.position + 1] = fe

\* The journal that the contract expects.
Verify(r, precondition, agreed, claimed, outputs) ==
  r = Receipt(precondition, agreed, claimed, game.head + outputs * game.span)

\* Mutant: the intermediate outputs are not compared.
AcceptsClaimOnly(r) ==
  /\ status = "none"
  /\ \/ Verify(r, NoProposal, game.agreed, game.claim, game.count)
     \/ Verify(r, Precondition, game.agreed, game.claim, game.count)

AcceptsValidity(r) ==
  /\ status = "none"
  /\ Verify(r, IF game.count > 1 THEN Precondition ELSE NoProposal, game.agreed, game.claim,
            game.count)

AcceptsOutputFault(r, at, agreed, claimed, fe, openings) ==
  /\ status = "none" /\ at < game.count
  /\ IF at = 0 THEN agreed = game.agreed
     ELSE openings # <<>> /\ VerifyIntermediateOutput(at - 1, HashToFe(agreed), Head(openings))
  /\ IF at = game.count - 1 THEN claimed # game.claim
     ELSE /\ openings # <<>> /\ VerifyIntermediateOutput(at, fe, Last(openings))
          /\ HashToFe(claimed) # fe
  /\ Verify(r, NoProposal, agreed, claimed, at + 1)

\* Mutant: the last intermediate output passes for trailing data.
AcceptsTrailFaultFrom(at, fe, opening) ==
  /\ status = "none" /\ at >= game.count - 1 /\ at > 0 /\ fe # 0
  /\ BlobIndex(at - 1) = ProposalBlobs(game.count) - 1
  /\ VerifyIntermediateOutput(at - 1, fe, opening)

AcceptsTrailFault(at, fe, opening) ==
  /\ status = "none" /\ at >= game.count /\ fe # 0
  /\ BlobIndex(at - 1) = ProposalBlobs(game.count) - 1
  /\ VerifyIntermediateOutput(at - 1, fe, opening)

-----------------------------------------------------------------------------
(* The validator publishes *)

\* Refused is a transaction that fails its dry run, to be tried again with the same
\* arguments, and one that is not sent because a proof is there already.
Publish(accepted, outcome) ==
  /\ job' = [job EXCEPT !.pc = IF accepted THEN "published" ELSE "refused"]
  /\ status' = IF accepted THEN outcome ELSE status

\* "Check if proof is a viable validity proof"
IsValidityReceipt(r) == r.agreed = game.agreed /\ r.claimed = game.claim

PublishValidity ==
  /\ job.pc = "proved" /\ IsValidityReceipt(job.receipt)
  /\ Publish(AcceptsValidity(job.receipt), "validity")
  /\ UNCHANGED game

PublishOutputFault ==
  /\ job.pc = "proved" /\ ~IsValidityReceipt(job.receipt)
  /\ LET r == job.receipt
         at == job.fault.at
         openings == (IF at > 0 THEN <<Opening(at - 1)>> ELSE <<>>)
                     \o (IF r.number # EndOf(game) THEN <<Opening(at)>> ELSE <<>>)
     IN Publish(AcceptsOutputFault(r, at, r.agreed, r.claimed, OutputFeAt(at), openings), "fault")
  /\ UNCHANGED game

PublishTrailFault ==
  /\ job.pc = "assessed" /\ job.fault.kind = "trail"
  /\ LET at == job.fault.at
     IN Publish(AcceptsTrailFault(at, OutputFeAt(at), Opening(at - 1)), "fault")
  /\ UNCHANGED game

\* Anybody's proof, with any arguments for which a receipt and openings exist.  A receipt is of
\* any blocks, with or without the proposal as its precondition.
Openings == [blob : Range(game.blobs), position : 0..(FieldsPerBlob - 1)]
Value(o) == o.blob[o.position + 1]
Positions == 0..(Len(game.blobs) * FieldsPerBlob + 1)
Receipts ==
  {r \in {Receipt(precondition, agreed, ChainFrom(agreed, Absent, number - agreed.n), number) :
            precondition \in {NoProposal, Precondition},
            agreed \in Claims \cup {game.agreed}, number \in 1..EndOf(game)} :
     r.number > r.agreed.n /\ Provable(r)}

RivalFault ==
  /\ status = "none"
  /\ \/ \E at \in Positions, r \in Receipts :
          \/ game.count = 1 /\ AcceptsOutputFault(r, at, r.agreed, r.claimed, 0, <<>>)
          \/ \E o, q \in Openings :
               AcceptsOutputFault(r, at, r.agreed, r.claimed, Value(q), <<o, q>>)
     \/ \E at \in Positions, o \in Openings : AcceptsTrailFault(at, Value(o), o)
  /\ status' = "fault"
  /\ UNCHANGED <<game, job>>

RivalValidity ==
  /\ status = "none"
  /\ \E r \in Receipts : AcceptsValidity(r)
  /\ status' = "validity"
  /\ UNCHANGED <<game, job>>

DisputeNext ==
  \/ LoadGame \/ Assess \/ RequestFaultProof \/ RequestValidityProof \/ Prove
  \/ PublishValidity \/ PublishOutputFault \/ PublishTrailFault
  \/ RivalFault \/ RivalValidity

DisputeSpec == DisputeInit /\ [][DisputeNext]_disputeVars

-----------------------------------------------------------------------------
(* PROPERTIES *)

\* What the proposal should be: the outputs of the chain, and nothing after them.
IsRight(p) ==
  /\ p.claim = Output(EndOf(p))
  /\ WellFormed(p, Genesis, Absent)

\* The tournament believes only what is true of a proposal, whoever submits whichever proof
\* at whichever position: proveOutputFault, proveTrailFault and proveValidity never let the
\* proof of one output, blob or height pass for another's.
StatusIsRight ==
  /\ status = "fault" => ~IsRight(game)
  /\ status = "validity" => IsRight(game)

\* The receipt of a fault at the first output, of a proposal whose root claim repeats the
\* right first output, has the roots of a validity proof.
LooksValid(p) ==
  /\ p.count > 1 /\ p.claim = Output(p.head + p.span)
  /\ FieldOf(p, 1) # HashToFe(Output(p.head + p.span))

\* The validator's proofs are not made in vain: what fault(), request_fault_proof,
\* io_proof_for and output_fe_at compute is what the guest can prove and the tournament
\* verifies, for every place in which a proposal can be wrong; and a right proposal whose
\* outputs leave room in its last blob is proven valid.  A fault whose receipt has the roots
\* of a validity proof is not published as a fault: see EveryProofIsAccepted.
ProofsAreAccepted ==
  /\ job.pc = "unprovable" => IsRight(game) /\ Filled(game)
  /\ job.pc = "refused" => status # "none" \/ LooksValid(game)

\* What the book promises of every dispute: the proof that the validator publishes settles it.
\* publish_receipt_proofs is to tell a "viable validity proof" from a fault proof.
EveryProofIsAccepted == job.pc = "refused" => status # "none"

-----------------------------------------------------------------------------
(***************************************************************************)
(* The inductive invariant behind StatusIsRight and ProofsAreAccepted: see *)
(* GuestProofs.                                                            *)
(***************************************************************************)

IsGame(g) ==
  \E s \in Shapes :
    /\ g.head = s.head /\ g.count = s.count /\ g.span = s.span
    /\ g.agreed = Output(s.head) /\ g.claim \in Claims \cup Outputs(s)
    /\ g.blobs \in [1..ProposalBlobs(s.count) -> [1..FieldsPerBlob -> Nat]]

\* What load_game reads: the intermediate outputs, and the fields after them.
IsLoaded(j) ==
  /\ j.io = [i \in 1..(game.count - 1) |-> FieldOf(game, i)]
  /\ j.trail = [i \in 1..(NumFields(game) - (game.count - 1)) |->
                 FieldOf(game, game.count - 1 + i)]

\* The receipts that the validator asks for.
FaultReceipt(at) ==
  Receipt(NoProposal, Output(game.head + game.span * at), Output(game.head + game.span * at + game.span),
          game.head + game.span * at + game.span)
ValidityReceipt ==
  Receipt(IF game.count > 1 THEN Precondition ELSE NoProposal, game.agreed, game.claim, EndOf(game))

IsAssessed(j) == IsLoaded(j) /\ j.fault = FaultOf

IsAsked(j) ==
  /\ j = [pc |-> j.pc, io |-> j.io, trail |-> j.trail, fault |-> j.fault, receipt |-> j.receipt]
  /\ IsAssessed(j)
  /\ \/ j.fault = NoFault /\ j.receipt = ValidityReceipt
     \/ j.fault.kind = "output" /\ j.receipt = FaultReceipt(j.fault.at)
  /\ j.pc = "proved" => Provable(j.receipt)

IsJob(j) ==
  \/ j.pc \in {"new", "published", "refused"}
  \/ j.pc = "loaded" /\ IsLoaded(j)
  \/ /\ j.pc = "assessed" /\ IsAssessed(j)
     /\ j = [pc |-> j.pc, io |-> j.io, trail |-> j.trail, fault |-> j.fault]
  \/ j.pc \in {"asked", "proved", "unprovable"} /\ IsAsked(j)

DisputeInv ==
  /\ IsGame(game) /\ IsJob(job) /\ status \in {"none", "fault", "validity"}
  /\ StatusIsRight /\ ProofsAreAccepted
=============================================================================
