---------------------------- MODULE FpvmClient ----------------------------
(***************************************************************************)
(* The proving program: run_core_client derives and executes L2 blocks, or *)
(* only executes a given trace, and run_stitching_client joins the result  *)
(* with results that earlier runs proved.  Every run has a host of its own *)
(* choice, which supplies the boot data, cached executions, blobs and      *)
(* boots to stitch; a run that commits a journal has proven it.            *)
(*                                                                         *)
(* An output root names its block and the payload attributes that produced *)
(* the chain up to it; hashes of other data are the data itself.  The      *)
(* payout recipient and the image id are the same for all the journals.    *)
(***************************************************************************)
EXTENDS Integers, Sequences, SequencesExt, FiniteSets

CONSTANTS
  FieldsPerBlob,   \* FIELD_ELEMENTS_PER_BLOB
  Modulus,         \* BLS_MODULUS, smaller than some output roots
  Hosts            \* what the hosts of a behaviour supply: boot data, attributes of
                   \* traces, a proposal, whether executions are cached, and the
                   \* number of proofs

VARIABLES host, proven, run

clientVars == <<host, proven, run>>

-----------------------------------------------------------------------------
(* Data *)

Absent == "absent"      \* None
Sentinel == "max"       \* the value that stands for None in a hash
Given == "given"        \* any other value
Unsafe == "unsafe"

Attributes == {Absent, Sentinel, Given}
Tags == Attributes \cup {"mix"}

Root(n, t) == [n |-> n, tag |-> t]
Genesis == Root(0, "genesis")
Zero == Root(-1, "zero")

NoHead == 0             \* the zero hash; another L1 head is the last block it derives
NoProposal == <<>>

\* Boot data names an agreed output, whose preimage the run reads, and numbers that fit
\* their width.
AgreedRoots == [n : Nat, tag : Tags \cup {"genesis"}]
BootRecords == [l1 : Nat, agreed : AgreedRoots, number : Nat, config : Attributes]

\* A proposal has at least one output, and an output covers at least one block.
ProposalData ==
  [head : Nat, count : Nat \ {0}, span : Nat \ {0}, blobs : Seq([1..FieldsPerBlob -> Nat])]

ASSUME HostsAssumption ==
  /\ FieldsPerBlob \in Nat \ {0} /\ Modulus \in Nat \ {0}
  /\ \A h \in Hosts : /\ h.boots \subseteq BootRecords /\ h.attributes \subseteq Attributes
                      /\ h.proposal = NoProposal \/ h.proposal \in ProposalData

\* Mutant: a value equal to the default is accepted.
LooseDefault(v) == IF v = Absent THEN Sentinel ELSE v

SafeDefault(v) ==
  CASE v = Absent -> Sentinel [] v = Sentinel -> Unsafe [] OTHER -> v

AttributesHash(a) == SafeDefault(a)
ConfigHash(c) == SafeDefault(c)

\* The number of a root, and the field element that a blob holds for it.
Number(o) == 4 * o.n + (CASE o.tag = Absent -> 0 [] o.tag = Given -> 1 [] OTHER -> 2)
HashToFe(o) == Number(o) % Modulus

\* The block after o built from attributes a, and the attributes that configuration c derives.
Build(o, a) == Root(o.n + 1, IF o.n = 0 \/ o.tag = a THEN a ELSE "mix")
Derived(c) == IF c = Absent THEN Absent ELSE Given

Execution(o, a, h, r, c) ==
  [agreed |-> o, attributes |-> a, header |-> h, result |-> r, claimed |-> c]

\* What a host may say of the block after o: it may be wrong in every part.
Guesses(o) == {Root(o.n + 1, t) : t \in Tags}
Executions(o, a) ==
  {Execution(o, a, h, r, c) : h \in Guesses(o), r \in Guesses(o), c \in Guesses(o)}

ExecPrecondition(trace) ==
  [i \in DOMAIN trace |-> <<trace[i].agreed, AttributesHash(trace[i].attributes),
                            trace[i].header, trace[i].claimed>>]

Journal(precondition, l1, agreed, claimed, number, config) ==
  [precondition |-> precondition, l1 |-> l1, agreed |-> agreed, claimed |-> claimed,
   number |-> number, config |-> ConfigHash(config)]

-----------------------------------------------------------------------------
(* validate_precondition: the outputs derived after block n against the proposal's blobs *)

EndOf(p) == p.head + p.count * p.span

\* Mutant: the outputs are counted from one.
FieldMatchesFromOne(p, k, o) ==
  LET b == (k + 1) \div FieldsPerBlob IN
  /\ b + 1 \in DOMAIN p.blobs
  /\ p.blobs[b + 1][((k + 1) % FieldsPerBlob) + 1] = HashToFe(o)

FieldMatches(p, k, o) ==
  LET b == k \div FieldsPerBlob IN
  /\ b + 1 \in DOMAIN p.blobs
  /\ p.blobs[b + 1][(k % FieldsPerBlob) + 1] = HashToFe(o)

\* Mutant: only the first element after the outputs is looked at.
TrailStartsWithZero(p, k) ==
  LET b == k \div FieldsPerBlob IN
  p.count > 1 => b = Len(p.blobs) - 1 /\ p.blobs[b + 1][(k % FieldsPerBlob) + 1] = 0

TrailIsZero(p, k) ==
  LET b == k \div FieldsPerBlob IN
  p.count > 1 => /\ b = Len(p.blobs) - 1
                 /\ \A f \in (k % FieldsPerBlob)..(FieldsPerBlob - 1) : p.blobs[b + 1][f + 1] = 0

ValidatePrecondition(p, n, roots) ==
  /\ p.head <= n /\ n <= EndOf(p)
  /\ \A i \in DOMAIN roots :
       LET offset == n + i - p.head
           k == offset \div p.span - 1 IN
       /\ n + i <= EndOf(p)
       /\ offset % p.span = 0 => IF k < p.count - 1 THEN FieldMatches(p, k, roots[i])
                                                    ELSE TrailIsZero(p, k)

-----------------------------------------------------------------------------
(* The run *)

Idle == [pc |-> "idle"]
Count == run.boot.number - run.boot.agreed.n       \* expected_output_count
Panic == run' = Idle
Go(pc) == run' = [run EXCEPT !.pc = pc]

ClientInit ==
  /\ host \in Hosts
  /\ proven = {}
  /\ run = Idle

\* BootInfo::load and the prologue of run_core_client.
Boot(b) ==
  /\ run = Idle /\ Cardinality(proven) < host.proofs
  /\ IF b.number < b.agreed.n
       THEN Panic
       ELSE run' = [pc |-> IF b.l1 = NoHead THEN "execute" ELSE "load", boot |-> b,
                    latest |-> b.agreed, roots |-> <<>>, cache |-> <<>>,
                    precondition |-> NoProposal, journal |-> Idle]
  /\ UNCHANGED <<host, proven>>

\* The executor's header and result, and the output root that follows from them.
SameOutcome(e, o) == e.header = o /\ e.result = o /\ e.claimed = o

\* Execution only: each block of the trace is executed again.
Execute(e) ==
  /\ run.pc = "execute" /\ Len(run.cache) < Count
  /\ IF /\ e.agreed = run.latest
        /\ AttributesHash(e.attributes) # Unsafe
        /\ SameOutcome(e, Build(run.latest, e.attributes))
       THEN run' = [run EXCEPT !.cache = Append(@, e), !.latest = e.header]
       ELSE Panic
  /\ UNCHANGED <<host, proven>>

Executed ==
  /\ run.pc = "execute" /\ Len(run.cache) = Count
  /\ IF run.cache = <<>>
       THEN Panic
       ELSE run' = [run EXCEPT !.pc = "claim", !.precondition = ExecPrecondition(run.cache)]
  /\ UNCHANGED <<host, proven>>

\* PreloadedBlobProvider: each blob asked for must be the next one that the host gave.
GetBlobs(asked, blobs) == blobs = asked

\* load_precondition_data
LoadPrecondition(blobs) ==
  /\ run.pc = "load"
  /\ IF host.proposal = NoProposal \/ GetBlobs(host.proposal.blobs, blobs)
       THEN run' = [run EXCEPT !.pc = "derive", !.precondition = host.proposal]
       ELSE Panic
  /\ UNCHANGED <<host, proven>>

CanDerive == run.pc = "derive" /\ Len(run.roots) < Count /\ run.latest.n < run.boot.l1

\* The next block is derived, and executed.
Derive ==
  /\ CanDerive
  /\ LET o == Build(run.latest, Derived(run.boot.config)) IN
     run' = [run EXCEPT !.latest = o, !.roots = Append(@, o)]
  /\ UNCHANGED <<host, proven>>

\* The next block is derived, and its execution taken from the cache.
DeriveCached(e) ==
  /\ CanDerive /\ host.caching
  /\ e.agreed = run.latest /\ e.attributes = Derived(run.boot.config)
  /\ run' = [run EXCEPT !.latest = e.header, !.roots = Append(@, e.header),
                        !.cache = Append(@, e)]
  /\ UNCHANGED <<host, proven>>

\* The end of derivation, at the claimed block or where the L1 data ends.
Epilogue ==
  /\ run.pc = "derive" /\ (Len(run.roots) = Count \/ run.latest.n >= run.boot.l1)
  /\ IF \/ run.precondition = NoProposal
        \/ ValidatePrecondition(run.precondition, run.boot.agreed.n, run.roots)
       THEN Go("claim")
       ELSE Panic
  /\ UNCHANGED <<host, proven>>

\* The claimed root must be the computed one, or zero when there is none.
Claim(claimed) ==
  /\ run.pc = "claim"
  /\ IF /\ claimed = (IF run.latest.n = run.boot.number THEN run.latest ELSE Zero)
        /\ ConfigHash(run.boot.config) # Unsafe
       THEN run' = [run EXCEPT !.pc = "traces",
                      !.journal = Journal(run.precondition, run.boot.l1, run.boot.agreed,
                                          claimed, run.boot.number, run.boot.config)]
       ELSE Panic
  /\ UNCHANGED <<host, proven>>

\* The run was given a receipt, or assumes one, of exactly this journal.
IsProven(j) == j \in proven

\* A trace is what an execution-only run has proven.
TraceIsProven(trace) ==
  /\ \A i \in DOMAIN trace : trace[i].result = trace[i].header
  /\ \A i \in DOMAIN trace : AttributesHash(trace[i].attributes) # Unsafe
  /\ IsProven(Journal(ExecPrecondition(trace), NoHead, trace[1].agreed, Last(trace).claimed,
                      Last(trace).header.n, run.boot.config))

\* The executions given, in one or two traces.
Splits(s) == (IF s = <<>> THEN {<<>>} ELSE {<<s>>})
             \cup {<<SubSeq(s, 1, i), SubSeq(s, i + 1, Len(s))>> : i \in 1..(Len(s) - 1)}

StitchExecutions(traces) ==
  /\ run.pc = "traces"
  /\ IF IF run.boot.l1 = NoHead THEN Len(traces) = 1
                                ELSE \A i \in DOMAIN traces : TraceIsProven(traces[i])
       THEN Go("boots")
       ELSE Panic
  /\ UNCHANGED <<host, proven>>

\* Boot data b has the head of journal j, makes progress, and was proven with the same
\* precondition and configuration.
Stitchable(j, b) ==
  /\ b.l1 = j.l1 /\ b.agreed # b.claimed
  /\ IsProven([j EXCEPT !.l1 = b.l1, !.agreed = b.agreed, !.claimed = b.claimed,
                        !.number = b.number])

StitchBoot(b) ==
  /\ run.pc = "boots"
  /\ LET j == run.journal IN
     IF Stitchable(j, b)
       THEN CASE b.claimed = j.agreed -> run' = [run EXCEPT !.journal.agreed = b.agreed]
              [] b.claimed # j.agreed /\ b.agreed = j.claimed ->
                   run' = [run EXCEPT !.journal.claimed = b.claimed, !.journal.number = b.number]
              [] OTHER -> Panic
       ELSE Panic
  /\ UNCHANGED <<host, proven>>

\* The guest's main: the journal is committed unless it claims insufficient data.
Commit ==
  /\ run.pc = "boots"
  /\ proven' = IF run.journal.claimed = Zero THEN proven ELSE proven \cup {run.journal}
  /\ run' = Idle
  /\ UNCHANGED host

\* Boot data that nobody has proven.
Invented == [l1 |-> run.boot.l1, agreed |-> run.journal.claimed,
             claimed |-> Root(run.boot.number + 1, "mix"), number |-> run.boot.number + 1]

ClientNext ==
  \/ \E b \in host.boots : Boot(b)
  \/ run.pc = "execute" /\ \E a \in host.attributes : \E e \in Executions(run.latest, a) : Execute(e)
  \/ Executed
  \/ \E good \in BOOLEAN :
       LoadPrecondition(IF good /\ host.proposal # NoProposal THEN host.proposal.blobs ELSE <<>>)
  \/ Derive
  \/ run.pc = "derive" /\ \E e \in Executions(run.latest, Derived(run.boot.config)) : DeriveCached(e)
  \/ Epilogue
  \/ run.pc = "claim" /\ \E o \in {run.latest, run.boot.agreed, Zero} : Claim(o)
  \/ run.pc = "traces" /\ \E traces \in Splits(run.cache) : StitchExecutions(traces)
  \/ run.pc = "boots" /\ \E b \in proven \cup {Invented} : StitchBoot(b)
  \/ Commit

ClientSpec == ClientInit /\ [][ClientNext]_clientVars

-----------------------------------------------------------------------------
(* PROPERTIES *)

\* The chain of configuration c from output root o, k blocks later.
ChainFrom(o, c, k) ==
  LET a == Derived(c) IN
  IF k = 0 THEN o ELSE Root(o.n + k, IF o.n = 0 \/ o.tag = a THEN a ELSE "mix")

\* A journal with an L1 head, however many executions were taken from traces and however
\* many proofs were stitched to it in whichever order, claims the output that derivation
\* from the agreed output under the committed configuration gives at the claimed block, and
\* no block past what the L1 head derives (run_core_client, stitch_executions,
\* stitch_boot_info, the assertion of the guest's main).
ProvenOutputsAreDerived ==
  \A j \in proven : j.l1 # NoHead =>
    /\ j.number = j.claimed.n
    /\ \A c \in {Absent, Sentinel, Given} : ConfigHash(c) = j.config =>
         j.claimed = ChainFrom(j.agreed, c, j.number - j.agreed.n)
    /\ j.claimed # j.agreed => j.number <= j.l1

\* The i-th intermediate output of a proposal, counted over all its blobs.
FieldOf(p, i) == FlattenSeq(p.blobs)[i]
NumFields(p) == Len(p.blobs) * FieldsPerBlob

\* A journal that commits to a proposal shows that each of the proposal's intermediate
\* outputs between the agreed and the claimed block is the derived one, in whichever blob
\* it lies, and, if the proposal's last block is among them, that nothing follows the
\* intermediate outputs (validate_precondition over all the stitched parts).
ProvenPreconditionsHold ==
  \A j \in proven : (j.l1 # NoHead /\ j.precondition # NoProposal) =>
    LET p == j.precondition
        covered(b) == j.agreed.n < b /\ b <= j.number IN
    /\ p.head <= j.agreed.n /\ j.number <= EndOf(p)
    /\ \A i \in 1..(p.count - 1) : covered(p.head + i * p.span) =>
         /\ i <= NumFields(p)
         /\ \E c \in {Absent, Given} :
              /\ ConfigHash(c) = j.config
              /\ FieldOf(p, i) = HashToFe(ChainFrom(j.agreed, c, p.head + i * p.span - j.agreed.n))
    /\ (covered(EndOf(p)) /\ p.count > 1) =>
         \A i \in p.count..NumFields(p) : FieldOf(p, i) = 0

\* The blobs that the tournament asks of a proposal (PROPOSAL_BLOBS), with the outputs of
\* the chain and zeros after them.
WellFormed(p, o, c) ==
  /\ Len(p.blobs) = (p.count + FieldsPerBlob - 2) \div FieldsPerBlob
  /\ \A i \in 1..NumFields(p) :
       FieldOf(p, i) = IF i < p.count THEN HashToFe(ChainFrom(o, c, p.head + i * p.span - o.n))
                                      ELSE 0

\* The intermediate outputs of a proposal end where its last blob does.
Filled(p) == p.count > 1 /\ (p.count - 1) % FieldsPerBlob = 0

\* A run has derived all its blocks, within a proposal that is right in every output.
RightRun ==
  LET p == run.precondition
      b == run.boot IN
  /\ run.pc = "derive" /\ Len(run.roots) = Count /\ p # NoProposal
  /\ run.cache = <<>> /\ b.agreed \in {Genesis, ChainFrom(Genesis, b.config, b.agreed.n)}
  /\ p.head <= b.agreed.n /\ b.number <= EndOf(p)
  /\ WellFormed(p, Genesis, b.config)

Accepted == ValidatePrecondition(run.precondition, run.boot.agreed.n, run.roots)

\* A right proposal is accepted by validate_precondition in every run that starts and ends
\* within it, wherever its outputs lie in the blobs, if the run ends before the proposal does
\* or the outputs leave room in the last blob.
WellFormedIsProvable ==
  RightRun /\ (Filled(run.precondition) => run.boot.number < EndOf(run.precondition)) => Accepted

\* What the book promises for every deployment, the one it recommends included, whose outputs
\* fill the blobs: validate_precondition accepts each run over a right proposal.
RightProposalIsProvable == RightRun => Accepted

-----------------------------------------------------------------------------
(***************************************************************************)
(* The inductive invariant behind ProvenOutputsAreDerived: see GuestProofs. *)
(***************************************************************************)

OutputRoots == [n : Int, tag : Tags \cup {"genesis", "zero"}]
ExecutionRecords ==
  [agreed : OutputRoots, attributes : Attributes, header : OutputRoots, result : OutputRoots,
   claimed : OutputRoots]

IsJournal(j) ==
  j = [precondition |-> j.precondition, l1 |-> j.l1, agreed |-> j.agreed, claimed |-> j.claimed,
       number |-> j.number, config |-> j.config]

\* What a trace commits to: blocks built from attributes that the hash tells apart.
IsReplayed(precondition) ==
  \A i \in DOMAIN precondition : \E a \in Attributes :
    LET o == precondition[i][1] IN
    /\ AttributesHash(a) # Unsafe
    /\ precondition[i] = <<o, AttributesHash(a), Build(o, a), Build(o, a)>>

\* What a journal with an L1 head must say.
IsDerived(j) ==
  /\ j.agreed \in AgreedRoots /\ j.claimed \in AgreedRoots /\ j.agreed.n <= j.claimed.n
  /\ j.number = j.claimed.n
  /\ \A c \in Attributes : ConfigHash(c) = j.config =>
       j.claimed = ChainFrom(j.agreed, c, j.number - j.agreed.n)
  /\ j.claimed # j.agreed => j.number <= j.l1

IsGood(j) == IF j.l1 = NoHead THEN IsReplayed(j.precondition) ELSE IsDerived(j)

\* The cached executions of run r are as if r had executed them.
Trusted(r) ==
  \A i \in DOMAIN r.cache : r.cache[i].header = Build(r.cache[i].agreed, r.cache[i].attributes)

RunTypes(r) ==
  /\ r = [pc |-> r.pc, boot |-> r.boot, latest |-> r.latest, roots |-> r.roots,
          cache |-> r.cache, precondition |-> r.precondition, journal |-> r.journal]
  /\ r.pc \in {"execute", "load", "derive", "claim", "traces", "boots"}
  /\ r.boot \in BootRecords /\ r.boot.agreed.n <= r.boot.number
  /\ r.latest \in OutputRoots /\ r.roots \in Seq(OutputRoots)
  /\ r.cache \in Seq(ExecutionRecords)

\* A run that executes a trace.
Executing(r) ==
  /\ r.pc \notin {"load", "derive"}
  /\ IF r.pc = "execute"
     THEN \A i \in DOMAIN r.cache :
            LET e == r.cache[i] IN
            /\ AttributesHash(e.attributes) # Unsafe
            /\ e.header = Build(e.agreed, e.attributes) /\ e.claimed = e.header
     ELSE IsReplayed(r.precondition)

\* A run that derives: where it is, if what it took from the cache can be relied on.
Deriving(r) ==
  /\ r.pc # "execute"
  /\ r.latest.n = r.boot.agreed.n + Len(r.roots)
  /\ r.roots # <<>> => r.latest.n <= r.boot.l1
  /\ Trusted(r) => r.latest = ChainFrom(r.boot.agreed, r.boot.config, Len(r.roots))

\* The journal of a run, before and after the cached executions were shown to be proven.
Claiming(r) ==
  LET j == r.journal IN
  r.pc \in {"traces", "boots"} =>
    /\ IsJournal(j) /\ j.l1 = r.boot.l1
    /\ j.l1 = NoHead => j.precondition = r.precondition
    /\ j.claimed = Zero \/ (r.pc = "traces" /\ ~Trusted(r)) \/ IsGood(j)

IsRun(r) ==
  /\ RunTypes(r) /\ Claiming(r)
  /\ IF r.boot.l1 = NoHead THEN Executing(r) ELSE Deriving(r)

ClientInv ==
  /\ host \in Hosts
  /\ \A j \in proven : IsJournal(j) /\ IsGood(j)
  /\ run = Idle \/ IsRun(run)

-----------------------------------------------------------------------------
(***************************************************************************)
(* The inductive invariant behind ProvenPreconditionsHold: see GuestProofs. *)
(***************************************************************************)

\* What validate_precondition shows of proposal p for the blocks after o up to block n.
Validated(p, o, c, n) ==
  /\ p.head <= o.n /\ n <= EndOf(p)
  /\ \A i \in 1..(p.count - 1) :
       o.n < p.head + i * p.span /\ p.head + i * p.span <= n
       => FieldMatches(p, i - 1, ChainFrom(o, c, p.head + i * p.span - o.n))
  /\ o.n < EndOf(p) /\ EndOf(p) <= n => TrailIsZero(p, p.count - 1)

IsValidated(j) ==
  (j.l1 # NoHead /\ j.precondition # NoProposal) =>
    /\ j.precondition \in ProposalData
    /\ \E c \in {Absent, Given} :
         ConfigHash(c) = j.config /\ Validated(j.precondition, j.agreed, c, j.number)

\* A run that derives: its roots, what it was shown of the proposal, and its journal.
Validating(r) ==
  /\ r.precondition # NoProposal => r.precondition \in ProposalData
  /\ Trusted(r) => \A i \in DOMAIN r.roots :
                     r.roots[i] = ChainFrom(r.boot.agreed, r.boot.config, i)
  /\ r.pc = "claim" /\ r.precondition # NoProposal =>
       ValidatePrecondition(r.precondition, r.boot.agreed.n, r.roots)
  /\ r.pc \in {"traces", "boots"} =>
       r.journal.claimed = Zero \/ (r.pc = "traces" /\ ~Trusted(r)) \/ IsValidated(r.journal)

PreconditionInv ==
  /\ \A j \in proven : IsValidated(j)
  /\ run # Idle /\ run.boot.l1 # NoHead => Validating(run)
=============================================================================
