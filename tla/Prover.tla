------------------------------ MODULE Prover ------------------------------
(***************************************************************************)
(* One proving request: prove() cuts the blocks lo+1..hi into jobs, runs   *)
(* compute_fpvm_proof for each of them, splits a job that is too large and *)
(* stitches the proofs that come back.  A job first tries a complete       *)
(* proof; where that is too large it checks that derivation alone fits,    *)
(* proves the executions in parts and then the derivation that uses them.  *)
(* All tasks share a channel and a pool of workers.  Proofs are files,     *)
(* named by what they prove, that outlive the process.                     *)
(*                                                                         *)
(* A range <<l, h>> stands for the blocks l+1..h, and names its job.       *)
(***************************************************************************)
EXTENDS Integers, Sequences, SequencesExt, FiniteSets, FiniteSetsExt

CONSTANTS
  Requests,     \* the requests considered: lo and hi; preflights, maxDerivations,
                \* maxExecutions and maxWitness; skipAwait and skipDerivation; the witness that the execution
                \* and the derivation of each block need; troubles, a bound on the failures
                \* of the proving service and the restarts together
  Workers       \* num_concurrent_proofs

ASSUME ProverAssumption ==
  /\ Workers \in Nat \ {0}
  /\ \A r \in Requests :
       /\ r.lo \in Nat /\ r.hi \in Nat /\ r.lo < r.hi
       /\ r.maxDerivations \in Nat \ {0} /\ r.maxExecutions \in Nat /\ r.preflights \in Nat
       /\ r.skipAwait \in BOOLEAN /\ r.skipDerivation \in BOOLEAN
       /\ \A b \in (r.lo + 1)..r.hi : r.derivation[b] \in Nat

VARIABLES
  request,
  pc,           \* of prove()
  pending,      \* prover_channel
  jobs,         \* the calls of compute_fpvm_proof that run
  channel,      \* task_channel
  busy,         \* the tasks with the workers
  inbox,        \* results on their way to the jobs
  results,      \* result_channel
  need,         \* num_proofs
  proofs,       \* result_pq: the ranges proven
  files,        \* the proof files that are complete
  partial,      \* the proof files that are being written, or never were to the end
  errors,       \* the failures so far
  crashes

loopVars == <<pc, pending, results, need, proofs>>
taskVars == <<jobs, channel, busy, inbox>>
diskVars == <<files, partial>>
proverVars == <<request, loopVars, taskVars, diskVars, errors, crashes>>

Blocks(r) == r[2] - r[1]
Whole == <<request.lo, request.hi>>

\* The range cut into parts of n blocks, the last of which may be shorter.
Chunks(r, n) ==
  [i \in 1..((Blocks(r) + n - 1) \div n) |->
     <<r[1] + (i - 1) * n, IF r[1] + i * n < r[2] THEN r[1] + i * n ELSE r[2]>>]

\* Mutant: the halves share the block in the middle.
OverlappingHalves(r) ==
  LET mid == r[1] + Blocks(r) \div 2 IN <<<<r[1], mid>>, <<mid - 1, r[2]>>>>

Halves(r) ==
  LET mid == r[1] + Blocks(r) \div 2 IN <<<<r[1], mid>>, <<mid, r[2]>>>>

\* The parts that n preflights share: the first ones take one block more.
Preflights(r, n) ==
  LET base == Blocks(r) \div n
      extra == Blocks(r) % n
      upTo(i) == r[1] + i * base + (IF i < extra THEN i ELSE extra)
  IN [i \in 1..(IF base = 0 THEN extra ELSE n) |-> <<upTo(i - 1), upTo(i)>>]

\* The ranges of blocks that lie in r, and those of S of which no two share a block.
Parts(r) == {x \in Nat \X Nat : r[1] <= x[1] /\ x[1] < x[2] /\ x[2] <= r[2]}
Has(x, b) == x[1] < b /\ b <= x[2]
Apart(x, y) == x[2] <= y[1] \/ y[2] <= x[1]
Disjoint(S, r) == S \subseteq Parts(r) /\ \A x, y \in S : x = y \/ Apart(x, y)

\* Sorted by their last blocks, the ranges follow each other from the first block of r to its
\* last: each block is in exactly one of them.
Covers(S, r) == Disjoint(S, r) /\ \A b \in (r[1] + 1)..r[2] : \E x \in S : Has(x, b)

-----------------------------------------------------------------------------
(* Tasks *)

Task(job, kind, range, force, seek, snark) ==
  [job |-> job, kind |-> kind, range |-> range, force |-> force, seek |-> seek,
   snark |-> snark]

Complete(j) == Task(j.range, "complete", j.range, Blocks(j.range) = 0,
                    ~request.skipDerivation, j.snark)
DerivationOnly(j) == Task(j.range, "derivation", j.range, FALSE, FALSE, FALSE)

\* Mutant: one block is not attempted by force.
ExecutionUnforced(j, r) == Task(j.range, "execution", r, FALSE, TRUE, FALSE)

ExecutionOnly(j, r) == Task(j.range, "execution", r, Blocks(r) = 1, TRUE, FALSE)
Combined(j) == Task(j.range, "combined", j.range, TRUE, TRUE, j.snark)

\* The name of a proof file: execution-only proofs have no L1 head, and the proof that
\* stitches the others after the last block is one of the whole request.
Name(t) == [execution |-> t.kind = "execution",
            range |-> IF Blocks(t.range) = 0 THEN Whole ELSE t.range]

Weight(w, r) ==
  LET upTo[b \in r[1]..r[2]] == IF b = r[1] THEN 0 ELSE upTo[b - 1] + w[b] IN upTo[r[2]]

\* Only a complete run executes blocks that its witness does not cache.
WitnessSize(t) ==
  (IF t.kind \in {"complete", "execution"} THEN Weight(request.execution, t.range) ELSE 0)
  + (IF t.kind # "execution" THEN Weight(request.derivation, t.range) ELSE 0)

\* Mutant: the cached executions count too.
NumAllExecutions(t) == Blocks(t.range)

NumExecutions(t) == IF t.kind = "complete" THEN Blocks(t.range) ELSE 0

\* process_witness: why the task is not given to the proving service.
Refusal(t) ==
  CASE WitnessSize(t) > request.maxWitness /\ ~t.force -> "WitnessSizeError"
    [] WitnessSize(t) <= request.maxWitness /\ NumExecutions(t) > request.maxExecutions
       /\ ~t.force -> "BlockCountError"
    [] OTHER -> IF t.seek THEN "none" ELSE "NotSeekingProof"

\* Mutant: a file that exists is taken for a proof.
ReadAny(t) == IF request.skipAwait THEN "NotAwaitingProof" ELSE "Ok"

\* The end of compute_cached_proof: the receipt is read from the file.
Read(t) == IF request.skipAwait THEN "NotAwaitingProof"
           ELSE IF \E f \in files : f.name = Name(t) THEN "Ok" ELSE "OtherError"

Exists(t) == Name(t) \in partial \cup {f.name : f \in files}

\* The worker is free; the result is lost on a job that has returned.
Deliver(w, outcome) ==
  /\ busy' = busy \ {w}
  /\ inbox' = IF \E j \in jobs : j.range = w.task.job
                THEN inbox \cup {[task |-> w.task, outcome |-> outcome]} ELSE inbox
  /\ UNCHANGED <<request, loopVars, jobs, channel, crashes>>

\* handle_oneshot_tasks
Take ==
  /\ channel # <<>> /\ Cardinality(busy) < Workers
  /\ busy' = busy \cup {[task |-> Head(channel), saving |-> FALSE]}
  /\ channel' = Tail(channel)
  /\ UNCHANGED <<request, loopVars, jobs, inbox, diskVars, errors, crashes>>

\* compute_cached_proof: the proof is there already.
UseFile(w) ==
  /\ ~w.saving /\ w.task.seek /\ Exists(w.task)
  /\ Deliver(w, Read(w.task))
  /\ errors' = IF Read(w.task) = "OtherError"
                 THEN errors \cup {[outcome |-> "OtherError", task |-> w.task]} ELSE errors
  /\ UNCHANGED diskVars

MustRun(w) == ~w.saving /\ ~(w.task.seek /\ Exists(w.task))

\* The client ran, and its witness is not worth a proof.
Refuse(w) ==
  /\ MustRun(w) /\ Refusal(w.task) # "none"
  /\ Deliver(w, Refusal(w.task))
  /\ UNCHANGED <<diskVars, errors>>

\* The service gets the request and nobody waits for the proof.
Leave(w) ==
  /\ MustRun(w) /\ Refusal(w.task) = "none" /\ request.skipAwait
  /\ Deliver(w, "NotAwaitingProof")
  /\ UNCHANGED <<diskVars, errors>>

\* The client fails before its witness is complete, or the service fails.
Fail(w, outcome) ==
  /\ MustRun(w) /\ (Refusal(w.task) = "none" \/ outcome = "OtherError")
  /\ Cardinality(errors) + crashes < request.troubles
  /\ errors' = errors \cup {[outcome |-> outcome, task |-> w.task]}
  /\ Deliver(w, outcome)
  /\ UNCHANGED diskVars

\* The service returns the proof: its file is created, then written.
Create(w) ==
  /\ MustRun(w) /\ Refusal(w.task) = "none" /\ ~request.skipAwait
  /\ files' = {f \in files : f.name # Name(w.task)}
  /\ partial' = partial \cup {Name(w.task)}
  /\ busy' = (busy \ {w}) \cup {[w EXCEPT !.saving = TRUE]}
  /\ UNCHANGED <<request, loopVars, jobs, channel, inbox, errors, crashes>>

Write(w) ==
  /\ w.saving
  /\ files' = files \cup {[name |-> Name(w.task), snark |-> w.task.snark]}
  /\ partial' = partial \ {Name(w.task)}
  /\ Deliver(w, "Ok")
  /\ UNCHANGED errors

Work == \E w \in busy : UseFile(w) \/ Refuse(w) \/ Leave(w) \/ Create(w) \/ Write(w)
Failure == \E w \in busy : Fail(w, "ExecutionError") \/ Fail(w, "OtherError")

-----------------------------------------------------------------------------
(* compute_fpvm_proof *)

NewJob(r, snark) == [range |-> r, snark |-> snark, pc |-> "complete", need |-> 0, done |-> {}]

Update(j, k) == jobs' = (jobs \ {j}) \cup {k}

\* Mutant: a job that fails sends no result.
ReturnUnlessFailed(j, outcome) ==
  /\ jobs' = jobs \ {j}
  /\ results' = IF outcome = "OtherError" THEN results
                ELSE results \cup {[range |-> j.range, split |-> ~j.snark, outcome |-> outcome]}
  /\ UNCHANGED <<channel, pc, need>>

\* The job sends its result, whatever it is.
Return(j, outcome) ==
  /\ jobs' = jobs \ {j}
  /\ results' = results \cup {[range |-> j.range, split |-> ~j.snark, outcome |-> outcome]}
  /\ UNCHANGED <<channel, pc, need>>

Unreachable ==
  /\ pc' = "panic"
  /\ UNCHANGED <<jobs, results, channel, need>>

\* The executed blocks are proven in parts.
StartExecutions(j) ==
  LET parts == Chunks(j.range, request.maxExecutions) IN
  IF Blocks(j.range) = 0
    THEN Unreachable
    ELSE /\ Update(j, [j EXCEPT !.pc = "executions", !.need = Len(parts)])
         /\ channel' = channel \o [i \in DOMAIN parts |-> ExecutionOnly(j, parts[i])]
         /\ UNCHANGED <<results, pc, need>>

\* A complete proof was tried.
AfterComplete(j, outcome) ==
  IF outcome \notin {"BlockCountError", "WitnessSizeError", "NotSeekingProof"}
    THEN Return(j, outcome)
  ELSE IF request.maxExecutions = 0
    THEN Return(j, "OtherError")
  ELSE IF request.skipDerivation
    THEN StartExecutions(j)
  ELSE /\ Update(j, [j EXCEPT !.pc = "derivation"])
       /\ channel' = Append(channel, DerivationOnly(j))
       /\ UNCHANGED <<results, pc, need>>

AfterDerivation(j, outcome) ==
  IF outcome = "NotSeekingProof" THEN StartExecutions(j) ELSE Return(j, outcome)

\* All the parts are in: the derivation proof stitches them.
Combine(j, k) ==
  CASE request.skipAwait -> Return(j, "NotAwaitingProof")
    [] ~request.skipAwait /\ request.skipDerivation -> Return(j, "DerivationProofError")
    [] OTHER -> /\ Update(j, [k EXCEPT !.pc = "combined"])
                /\ channel' = Append(channel, Combined(j))
                /\ UNCHANGED <<results, pc, need>>

Advance(j, k) ==
  IF Cardinality(k.done) < k.need THEN Update(j, k) /\ UNCHANGED <<results, pc, need, channel>>
                                  ELSE Combine(j, k)

SplitExecution(j, r) ==
  /\ Update(j, [j EXCEPT !.need = @ + 1])
  /\ channel' = channel \o <<ExecutionOnly(j, Halves(r)[1]), ExecutionOnly(j, Halves(r)[2])>>
  /\ UNCHANGED <<results, pc, need>>

\* One part has a result; a part that failed is split unless it is one block.
AfterExecution(j, r, outcome) ==
  CASE outcome = "Ok" -> Advance(j, [j EXCEPT !.done = @ \cup {r}])
    [] outcome = "NotAwaitingProof" -> Advance(j, [j EXCEPT !.need = @ - 1])
    [] outcome \in {"WitnessSizeError", "ExecutionError"} /\ Blocks(r) > 1 -> SplitExecution(j, r)
    [] outcome \in {"WitnessSizeError", "ExecutionError"} /\ Blocks(r) = 1 -> Return(j, outcome)
    [] outcome = "OtherError" -> Return(j, outcome)
    [] OTHER -> Unreachable

JobStep(m) ==
  /\ inbox' = inbox \ {m}
  /\ \E j \in jobs :
       /\ j.range = m.task.job
       /\ CASE j.pc = "complete" -> AfterComplete(j, m.outcome)
            [] j.pc = "derivation" -> AfterDerivation(j, m.outcome)
            [] j.pc = "executions" -> AfterExecution(j, m.task.range, m.outcome)
            [] j.pc = "combined" -> Return(j, m.outcome)
  /\ UNCHANGED <<request, pending, proofs, busy, diskVars, errors, crashes>>

-----------------------------------------------------------------------------
(* prove *)

Running == pc \in {"wait", "stitch"}

ProverInit ==
  /\ request \in Requests
  /\ pc = "start" /\ pending = <<>> /\ jobs = {} /\ channel = <<>> /\ busy = {}
  /\ inbox = {} /\ results = {} /\ need = 0 /\ proofs = {}
  /\ files = {} /\ partial = {} /\ errors = {} /\ crashes = 0

\* The preflights run, and their errors are ignored.
Preflight ==
  /\ pc = "start"
  /\ pc' = "cut"
  /\ UNCHANGED <<request, pending, results, need, proofs, taskVars, diskVars, errors, crashes>>

\* The data of the precondition, or an output to cut the preflights by, cannot be fetched.
PreflightFails ==
  /\ pc = "start"
  /\ Cardinality(errors) + crashes < request.troubles
  /\ errors' = errors \cup {[outcome |-> "OtherError", task |-> <<>>]}
  /\ pc' = "failed"
  /\ UNCHANGED <<request, pending, results, need, proofs, taskVars, diskVars, crashes>>

\* The request is cut into jobs, until the claimed output is reached.  The claim is taken to
\* be the op-node's output at the claimed block, as in every request of the validator: the
\* loop compares output roots, and would queue empty jobs for ever at the end of any other.
Start ==
  /\ pc = "cut"
  /\ LET parts == Chunks(Whole, request.maxDerivations) IN
     /\ pending' = [i \in DOMAIN parts |-> [range |-> parts[i], split |-> FALSE]]
     /\ need' = Len(parts)
  /\ pc' = "wait"
  /\ UNCHANGED <<request, results, proofs, taskVars, diskVars, errors, crashes>>

Spawn(j) == jobs' = jobs \cup {j} /\ channel' = Append(channel, Complete(j))

Dispatch ==
  /\ pc = "wait" /\ pending # <<>>
  /\ Spawn(NewJob(Head(pending).range, ~Head(pending).split))
  /\ pending' = Tail(pending)
  /\ UNCHANGED <<request, pc, results, need, proofs, busy, inbox, diskVars, errors, crashes>>

\* A job has returned; one that was too large is split unless it is one block.
Receive(m) ==
  /\ pc = "wait" /\ pending = <<>> /\ Cardinality(proofs) < need
  /\ results' = results \ {m}
  /\ LET big == m.outcome \in {"WitnessSizeError", "ExecutionError"} IN
     /\ proofs' = IF m.outcome = "Ok" THEN proofs \cup {m.range} ELSE proofs
     /\ pending' = IF big /\ Blocks(m.range) # 1
                     THEN [i \in 1..2 |-> [range |-> Halves(m.range)[i], split |-> TRUE]]
                     ELSE <<>>
     /\ need' = CASE big /\ Blocks(m.range) # 1 -> need + 1
                  [] m.outcome \in {"DerivationProofError", "NotAwaitingProof"} -> need - 1
                  [] OTHER -> need
     /\ pc' = CASE big /\ Blocks(m.range) = 1 -> "failed"
                [] m.outcome = "OtherError" -> "failed"
                [] m.outcome \in {"BlockCountError", "NotSeekingProof"} -> "panic"
                [] OTHER -> pc
  /\ UNCHANGED <<request, taskVars, diskVars, errors, crashes>>

\* Nothing is missing: several proofs are stitched, from the last block backward, by a job
\* that derives no block; the boots that are not contiguous panic.
Stitch ==
  /\ pc = "wait" /\ Cardinality(proofs) = need
  /\ IF request.skipAwait \/ request.skipDerivation \/ Cardinality(proofs) <= 1
       THEN pc' = "done" /\ UNCHANGED <<jobs, channel>>
     ELSE IF Covers(proofs, Whole)
       THEN pc' = "stitch" /\ Spawn(NewJob(<<request.hi, request.hi>>, TRUE))
     ELSE pc' = "panic" /\ UNCHANGED <<jobs, channel>>
  /\ UNCHANGED <<request, pending, results, need, proofs, busy, inbox, diskVars, errors, crashes>>

Stitched(m) ==
  /\ pc = "stitch"
  /\ results' = results \ {m}
  /\ pc' = IF m.outcome = "Ok" THEN "done" ELSE "failed"
  /\ UNCHANGED <<request, pending, need, proofs, taskVars, diskVars, errors, crashes>>

\* The process ends before its work is done and the same request is made again.
Restart ==
  /\ pc \in {"wait", "stitch", "failed"} /\ Cardinality(errors) + crashes < request.troubles
  /\ crashes' = crashes + 1
  /\ pc' = "start" /\ pending' = <<>> /\ jobs' = {} /\ channel' = <<>> /\ busy' = {}
  /\ inbox' = {} /\ results' = {} /\ need' = 0 /\ proofs' = {}
  /\ UNCHANGED <<request, diskVars, errors>>

ProverStep ==
  \/ Preflight \/ Start \/ Dispatch \/ Stitch
  \/ Running /\ (Take \/ Work)
  \/ Running /\ \E m \in inbox : JobStep(m)
  \/ \E m \in results : Receive(m) \/ Stitched(m)

ProverNext == ProverStep \/ (Running /\ Failure) \/ PreflightFails \/ Restart

ProverSpec == ProverInit /\ [][ProverNext]_proverVars

-----------------------------------------------------------------------------
(* PROPERTIES *)

\* The parts of job j that are queued, with a worker, or done and not seen by the job.
PartsOf(j) ==
  LET mine(t) == t.job = j.range /\ t.kind = "execution" IN
  {t.range : t \in {u \in Range(channel) \cup {w.task : w \in busy} \cup {m.task : m \in inbox} : mine(u)}}

Outstanding == [i \in DOMAIN pending |-> pending[i].range]

\* However often jobs and their parts are split, and in whichever order the halves come
\* back: num_proofs counts exactly what was proven and what is under way, in prove() and in
\* every job, so neither stops early nor waits for nothing; and the ranges meet end to end,
\* so that the proofs can be stitched, and the executions replayed, in the order of blocks.
\* The preflights before it leave no block out either.
PartsTile ==
  /\ (pc = "cut" /\ request.preflights > 0) =>
       Covers(Range(Preflights(Whole, request.preflights)), Whole)
  /\ pc = "wait" =>
    LET open == Range(Outstanding) \cup {j.range : j \in jobs} \cup {m.range : m \in results} IN
    /\ need = Cardinality(proofs) + Len(pending) + Cardinality(jobs) + Cardinality(results)
    /\ ~(request.skipAwait \/ request.skipDerivation) =>
         Covers(proofs \cup open, Whole) /\ Cardinality(proofs \cup open) = need
    /\ \A j \in jobs : j.pc \in {"executions", "combined"} =>
         /\ j.need = Cardinality(j.done) + Cardinality(PartsOf(j))
         /\ ~request.skipAwait => Covers(j.done \cup PartsOf(j), j.range)

\* The errors that prove() and compute_fpvm_proof hold to be impossible do not reach them,
\* no job has nothing to cut into parts, and the proofs to stitch are contiguous.
NeverPanics == pc # "panic"

\* A prover that ends well has left the proof it was asked for on disk, complete and as a
\* SNARK, or, if it skips the derivation, execution proofs of every block; also after
\* restarts that found files half written.
DoneIsProven ==
  (pc = "done" /\ ~request.skipAwait) =>
    IF request.skipDerivation
      THEN \A b \in (request.lo + 1)..request.hi : \E f \in files :
             f.name.execution /\ f.name.range[1] < b /\ b <= f.name.range[2]
      ELSE [name |-> [execution |-> FALSE, range |-> Whole], snark |-> TRUE] \in files

\* The derivation of every single block fits into a witness.
BlocksFit == \A b \in (request.lo + 1)..request.hi : ~(request.derivation[b] > request.maxWitness)

\* Something other than the size of the work went wrong, or a job of one block met an error,
\* or execution-only proofs are not allowed.
Obstacle ==
  \/ \E e \in errors : e.outcome = "OtherError" \/ Blocks(e.task.job) <= 1
  \/ request.maxExecutions = 0

\* Whatever fits when it is cut to single blocks is proven, however large it is to begin
\* with: the prover then gives up only over what cutting the work smaller does not mend.
FailsForCause == (pc = "failed" /\ BlocksFit) => Obstacle

\* A job of one block is attempted regardless of the size of its witness: it never comes
\* back as too large.  That is what prove() says where it computes force_attempt, and it
\* does not hold: the flag goes to the handling of the result and not to the job.
SingleBlockIsForced ==
  \A m \in results : Blocks(m.range) = 1 => m.outcome # "WitnessSizeError"

\* The prover ends, after every restart: no result is waited for that will not come, and
\* splitting comes to an end.
ProveEnds == []<>(pc \in {"done", "failed"})

-----------------------------------------------------------------------------
(***************************************************************************)
(* The inductive invariant behind the safety properties: see ServiceProofs. *)
(***************************************************************************)

Final == <<request.hi, request.hi>>
JobRecords ==
  [range : Nat \X Nat, snark : BOOLEAN, pc : {"complete", "derivation", "executions", "combined"},
   need : Int, done : SUBSET (Nat \X Nat)]
TaskRecords ==
  [job : Nat \X Nat, kind : {"complete", "derivation", "execution", "combined"},
   range : Nat \X Nat, force : BOOLEAN, seek : BOOLEAN, snark : BOOLEAN]

\* A task is made once and is in one place.
QueueTasks == Range(channel)
BusyTasks == {w.task : w \in busy}
InboxTasks == {m.task : m \in inbox}
Tasks == QueueTasks \cup BusyTasks \cup InboxTasks

PlacedOnce ==
  /\ channel \in Seq(TaskRecords) /\ IsInjective(channel)
  /\ \A v, w \in busy : v.task = w.task => v = w
  /\ \A m, n \in inbox : m.task = n.task => m = n
  /\ QueueTasks \cap BusyTasks = {} /\ QueueTasks \cap InboxTasks = {}
  /\ BusyTasks \cap InboxTasks = {}

\* A task is one of those that compute_fpvm_proof makes for its job.
IsTask(t) ==
  LET j == [range |-> t.job, snark |-> t.snark] IN
  /\ t \in TaskRecords
  /\ \/ t = Complete(j) /\ t.job \in Parts(Whole) /\ (t.snark \/ t.job # Whole)
     \/ t = Complete(j) /\ t.job = Final /\ t.snark /\ pc = "stitch"
     \/ t = DerivationOnly(j) /\ t.job \in Parts(Whole)
     \/ t = ExecutionOnly(j, t.range) /\ t.job \in Parts(Whole) /\ t.range \in Parts(t.job)
     \/ /\ t = Combined(j) /\ t.job \in Parts(Whole) /\ (t.snark \/ t.job # Whole)
        /\ ~request.skipDerivation

IsFile(name) == \E f \in files : f.name = name

\* What a worker may have answered.
IsAnswer(m) ==
  \/ m.outcome = Refusal(m.task) /\ m.outcome # "none"
  \/ m.outcome = "OtherError" /\ [outcome |-> m.outcome, task |-> m.task] \in errors
  \/ /\ m.task.seek
     /\ \/ m.outcome = "Ok" /\ IsFile(Name(m.task))
        \/ m.outcome = "NotAwaitingProof" /\ request.skipAwait
        \/ /\ m.outcome = "ExecutionError"
           /\ [outcome |-> m.outcome, task |-> m.task] \in errors

TasksInv ==
  /\ PlacedOnce
  /\ \A t \in Tasks : IsTask(t)
  /\ \A w \in busy : w = [task |-> w.task, saving |-> w.saving] /\ (w.saving => w.task.seek)
  /\ \A m \in inbox : m = [task |-> m.task, outcome |-> m.outcome] /\ IsAnswer(m)

\* The file of the whole request is a SNARK.
FilesInv ==
  \A f \in files :
    /\ f = [name |-> [execution |-> f.name.execution, range |-> f.name.range], snark |-> f.snark]
    /\ ~f.name.execution /\ f.name.range = Whole => f.snark = TRUE

Proven(r) == IsFile([execution |-> FALSE, range |-> IF r = Final THEN Whole ELSE r])
IsExecuted(r) == IsFile([execution |-> TRUE, range |-> r])
\* Execution proofs have block b.
BlockExecuted(b) == \E f \in files : f.name.execution /\ Has(f.name.range, b)

\* What is left of a job is what its tasks will bring.
Mine(j) == {t \in Tasks : t.job = j.range}
Counted(j) ==
  LET parts == PartsOf(j) IN
  /\ IsFiniteSet(j.done) /\ IsFiniteSet(parts) /\ j.done \cap parts = {}
  /\ j.need = Cardinality(j.done) + Cardinality(parts)
  /\ Disjoint(j.done \cup parts, j.range)
  /\ ~request.skipAwait => Covers(j.done \cup parts, j.range)
  /\ \A r \in j.done : IsExecuted(r)

JobInv(j) ==
  /\ j \in JobRecords /\ (j.snark \/ j.range # Whole)
  /\ j.pc \in {"complete", "derivation"} => j.done = {}
  /\ \/ j.pc = "complete" /\ Mine(j) = {Complete(j)}
     \/ j.pc = "derivation" /\ Mine(j) = {DerivationOnly(j)} /\ request.maxExecutions # 0
     \/ j.pc = "executions" /\ Counted(j) /\ \A t \in Mine(j) : t = ExecutionOnly(j, t.range)
     \/ j.pc = "combined" /\ Counted(j) /\ Mine(j) = {Combined(j)}

\* Why prove() may have given up.
Cause ==
  \/ \E e \in errors : e.outcome = "OtherError" \/ Blocks(e.task.job) <= 1
  \/ request.maxExecutions = 0
  \/ \E b \in (request.lo + 1)..request.hi : request.derivation[b] > request.maxWitness
FailureInv == pc = "failed" => Cause

\* What compute_fpvm_proof may have returned.
ResultInv(m) ==
  /\ m = [range |-> m.range, split |-> m.split, outcome |-> m.outcome]
  /\ \/ m.outcome = "Ok" /\ Proven(m.range) /\ ~request.skipDerivation
     \/ m.outcome = "OtherError" /\ Cause
     \/ m.outcome \in {"WitnessSizeError", "ExecutionError"} /\ (Blocks(m.range) <= 1 => Cause)
     \/ m.outcome = "NotAwaitingProof" /\ request.skipAwait
     \/ /\ m.outcome = "DerivationProofError" /\ request.skipDerivation /\ ~request.skipAwait
        /\ \A b \in (m.range[1] + 1)..m.range[2] : BlockExecuted(b)

\* Every block is with one of prove()'s jobs, before, while or after it runs.
PendingRanges == Range(Outstanding)
JobRanges == {j.range : j \in jobs}
ResultRanges == {m.range : m \in results}
Open == PendingRanges \cup JobRanges \cup ResultRanges

HeldOnce ==
  /\ pending \in Seq([range : Nat \X Nat, split : BOOLEAN])
  /\ IsInjective(Outstanding)
  /\ \A m, n \in results : m.range = n.range => m = n
  /\ PendingRanges \cap JobRanges = {} /\ PendingRanges \cap ResultRanges = {}
  /\ JobRanges \cap ResultRanges = {} /\ Open \cap proofs = {}
  /\ IsFiniteSet(jobs) /\ IsFiniteSet(results) /\ IsFiniteSet(proofs)

\* The tasks of a job that has returned are of no other.
StaleInv ==
  \A t \in Tasks : \A x \in Open :
    (x[1] <= t.job[1] /\ t.job[2] <= x[2]) => x = t.job /\ x \notin PendingRanges

WaitInv ==
  /\ HeldOnce /\ StaleInv
  /\ need = Cardinality(proofs) + Len(pending) + Cardinality(jobs) + Cardinality(results)
  /\ Disjoint(Open \cup proofs, Whole)
  /\ ~(request.skipAwait \/ request.skipDerivation) => Covers(Open \cup proofs, Whole)
  /\ \A i \in DOMAIN pending : pending[i].split => pending[i].range # Whole
  /\ \A r \in proofs : Proven(r)
  /\ request.skipDerivation => proofs = {}
  /\ request.skipDerivation /\ ~request.skipAwait =>
       \A b \in (request.lo + 1)..request.hi : BlockExecuted(b) \/ \E x \in Open : Has(x, b)

\* prove() waits for the job that stitches.
StitchInv ==
  /\ ~request.skipAwait /\ ~request.skipDerivation
  /\ \A j \in jobs : j.range = Final /\ j.pc = "complete"
  /\ \A m \in results : m.range = Final

ProverInv ==
  /\ request \in Requests
  /\ pc \in {"start", "cut", "wait", "stitch", "done", "failed"}
  /\ FilesInv
  /\ pc \in {"start", "cut"} =>
       /\ pending = <<>> /\ jobs = {} /\ channel = <<>> /\ busy = {} /\ inbox = {}
       /\ results = {} /\ need = 0 /\ proofs = {}
  /\ Running => /\ TasksInv
                /\ \A j, k \in jobs : j.range = k.range => j = k
                /\ \A j \in jobs : JobInv(j)
                /\ \A m \in results : ResultInv(m)
  /\ pc = "wait" => WaitInv
  /\ pc = "stitch" => StitchInv
  /\ DoneIsProven /\ FailureInv
=============================================================================
