----------------------------- MODULE MCProving -----------------------------
(***************************************************************************)
(* Instances of the prover for TLC: one proving request with its jobs, or  *)
(* the calls to a proving service that its workers make.  A behaviour is   *)
(* one of the prover or one of the services.                               *)
(***************************************************************************)
EXTENDS Prover, ProofServices

CONSTANTS call1, call2, r1, r2

\* A request of the blocks that ex (the witness of their execution) and de (of their
\* derivation) describe.
Asked(d, e, w, ex, de, t) ==
  [lo |-> 0, preflights |-> e, hi |-> Len(ex), maxDerivations |-> d, maxExecutions |-> e, maxWitness |-> w,
   skipAwait |-> FALSE, skipDerivation |-> FALSE, execution |-> ex, derivation |-> de,
   troubles |-> t]

Skipping(r, await, derivation) ==
  [r EXCEPT !.skipAwait = await, !.skipDerivation = derivation]

Uneven(d, e, w) == Asked(d, e, w, <<1, 3, 1>>, <<1, 0, 1>>, 1)

MCRequests ==
  { Uneven(3, 2, 3),                                      \* executions split to single blocks
    Asked(2, 3, 5, <<1, 1, 1>>, <<1, 1, 1>>, 1),          \* several jobs, stitched
    Asked(4, 3, 2, <<1, 1, 1, 1>>, <<1, 1, 2, 1>>, 1),    \* jobs split by their derivation
    Asked(4, 0, 2, <<1, 1, 1, 1>>, <<1, 1, 2, 1>>, 1),    \* no execution-only proofs
    Asked(3, 2, 1, <<1, 1, 1>>, <<1, 1, 2>>, 1),          \* a block that does not fit
    Asked(2, 1, 2, <<1, 1>>, <<1, 1>>, 2),                \* two troubles
    Skipping(Uneven(2, 3, 2), TRUE, FALSE),
    Skipping(Asked(4, 4, 2, <<1, 3, 1, 1>>, <<1, 0, 1, 0>>, 1), FALSE, TRUE),
    Skipping(Uneven(3, 2, 1), TRUE, TRUE) }

\* The second nonce of r1 is the first of r2.
MCChain == (r1 :> <<1, 2, 3, 4, 5, 6>>) @@ (r2 :> <<2, 7, 8, 9, 10, 11>>)

Using(kind, lookBack, skipAwait, snark, wanted) ==
  [kind |-> kind, lookBack |-> lookBack, skipAwait |-> skipAwait, snark |-> snark,
   wants |-> (call1 :> r1) @@ (call2 :> wanted), faults |-> 2]

MCServices ==
  {Using("boundless", l, s, TRUE, w) : l \in BOOLEAN, s \in BOOLEAN, w \in {r1, r2}}
  \cup {Using(k, FALSE, s, n, r2) : k \in {"bonsai", "zkvm"}, s \in BOOLEAN, n \in BOOLEAN}

AnyRequest == CHOOSE r \in Requests : TRUE
AnyService == CHOOSE s \in Services : TRUE

ProverOff ==
  /\ request = AnyRequest /\ pc = "off" /\ pending = <<>> /\ jobs = {} /\ channel = <<>>
  /\ busy = {} /\ inbox = {} /\ results = {} /\ need = 0 /\ proofs = {}
  /\ files = {} /\ partial = {} /\ errors = {} /\ crashes = 0

ServicesOff ==
  /\ service = AnyService /\ calls = [c \in Calls |-> [Fresh EXCEPT !.at = "off"]]
  /\ orders = {} /\ reqLock = NoCall /\ permits = Permits /\ cycles = {} /\ faults = 0

ProvingVars == <<proverVars, serviceVars>>

ProvingInit == (ProverInit /\ ServicesOff) \/ (ServicesInit /\ ProverOff)

ServicesOn == \E c \in Calls : calls[c].at # "off"

ProvingNext ==
  \/ ServicesOn /\ ServicesNext /\ UNCHANGED proverVars
  \/ ProverNext /\ UNCHANGED serviceVars

\* The prover goes on as long as it can, and so does every call; the services serve what is
\* open.  Failures and restarts are not fair.
ProvingFairness ==
  /\ WF_proverVars(pc # "off" /\ ProverStep)
  /\ \A c \in Calls : WF_serviceVars(ServicesOn /\ CallStep(c))
  /\ WF_serviceVars(ServicesOn /\ Serve)

ProvingSpec == ProvingInit /\ [][ProvingNext]_ProvingVars /\ ProvingFairness

\* The prover ends, after every restart: no result is waited for that will not come, and
\* splitting comes to an end.
ProverEnds == pc # "off" => ProveEnds

\* Every call of seek_proof ends, except one whose Bonsai session succeeded without a usable
\* receipt, and except when such calls hold all the permits: on every other path the lock
\* and the permits come back, failed sessions are replaced, and expired orders made again.
CallsEnd == ServicesOn => EveryCallEnds
=============================================================================
