--------------------------- MODULE ProofServices ---------------------------
(***************************************************************************)
(* How a proof is obtained: seek_proof hands the work to the Boundless     *)
(* market, to Bonsai or to the local zkVM.  Calls run concurrently in one  *)
(* process, and two of them may ask for the same proof; all requests of    *)
(* one wallet share the market's space of 32-bit request ids, in which     *)
(* every set of requirements walks its own chain of nonces.                *)
(*                                                                         *)
(* Uploads and their caches change neither ids nor outcomes and are one    *)
(* step with the execution that measures the cycles.                       *)
(***************************************************************************)
EXTENDS Integers, Sequences, FiniteSets

CONSTANTS
  Calls,        \* the concurrent calls of seek_proof
  Services,     \* the configurations considered: kind, lookBack, skipAwait, snark, wants (the
                \* requirements that each call asks for) and faults (a bound on expiries,
                \* failures and restarts together)
  Chain,        \* next_nonce: the nonces that follow each other for given requirements; its
                \* length is a bound on the orders that a call passes over
  Permits,      \* of SEMAPHORE_R0VM
  NoCall

ASSUME ServicesAssumption ==
  /\ Permits \in Nat \ {0} /\ NoCall \notin Calls
  /\ \A s \in Services : s.kind \in {"boundless", "bonsai", "zkvm"} /\ s.faults \in Nat

\* A nonce is a hash of the requirements and of the nonce before it.
ASSUME ChainAssumption ==
  /\ \A w \in DOMAIN Chain : Chain[w] \in Seq(Nat) /\ Len(Chain[w]) > 0
  /\ \A w \in DOMAIN Chain : \A i, j \in DOMAIN Chain[w] : Chain[w][i] = Chain[w][j] => i = j
  /\ \A s \in Services : s.wants \in [Calls -> DOMAIN Chain]

VARIABLES
  service,
  calls,        \* at: where each call stands; step: of its chain; own: the call that made the
                \* order it waits for; looked: it waits in look_back; session: of Bonsai
  orders,       \* what the market was sent: nonce, requirements, call, and its state
  reqLock,      \* BOUNDLESS_REQ
  permits,      \* the permits of SEMAPHORE_R0VM that are free
  cycles,       \* the requirements whose cycle count is in a file
  faults

serviceVars == <<service, calls, orders, reqLock, permits, cycles, faults>>

Wants(c) == service.wants[c]
Nonce(c) == Chain[Wants(c)][calls[c].step]
At(n) == {o \in orders : o.nonce = n}
IsAt(c, where) == calls[c].at = where
Fresh == [at |-> "start", step |-> 1, own |-> NoCall, looked |-> FALSE, session |-> "none"]

Faulty == faults < service.faults /\ faults' = faults + 1

\* Outcomes of a call.
Ended == {"Ok", "NotAwaitingProof", "ExecutionError", "OtherError"}

Becomes(c, v) == calls' = [calls EXCEPT ![c] = v]
Goes(c, where) == Becomes(c, [calls[c] EXCEPT !.at = where])

\* run_boundless_client: a call that fails otherwise than by the execution starts over.
Again(c) == Becomes(c, Fresh)

-----------------------------------------------------------------------------
(* The Boundless market *)

\* get_status is that of the id: nobody can fulfil it again.
Fulfilled(n) == \E o \in At(n) : o.state \in {"fulfilled", "unusable"}
Expired(o) == o.state = "expired" /\ ~Fulfilled(o.nonce)

\* An id is fulfilled once, whatever was submitted under it.
Fulfil(o, state) ==
  /\ o.state = "open" /\ ~Fulfilled(o.nonce)
  /\ orders' = (orders \ {o}) \cup {[o EXCEPT !.state = state]}
  /\ UNCHANGED <<service, calls, reqLock, permits, cycles>>

Expire(o) ==
  /\ o.state = "open" /\ Faulty
  /\ orders' = (orders \ {o}) \cup {[o EXCEPT !.state = "expired"]}
  /\ UNCHANGED <<service, calls, reqLock, permits, cycles>>

NextNonce(c) ==
  /\ calls[c].step < Len(Chain[Wants(c)])
  /\ Becomes(c, [Fresh EXCEPT !.step = calls[c].step + 1])

\* Mutant: whatever is there is skipped.
PassOver(c) ==
  /\ At(Nonce(c)) # {}
  /\ NextNonce(c)

\* look_back finds an order and skips it, or get_next_fresh_nonce does.  Of several orders
\* under one id any may be returned.
Skip(c) ==
  /\ \E o \in At(Nonce(c)) : ~service.lookBack \/ Expired(o) \/ o.req # Wants(c)
  /\ NextNonce(c)

\* look_back finds an order of the same requirements that has not expired.
FindOrder(c) ==
  \E o \in At(Nonce(c)) :
    /\ service.lookBack /\ ~Expired(o) /\ o.req = Wants(c)
    /\ IF service.skipAwait
         THEN Goes(c, "NotAwaitingProof")
         ELSE Becomes(c, [calls[c] EXCEPT !.at = "await", !.own = o.call, !.looked = TRUE])

FindFresh(c) == At(Nonce(c)) = {} /\ Goes(c, "prepare")

Look(c) ==
  /\ service.kind = "boundless" /\ IsAt(c, "start")
  /\ Skip(c) \/ FindOrder(c) \/ FindFresh(c)
  /\ UNCHANGED <<service, orders, reqLock, permits, cycles, faults>>

\* The program and the input are uploaded, the cycles known.
Prepare(c) ==
  /\ IsAt(c, "prepare") /\ Wants(c) \in cycles
  /\ Goes(c, "submit")
  /\ UNCHANGED <<service, orders, reqLock, permits, cycles, faults>>

\* ... or measured by an execution, which needs a permit and may fail.
OrderPreflight(c) ==
  /\ IsAt(c, "prepare") /\ Wants(c) \notin cycles /\ permits > 0
  /\ permits' = permits - 1
  /\ Goes(c, "preflight")
  /\ UNCHANGED <<service, orders, reqLock, cycles, faults>>

Preflighted(c) ==
  /\ IsAt(c, "preflight")
  /\ permits' = permits + 1
  /\ Goes(c, "submit")
  /\ cycles' = cycles \cup {Wants(c)}
  /\ UNCHANGED <<service, orders, reqLock, faults>>

OrderPreflightFails(c) ==
  /\ IsAt(c, "preflight") /\ Faulty
  /\ permits' = permits + 1
  /\ Goes(c, "ExecutionError")
  /\ UNCHANGED <<service, orders, reqLock, cycles>>

Lock(c) ==
  /\ IsAt(c, "submit") /\ reqLock = NoCall
  /\ reqLock' = c
  /\ Goes(c, "locked")
  /\ UNCHANGED <<service, orders, permits, cycles, faults>>

Placed(c) == orders \cup {[nonce |-> Nonce(c), req |-> Wants(c), call |-> c, state |-> "open"]}

Submit(c) ==
  /\ IsAt(c, "locked")
  /\ orders' = Placed(c)
  /\ Goes(c, "cooldown")
  /\ UNCHANGED <<service, reqLock, permits, cycles, faults>>

\* Mutant: the lock is kept.
RejectLocked(c) ==
  /\ IsAt(c, "locked")
  /\ (At(Nonce(c)) # {} /\ orders' = orders /\ faults' = faults)
     \/ (Faulty /\ orders' \in {orders, Placed(c)})
  /\ Again(c)
  /\ UNCHANGED <<service, reqLock, permits, cycles>>

\* The submission fails, and the market may have got it all the same; it may also refuse an
\* id that was used since it was found to be fresh.
Reject(c) ==
  /\ IsAt(c, "locked")
  /\ (At(Nonce(c)) # {} /\ orders' = orders /\ faults' = faults)
     \/ (Faulty /\ orders' \in {orders, Placed(c)})
  /\ reqLock' = NoCall
  /\ Again(c)
  /\ UNCHANGED <<service, permits, cycles>>

Submitted(c) ==
  /\ IsAt(c, "cooldown")
  /\ reqLock' = NoCall
  /\ IF service.skipAwait THEN Goes(c, "NotAwaitingProof")
                          ELSE Becomes(c, [calls[c] EXCEPT !.at = "await", !.own = c])
  /\ UNCHANGED <<service, orders, permits, cycles, faults>>

\* retrieve_proof fails: look_back goes on, a request of its own is made again.
Unretrieved(c) == IF calls[c].looked THEN NextNonce(c) ELSE Again(c)

\* retrieve_proof returns when the id is fulfilled or the order expired.
Retrieve(c) ==
  /\ IsAt(c, "await")
  /\ \/ /\ \E o \in At(Nonce(c)) : o.state = "fulfilled"
        /\ Goes(c, "Ok")
     \/ /\ \E o \in At(Nonce(c)) : o.state = "unusable"
        /\ Unretrieved(c)
     \/ /\ \E o \in At(Nonce(c)) : Expired(o) /\ o.call = calls[c].own
        /\ Unretrieved(c)
  /\ UNCHANGED <<service, orders, reqLock, permits, cycles, faults>>

BoundlessStep(c) ==
  \/ Look(c) \/ Prepare(c) \/ OrderPreflight(c) \/ Preflighted(c) \/ Lock(c) \/ Submit(c)
  \/ Submitted(c) \/ Retrieve(c)

BoundlessFault(c) == OrderPreflightFails(c) \/ Reject(c)

-----------------------------------------------------------------------------
(* Bonsai *)

\* A session is created; whoever skips waiting returns the permit.
CreateSession(c) ==
  /\ service.kind = "bonsai" /\ IsAt(c, "start") /\ permits > 0
  /\ IF service.skipAwait
       THEN Goes(c, "NotAwaitingProof") /\ UNCHANGED permits
       ELSE /\ Becomes(c, [Fresh EXCEPT !.at = "stark", !.session = "RUNNING"])
            /\ permits' = permits - 1
  /\ UNCHANGED <<service, orders, reqLock, cycles, faults>>

\* The session ends, well or not, or well and with a receipt that cannot be had, read or
\* verified: that session is polled, and its receipt fetched, for ever.
SessionEnds(c, status) ==
  /\ calls[c].session = "RUNNING"
  /\ Becomes(c, [calls[c] EXCEPT !.session = status])
  /\ UNCHANGED <<service, orders, reqLock, permits, cycles>>

\* The receipt of the execution is verified, and may have to become a SNARK.  Of a session
\* that is UNUSABLE no step leaves: the loop goes on, here with the permit in its hands.
PollStark(c) ==
  /\ IsAt(c, "stark") /\ calls[c].session = "SUCCEEDED"
  /\ permits' = permits + 1
  /\ IF service.snark THEN Becomes(c, [calls[c] EXCEPT !.at = "snark", !.session = "RUNNING"])
                      ELSE Goes(c, "Ok")
  /\ UNCHANGED <<service, orders, reqLock, cycles, faults>>

PollSnark(c) ==
  /\ IsAt(c, "snark") /\ calls[c].session = "SUCCEEDED"
  /\ Goes(c, "Ok")
  /\ UNCHANGED <<service, orders, reqLock, permits, cycles, faults>>

\* A session that ended otherwise is replaced by another.
PollFailed(c) ==
  /\ calls[c].at \in {"stark", "snark"} /\ calls[c].session = "FAILED"
  /\ Becomes(c, [calls[c] EXCEPT !.session = "RUNNING"])
  /\ UNCHANGED <<service, orders, reqLock, permits, cycles, faults>>

BonsaiStep(c) ==
  CreateSession(c) \/ PollStark(c) \/ PollSnark(c) \/ PollFailed(c)

-----------------------------------------------------------------------------
(* The local zkVM *)

ProveLocally(c) ==
  /\ service.kind = "zkvm" /\ IsAt(c, "start")
  /\ IF service.skipAwait
       THEN Goes(c, "NotAwaitingProof") /\ UNCHANGED permits
       ELSE permits > 0 /\ Goes(c, "proving") /\ permits' = permits - 1
  /\ UNCHANGED <<service, orders, reqLock, cycles, faults>>

Proved(c) ==
  /\ IsAt(c, "proving")
  /\ permits' = permits + 1
  /\ Goes(c, "Ok")
  /\ UNCHANGED <<service, orders, reqLock, cycles, faults>>

\* The execution fails, or the receipt does not verify.
ProvingFails(c, outcome) ==
  /\ IsAt(c, "proving") /\ Faulty
  /\ permits' = permits + 1
  /\ Goes(c, outcome)
  /\ UNCHANGED <<service, orders, reqLock, cycles>>

-----------------------------------------------------------------------------

ServicesInit ==
  /\ service \in Services
  /\ calls = [c \in Calls |-> Fresh]
  /\ orders = {} /\ reqLock = NoCall /\ permits = Permits /\ cycles = {} /\ faults = 0

\* The process ends; the same proofs are asked for again.
ServicesRestart ==
  /\ \E c \in Calls : calls[c].at \notin Ended
  /\ Faulty
  /\ calls' = [c \in Calls |-> IF calls[c].at \in Ended THEN calls[c] ELSE Fresh]
  /\ reqLock' = NoCall /\ permits' = Permits
  /\ UNCHANGED <<service, orders, cycles>>

CallStep(c) == BoundlessStep(c) \/ BonsaiStep(c) \/ ProveLocally(c) \/ Proved(c)

\* A prover on the market fulfils an order; Bonsai completes a session.
Serve ==
  \/ \E o \in orders : Fulfil(o, "fulfilled") /\ UNCHANGED faults
  \/ \E c \in Calls : SessionEnds(c, "SUCCEEDED") /\ UNCHANGED faults

ServicesFault ==
  \/ \E o \in orders : Expire(o) \/ (Fulfil(o, "unusable") /\ Faulty)
  \/ \E c \in Calls :
       \/ BoundlessFault(c) \/ (SessionEnds(c, "FAILED") /\ Faulty)
       \/ (SessionEnds(c, "UNUSABLE") /\ Faulty)
       \/ ProvingFails(c, "ExecutionError") \/ ProvingFails(c, "OtherError")
  \/ ServicesRestart

ServicesNext == (\E c \in Calls : CallStep(c)) \/ Serve \/ ServicesFault

ServicesSpec == ServicesInit /\ [][ServicesNext]_serviceVars

-----------------------------------------------------------------------------
(* PROPERTIES *)

\* With look_back a proof is not paid for again while it can still be had: whenever the same
\* requirements were ordered under two ids, the earlier id holds an order that expired, that
\* was answered with a seal of no use, or that belongs to other requirements; also when the
\* process restarts, a submission fails that the market accepted, calls for the same proof
\* race each other to the market, or the ids of different requirements collide.
NoNeedlessOrder ==
  service.lookBack =>
    \A o1, o2 \in orders : o1.req = o2.req =>
      \A i, j \in DOMAIN Chain[o1.req] :
        (i < j /\ o1.nonce = Chain[o1.req][i] /\ o2.nonce = Chain[o1.req][j]) =>
          \E o \in At(o1.nonce) : o.state \in {"expired", "unusable"} \/ o.req # o1.req

\* A call waits for a receipt that Bonsai does not deliver, for ever; in the STARK loop it
\* keeps a permit, and calls without one wait too when none is left.
Stuck(c) == calls[c].session = "UNUSABLE"
PermitsLost == Cardinality({c \in Calls : Stuck(c) /\ IsAt(c, "stark")}) >= Permits

\* Every call of seek_proof ends, except one whose Bonsai session succeeded without a usable
\* receipt, and except when such calls hold all the permits: on every other path the lock
\* and the permits come back, failed sessions are replaced, and expired orders made again.
EveryCallEnds == <>[](PermitsLost \/ \A c \in Calls : calls[c].at \in Ended \/ Stuck(c))

-----------------------------------------------------------------------------
(***************************************************************************)
(* The inductive invariant behind NoNeedlessOrder: see ServiceProofs.      *)
(***************************************************************************)

Places ==
  {"start", "prepare", "preflight", "submit", "locked", "cooldown", "await", "stark", "snark",
   "proving", "Ok", "NotAwaitingProof", "ExecutionError", "OtherError"}
CallRecords ==
  [at : Places, step : Nat \ {0}, own : Calls \cup {NoCall}, looked : BOOLEAN,
   session : {"none", "RUNNING", "SUCCEEDED", "FAILED", "UNUSABLE"}]
OrderRecords ==
  [nonce : Nat, req : DOMAIN Chain, call : Calls,
   state : {"open", "fulfilled", "unusable", "expired"}]

\* What requirements w find under their i-th id is of no use to them.
PassedOver(w, i) ==
  \E o \in At(Chain[w][i]) : o.state \in {"expired", "unusable"} \/ o.req # w

\* A call has passed over the ids before the one it is at, and so has whoever placed an order.
ServicesInv ==
  /\ service \in Services
  /\ calls \in [Calls -> CallRecords] /\ orders \subseteq OrderRecords
  /\ \A c \in Calls : calls[c].step <= Len(Chain[Wants(c)])
  /\ service.lookBack =>
       /\ \A c \in Calls : \A i \in 1..(calls[c].step - 1) : PassedOver(Wants(c), i)
       /\ \A o \in orders : \A j \in DOMAIN Chain[o.req] : o.nonce = Chain[o.req][j] =>
            \A i \in 1..(j - 1) : PassedOver(o.req, i)
=============================================================================
