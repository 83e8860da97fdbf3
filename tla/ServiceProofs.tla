---------------------------- MODULE ServiceProofs ----------------------------
(***************************************************************************)
(* The prover and the proving services, for any requests, workers, calls,  *)
(* requirements and colliding ids, and any faults of market and process:   *)
(* a proof is ordered again only for a reason, and prove() tiles what it   *)
(* is asked for, never panics, succeeds only with the proof and fails only *)
(* for a cause.                                                            *)
(***************************************************************************)
EXTENDS Prover, ProofServices, FiniteSetTheorems, WellFoundedInduction, TLAPS

(***************************************************************************)
(* Orders are added, and leave the state "open" once.                      *)
(***************************************************************************)
OrdersKept ==
  \A o \in orders : \E k \in orders' :
    k.nonce = o.nonce /\ k.req = o.req /\ (k.state = o.state \/ o.state = "open")

LEMMA PassedOverKept ==
  ASSUME OrdersKept, NEW w, NEW i, PassedOver(w, i)
  PROVE  PassedOver(w, i)'
<1>1. PICK o \in orders : /\ o.nonce = Chain[w][i]
                          /\ o.state \in {"expired", "unusable"} \/ o.req # w
  BY DEF PassedOver, At
<1>2. PICK k \in orders' :
        k.nonce = o.nonce /\ k.req = o.req /\ (k.state = o.state \/ o.state = "open")
  BY DEF OrdersKept
<1> QED
  BY <1>1, <1>2 DEF PassedOver, At

\* A call stays at its id, starts over, or passes over what it found there.
CallsMove ==
  /\ calls' \in [Calls -> CallRecords]
  /\ \A c \in Calls :
       \/ calls'[c].step = calls[c].step
       \/ calls'[c].step = 1
       \/ /\ calls'[c].step = calls[c].step + 1
          /\ calls[c].step < Len(Chain[Wants(c)])
          /\ service.lookBack => PassedOver(Wants(c), calls[c].step)

\* An order is an earlier one, or that of a call at the id where the call is.
OrdersMove ==
  /\ orders' \subseteq OrderRecords
  /\ \A k \in orders' :
       \/ \E o \in orders : o.nonce = k.nonce /\ o.req = k.req
       \/ \E c \in Calls : k.nonce = Nonce(c) /\ k.req = Wants(c)

LEMMA WantsTypes ==
  ASSUME ServicesInv, NEW c \in Calls
  PROVE  /\ Wants(c) \in DOMAIN Chain /\ Chain[Wants(c)] \in Seq(Nat)
         /\ Len(Chain[Wants(c)]) \in Nat \ {0}
         /\ calls[c] \in CallRecords /\ calls[c].step \in 1..Len(Chain[Wants(c)])
         /\ Nonce(c) \in Nat
<1>1. Wants(c) \in DOMAIN Chain
  BY ChainAssumption DEF ServicesInv, Wants
<1>2. PICK w \in DOMAIN Chain : w = Wants(c)
  BY <1>1
<1>3. Chain[w] \in Seq(Nat) /\ Len(Chain[w]) \in Nat \ {0}
  BY ChainAssumption
<1>4. calls[c] \in CallRecords /\ calls[c].step \in Nat \ {0} /\ calls[c].step <= Len(Chain[w])
  BY <1>2 DEF ServicesInv, CallRecords
<1>5. calls[c].step \in 1..Len(Chain[w])
  BY <1>3, <1>4
<1>6. Chain[w][calls[c].step] \in Nat
  BY <1>3, <1>5
<1> QED
  BY <1>1, <1>2, <1>3, <1>4, <1>5, <1>6 DEF Nonce

\* All that a step has to show.
LEMMA Moves ==
  ASSUME ServicesInv, service' = service, OrdersKept, CallsMove, OrdersMove
  PROVE  ServicesInv'
<1>1. \A c \in Calls : Wants(c)' = Wants(c)
  BY DEF Wants
<1>2. \A c \in Calls : calls'[c].step <= Len(Chain[Wants(c)])
  <2> TAKE c \in Calls
  <2>1. calls[c].step \in 1..Len(Chain[Wants(c)]) /\ Len(Chain[Wants(c)]) \in Nat \ {0}
    BY WantsTypes
  <2> QED
    BY <2>1 DEF CallsMove
<1>3. ASSUME service.lookBack, NEW c \in Calls, NEW i \in 1..(calls'[c].step - 1)
      PROVE  PassedOver(Wants(c), i)'
  <2>1. PICK w : w = Wants(c)
    OBVIOUS
  <2>2. calls[c].step \in Nat \ {0}
    BY WantsTypes
  <2>3. i \in 1..(calls[c].step - 1) \/ (i = calls[c].step /\ PassedOver(w, i))
    BY <1>3, <2>1, <2>2 DEF CallsMove
  <2>4. PassedOver(w, i)
    BY <1>3, <2>1, <2>3 DEF ServicesInv
  <2>5. PassedOver(w, i)'
    BY <2>4, PassedOverKept
  <2>6. w = Wants(c)'
    BY <1>1, <2>1
  <2> QED
    BY <2>5, <2>6 DEF PassedOver, At
<1>4. ASSUME service.lookBack, NEW k \in orders', NEW j \in DOMAIN Chain[k.req],
             k.nonce = Chain[k.req][j], NEW i \in 1..(j - 1)
      PROVE  PassedOver(k.req, i)'
  <2>1. CASE \E o \in orders : o.nonce = k.nonce /\ o.req = k.req
    <3>1. PassedOver(k.req, i)
      BY <1>4, <2>1 DEF ServicesInv
    <3> QED
      BY <3>1, PassedOverKept
  <2>2. CASE \E c \in Calls : k.nonce = Nonce(c) /\ k.req = Wants(c)
    <3>1. PICK c \in Calls : k.nonce = Nonce(c) /\ k.req = Wants(c)
      BY <2>2
    <3>2. PICK w \in DOMAIN Chain : w = k.req /\ w = Wants(c)
      BY <3>1, WantsTypes
    <3>3. Chain[w] \in Seq(Nat) /\ calls[c].step \in 1..Len(Chain[w])
      BY <3>2, WantsTypes
    <3>4. calls[c].step \in DOMAIN Chain[w]
      BY <3>3
    <3>5. Chain[w][calls[c].step] = Chain[w][j]
      BY <1>4, <3>1, <3>2 DEF Nonce
    <3>6. calls[c].step = j
      BY <1>4, <3>2, <3>4, <3>5, ChainAssumption
    <3>7. PassedOver(k.req, i)
      BY <1>4, <3>1, <3>6 DEF ServicesInv
    <3> QED
      BY <3>7, PassedOverKept
  <2> QED
    BY <2>1, <2>2 DEF OrdersMove
<1>5. service' \in Services /\ calls' \in [Calls -> CallRecords] /\ orders' \subseteq OrderRecords
  BY DEF ServicesInv, CallsMove, OrdersMove
<1>6. \A c \in Calls : calls'[c].step <= Len(Chain[Wants(c)'])
  BY <1>1, <1>2
<1> QED
  BY <1>3, <1>4, <1>5, <1>6 DEF ServicesInv

-----------------------------------------------------------------------------
(***************************************************************************)
(* Calls.                                                                  *)
(***************************************************************************)

LEMMA FreshCall == Fresh \in CallRecords /\ Fresh.step = 1
BY DEF Fresh, CallRecords, Places

\* A call that becomes v.
LEMMA BecomesMoves ==
  ASSUME ServicesInv, NEW c \in Calls, NEW v \in CallRecords, Becomes(c, v),
         \/ v.step = calls[c].step
         \/ v.step = 1
         \/ /\ v.step = calls[c].step + 1
            /\ calls[c].step < Len(Chain[Wants(c)])
            /\ service.lookBack => PassedOver(Wants(c), calls[c].step)
  PROVE  CallsMove
<1>1. calls \in [Calls -> CallRecords]
  BY DEF ServicesInv
<1>2. calls' \in [Calls -> CallRecords] /\ calls'[c] = v
      /\ \A d \in Calls : d # c => calls'[d] = calls[d]
  BY <1>1 DEF Becomes
<1> QED
  BY <1>2 DEF CallsMove

LEMMA GoesMoves ==
  ASSUME ServicesInv, NEW c \in Calls, NEW where \in Places, Goes(c, where)
  PROVE  CallsMove
<1>1. calls[c] \in CallRecords
  BY DEF ServicesInv
<1>2. PICK v : v = [calls[c] EXCEPT !.at = where]
  OBVIOUS
<1>3. v \in CallRecords /\ v.step = calls[c].step
  BY <1>1, <1>2 DEF CallRecords
<1> QED
  BY <1>2, <1>3, BecomesMoves DEF Goes

LEMMA AgainMoves ==
  ASSUME ServicesInv, NEW c \in Calls, Again(c)
  PROVE  CallsMove
BY FreshCall, BecomesMoves DEF Again

LEMMA NextMoves ==
  ASSUME ServicesInv, NEW c \in Calls, NextNonce(c),
         service.lookBack => PassedOver(Wants(c), calls[c].step)
  PROVE  CallsMove
<1>1. PICK n \in Nat \ {0} : n = calls[c].step + 1
  BY WantsTypes
<1>2. PICK v : v = [Fresh EXCEPT !.step = n]
  OBVIOUS
<1>3. v \in CallRecords /\ v.step = n
  <2>1. v = [at |-> "start", step |-> n, own |-> NoCall, looked |-> FALSE, session |-> "none"]
    BY <1>2 DEF Fresh
  <2> QED
    BY <2>1 DEF CallRecords, Places
<1>4. Becomes(c, v)
  BY <1>1, <1>2 DEF NextNonce
<1> QED
  BY <1>1, <1>3, <1>4, BecomesMoves DEF NextNonce

LEMMA CallsStay ==
  ASSUME ServicesInv, calls' = calls
  PROVE  CallsMove
BY DEF ServicesInv, CallsMove

LEMMA OrdersStay ==
  ASSUME ServicesInv, orders' = orders
  PROVE  OrdersKept /\ OrdersMove
BY DEF ServicesInv, OrdersKept, OrdersMove

\* The steps of a call on the market that only look there.
LEMMA LookMoves ==
  ASSUME ServicesInv, NEW c \in Calls, Look(c) \/ Retrieve(c)
  PROVE  CallsMove
<1>1. CASE Look(c) /\ Skip(c)
  <2>1. service.lookBack => PassedOver(Wants(c), calls[c].step)
    BY <1>1 DEF Skip, Expired, PassedOver, Nonce
  <2> QED
    BY <1>1, <2>1, NextMoves DEF Skip
<1>2. CASE Look(c) /\ FindOrder(c)
  <2>1. PICK o \in orders :
          IF service.skipAwait THEN Goes(c, "NotAwaitingProof")
          ELSE Becomes(c, [calls[c] EXCEPT !.at = "await", !.own = o.call, !.looked = TRUE])
    BY <1>2 DEF FindOrder, At
  <2>2. CASE service.skipAwait
    BY <2>1, <2>2, GoesMoves DEF Places
  <2>3. CASE ~service.skipAwait
    <3>1. PICK v : v = [calls[c] EXCEPT !.at = "await", !.own = o.call, !.looked = TRUE]
      OBVIOUS
    <3>2. calls[c] \in CallRecords /\ o.call \in Calls
      BY DEF ServicesInv, OrderRecords
    <3>3. v \in CallRecords /\ v.step = calls[c].step
      BY <3>1, <3>2 DEF CallRecords, Places
    <3> QED
      BY <2>1, <2>3, <3>1, <3>3, BecomesMoves
  <2> QED
    BY <2>2, <2>3
<1>3. CASE Look(c) /\ FindFresh(c)
  BY <1>3, GoesMoves DEF FindFresh, Places
<1>4. CASE Retrieve(c)
  <2>1. CASE Goes(c, "Ok")
    BY <2>1, GoesMoves DEF Places
  <2>2. CASE Unretrieved(c) /\ PassedOver(Wants(c), calls[c].step)
    BY <2>2, NextMoves, AgainMoves DEF Unretrieved
  <2> QED
    BY <1>4, <2>1, <2>2 DEF Retrieve, PassedOver, Nonce, Expired
<1> QED
  BY <1>1, <1>2, <1>3, <1>4 DEF Look

\* The other steps of a call on the market, of Bonsai and of the zkVM.
LEMMA CallStepMoves ==
  ASSUME ServicesInv, NEW c \in Calls,
         \/ Prepare(c) \/ OrderPreflight(c) \/ Preflighted(c) \/ OrderPreflightFails(c)
         \/ Lock(c) \/ Submit(c) \/ Reject(c) \/ Submitted(c)
         \/ BonsaiStep(c) \/ ProveLocally(c) \/ Proved(c)
         \/ ProvingFails(c, "ExecutionError") \/ ProvingFails(c, "OtherError")
         \/ SessionEnds(c, "SUCCEEDED") \/ SessionEnds(c, "FAILED") \/ SessionEnds(c, "UNUSABLE")
  PROVE  CallsMove
<1>1. calls[c] \in CallRecords
  BY DEF ServicesInv
<1>2. CASE \E where \in Places : Goes(c, where)
  BY <1>2, GoesMoves
<1>3. CASE Again(c)
  BY <1>3, AgainMoves
<1>4. CASE Becomes(c, [calls[c] EXCEPT !.at = "await", !.own = c])
  <2>1. PICK v : v = [calls[c] EXCEPT !.at = "await", !.own = c]
    OBVIOUS
  <2>2. v \in CallRecords /\ v.step = calls[c].step
    BY <1>1, <2>1 DEF CallRecords, Places
  <2> QED
    BY <1>4, <2>1, <2>2, BecomesMoves
<1>5. CASE Becomes(c, [Fresh EXCEPT !.at = "stark", !.session = "RUNNING"])
  <2>1. PICK v : v = [Fresh EXCEPT !.at = "stark", !.session = "RUNNING"]
    OBVIOUS
  <2>2. v \in CallRecords /\ v.step = 1
    BY <2>1, FreshCall DEF CallRecords, Places
  <2> QED
    BY <1>5, <2>1, <2>2, BecomesMoves
<1>6. CASE Becomes(c, [calls[c] EXCEPT !.at = "snark", !.session = "RUNNING"])
  <2>1. PICK v : v = [calls[c] EXCEPT !.at = "snark", !.session = "RUNNING"]
    OBVIOUS
  <2>2. v \in CallRecords /\ v.step = calls[c].step
    BY <1>1, <2>1 DEF CallRecords, Places
  <2> QED
    BY <1>6, <2>1, <2>2, BecomesMoves
<1>7. CASE \E s \in {"RUNNING", "SUCCEEDED", "FAILED", "UNUSABLE"} :
             Becomes(c, [calls[c] EXCEPT !.session = s])
  <2>1. PICK s \in {"RUNNING", "SUCCEEDED", "FAILED", "UNUSABLE"} :
          Becomes(c, [calls[c] EXCEPT !.session = s])
    BY <1>7
  <2>2. PICK v : v = [calls[c] EXCEPT !.session = s]
    OBVIOUS
  <2>3. v \in CallRecords /\ v.step = calls[c].step
    BY <1>1, <2>2 DEF CallRecords
  <2> QED
    BY <2>1, <2>2, <2>3, BecomesMoves
<1>8. CASE \/ Prepare(c) \/ OrderPreflight(c) \/ Preflighted(c) \/ OrderPreflightFails(c)
           \/ Lock(c) \/ Submit(c)
  <2>1. \E where \in Places : Goes(c, where)
    BY <1>8 DEF Prepare, OrderPreflight, Preflighted, OrderPreflightFails, Lock, Submit, Places
  <2> QED
    BY <1>2, <2>1
<1>9. CASE Reject(c) \/ Submitted(c)
  <2>1. \/ Again(c)
        \/ Goes(c, "NotAwaitingProof")
        \/ Becomes(c, [calls[c] EXCEPT !.at = "await", !.own = c])
    BY <1>9 DEF Reject, Submitted
  <2> QED
    BY <1>2, <1>3, <1>4, <2>1 DEF Places
<1>10. CASE ProveLocally(c) \/ Proved(c) \/ ProvingFails(c, "ExecutionError")
            \/ ProvingFails(c, "OtherError")
  <2>1. \E where \in Places : Goes(c, where)
    BY <1>10 DEF ProveLocally, Proved, ProvingFails, Places
  <2> QED
    BY <1>2, <2>1
<1>11. CASE SessionEnds(c, "SUCCEEDED") \/ SessionEnds(c, "FAILED") \/ SessionEnds(c, "UNUSABLE") \/ PollFailed(c)
  <2>1. \E s \in {"RUNNING", "SUCCEEDED", "FAILED", "UNUSABLE"} :
          Becomes(c, [calls[c] EXCEPT !.session = s])
    BY <1>11 DEF SessionEnds, PollFailed
  <2> QED
    BY <1>7, <2>1
<1>12. CASE CreateSession(c) \/ PollStark(c) \/ PollSnark(c)
  <2>1. \/ Goes(c, "Ok")
        \/ Goes(c, "NotAwaitingProof")
        \/ Becomes(c, [Fresh EXCEPT !.at = "stark", !.session = "RUNNING"])
        \/ Becomes(c, [calls[c] EXCEPT !.at = "snark", !.session = "RUNNING"])
    BY <1>12 DEF CreateSession, PollStark, PollSnark
  <2> QED
    BY <1>2, <1>5, <1>6, <2>1 DEF Places
<1> QED
  BY <1>8, <1>9, <1>10, <1>11, <1>12 DEF BonsaiStep

LEMMA RestartMoves ==
  ASSUME ServicesInv, ServicesRestart
  PROVE  CallsMove
<1>1. \A c \in Calls : calls'[c] = calls[c] \/ calls'[c] = Fresh
  BY DEF ServicesRestart
<1>2. calls' = [c \in Calls |-> IF calls[c].at \in Ended THEN calls[c] ELSE Fresh]
  BY DEF ServicesRestart
<1>3. calls' \in [Calls -> CallRecords]
  BY <1>2, FreshCall DEF ServicesInv
<1> QED
  BY <1>1, <1>3, FreshCall DEF CallsMove

-----------------------------------------------------------------------------
(***************************************************************************)
(* Orders.                                                                 *)
(***************************************************************************)

LEMMA PlacedMoves ==
  ASSUME ServicesInv, NEW c \in Calls, orders' = Placed(c)
  PROVE  OrdersKept /\ OrdersMove
<1>1. PICK k : k = [nonce |-> Nonce(c), req |-> Wants(c), call |-> c, state |-> "open"]
  OBVIOUS
<1>2. k \in OrderRecords /\ k.nonce = Nonce(c) /\ k.req = Wants(c)
  BY <1>1, WantsTypes DEF OrderRecords
<1>3. orders \subseteq OrderRecords /\ orders' = orders \cup {k}
  BY <1>1 DEF ServicesInv, Placed
<1> QED
  BY <1>2, <1>3 DEF OrdersKept, OrdersMove

\* An open order is settled: it keeps its id and its requirements.
LEMMA SettledMoves ==
  ASSUME ServicesInv, NEW o \in orders, o.state = "open",
         NEW state \in {"fulfilled", "unusable", "expired"},
         orders' = (orders \ {o}) \cup {[o EXCEPT !.state = state]}
  PROVE  OrdersKept /\ OrdersMove
<1>1. PICK k : k = [o EXCEPT !.state = state]
  OBVIOUS
<1>2. orders \subseteq OrderRecords
  BY DEF ServicesInv
<1>3. k \in OrderRecords /\ k.nonce = o.nonce /\ k.req = o.req
  BY <1>1, <1>2 DEF OrderRecords
<1>4. orders' = (orders \ {o}) \cup {k}
  BY <1>1
<1> QED
  BY <1>2, <1>3, <1>4 DEF OrdersKept, OrdersMove

-----------------------------------------------------------------------------

LEMMA ServicesStart == ServicesInit => ServicesInv
<1> SUFFICES ASSUME ServicesInit PROVE ServicesInv
  OBVIOUS
<1>1. calls \in [Calls -> CallRecords] /\ \A c \in Calls : calls[c].step = 1
  BY FreshCall DEF ServicesInit
<1>2. \A c \in Calls : Wants(c) \in DOMAIN Chain
  BY ChainAssumption DEF ServicesInit, Wants
<1>3. \A w \in DOMAIN Chain : Len(Chain[w]) \in Nat \ {0}
  BY ChainAssumption
<1>4. \A c \in Calls : calls[c].step <= Len(Chain[Wants(c)])
  BY <1>1, <1>2, <1>3
<1>5. \A c \in Calls : 1..(calls[c].step - 1) = {}
  BY <1>1
<1> QED
  BY <1>1, <1>4, <1>5 DEF ServicesInit, ServicesInv

LEMMA ServicesStep ==
  ASSUME ServicesInv, ServicesNext
  PROVE  ServicesInv'
<1>1. CASE \E c \in Calls : CallStep(c)
  <2>1. PICK c \in Calls : CallStep(c)
    BY <1>1
  <2>2. CallsMove
    BY <2>1, LookMoves, CallStepMoves DEF CallStep, BoundlessStep
  <2>3. service' = service
    BY <2>1 DEF CallStep, BoundlessStep, BonsaiStep, Look, Prepare, OrderPreflight, Preflighted,
                Lock, Submit, Submitted, Retrieve, CreateSession, PollStark, PollSnark,
                PollFailed, ProveLocally, Proved
  <2>4. orders' = orders \/ orders' = Placed(c)
    BY <2>1 DEF CallStep, BoundlessStep, BonsaiStep, Look, Prepare, OrderPreflight, Preflighted,
                Lock, Submit, Submitted, Retrieve, CreateSession, PollStark, PollSnark,
                PollFailed, ProveLocally, Proved
  <2>5. OrdersKept /\ OrdersMove
    BY <2>4, OrdersStay, PlacedMoves
  <2> QED
    BY <2>2, <2>3, <2>5, Moves
<1>2. CASE \E c \in Calls : SessionEnds(c, "SUCCEEDED") \/ SessionEnds(c, "FAILED") \/ SessionEnds(c, "UNUSABLE")
  <2>1. CallsMove
    BY <1>2, CallStepMoves
  <2>2. service' = service /\ orders' = orders
    BY <1>2 DEF SessionEnds
  <2> QED
    BY <2>1, <2>2, OrdersStay, Moves
<1>3. CASE \E o \in orders : Fulfil(o, "fulfilled") \/ Fulfil(o, "unusable") \/ Expire(o)
  <2>1. service' = service /\ calls' = calls
    BY <1>3 DEF Fulfil, Expire
  <2>2. PICK o \in orders : Fulfil(o, "fulfilled") \/ Fulfil(o, "unusable") \/ Expire(o)
    BY <1>3
  <2>3. PICK state \in {"fulfilled", "unusable", "expired"} :
          o.state = "open" /\ orders' = (orders \ {o}) \cup {[o EXCEPT !.state = state]}
    BY <2>2 DEF Fulfil, Expire
  <2>4. OrdersKept /\ OrdersMove
    BY <2>3, SettledMoves
  <2> QED
    BY <2>1, <2>4, CallsStay, Moves
<1>4. CASE \E c \in Calls : BoundlessFault(c)
  <2>1. PICK c \in Calls : OrderPreflightFails(c) \/ Reject(c)
    BY <1>4 DEF BoundlessFault
  <2>2. service' = service /\ (orders' = orders \/ orders' = Placed(c))
    BY <2>1 DEF OrderPreflightFails, Reject
  <2>3. CallsMove
    BY <2>1, CallStepMoves
  <2> QED
    BY <2>2, <2>3, OrdersStay, PlacedMoves, Moves
<1>5. CASE \E c \in Calls : \/ ProvingFails(c, "ExecutionError")
                           \/ ProvingFails(c, "OtherError")
  <2>1. CallsMove
    BY <1>5, CallStepMoves
  <2>2. service' = service /\ orders' = orders
    BY <1>5 DEF ProvingFails
  <2> QED
    BY <2>1, <2>2, OrdersStay, Moves
<1>6. CASE ServicesRestart
  <2>1. service' = service /\ orders' = orders
    BY <1>6 DEF ServicesRestart
  <2> QED
    BY <1>6, <2>1, RestartMoves, OrdersStay, Moves
<1> QED
  BY <1>1, <1>2, <1>3, <1>4, <1>5, <1>6 DEF ServicesNext, Serve, ServicesFault

LEMMA ServicesStutter ==
  ASSUME ServicesInv, UNCHANGED serviceVars
  PROVE  ServicesInv'
BY CallsStay, OrdersStay, Moves DEF serviceVars

LEMMA ReasonFromInv == ServicesInv => NoNeedlessOrder
<1> SUFFICES ASSUME ServicesInv, service.lookBack, NEW o1 \in orders, NEW o2 \in orders,
                    o1.req = o2.req,
                    NEW i \in DOMAIN Chain[o1.req], NEW j \in DOMAIN Chain[o1.req],
                    i < j, o1.nonce = Chain[o1.req][i], o2.nonce = Chain[o1.req][j]
             PROVE  \E o \in At(o1.nonce) : \/ o.state \in {"expired", "unusable"}
                                           \/ o.req # o1.req
  BY DEF NoNeedlessOrder
<1>1. PICK w \in DOMAIN Chain : w = o1.req
  BY DEF ServicesInv, OrderRecords
<1>2. DOMAIN Chain[w] = 1..Len(Chain[w]) /\ Len(Chain[w]) \in Nat
  BY ChainAssumption
<1>3. i \in 1..(j - 1)
  BY <1>1, <1>2
<1>4. PassedOver(w, i)
  BY <1>1, <1>3 DEF ServicesInv
<1> QED
  BY <1>1, <1>4 DEF PassedOver

(***************************************************************************)
(* With look_back, run_boundless_client never orders a proof again while   *)
(* an earlier order for it can still be had, whatever the number of calls  *)
(* that race each other, the ids that collide, the submissions that fail   *)
(* after the market accepted them, and the restarts.                       *)
(***************************************************************************)
THEOREM OrdersHaveReason == ServicesSpec => []NoNeedlessOrder
<1>1. ServicesInv /\ [ServicesNext]_serviceVars => ServicesInv'
  BY ServicesStep, ServicesStutter
<1> QED
  BY <1>1, ServicesStart, ReasonFromInv, PTL DEF ServicesSpec

-----------------------------------------------------------------------------
(***************************************************************************)
(* The prover.                                                             *)
(***************************************************************************)

(***************************************************************************)
(* Ranges of blocks.                                                       *)
(***************************************************************************)

LEMMA PartFacts ==
  ASSUME NEW r \in Nat \X Nat, NEW x \in Parts(r)
  PROVE  /\ x \in Nat \X Nat /\ x[1] \in Nat /\ x[2] \in Nat /\ r[1] \in Nat /\ r[2] \in Nat
         /\ r[1] <= x[1] /\ x[1] < x[2] /\ x[2] <= r[2]
BY DEF Parts

LEMMA HalfFacts ==
  ASSUME NEW r \in Nat \X Nat, r[2] - r[1] > 1
  PROVE  \E mid \in Nat : /\ Halves(r) = <<<<r[1], mid>>, <<mid, r[2]>>>>
                          /\ r[1] < mid /\ mid < r[2]
<1>1. PICK l \in Nat, h \in Nat : r = <<l, h>> /\ r[1] = l /\ r[2] = h
  OBVIOUS
<1>2. PICK d \in Nat : d = h - l /\ d > 1
  BY <1>1
<1>3. PICK e \in Nat : e = d \div 2 /\ e >= 1 /\ e < d
  <2>1. d \div 2 \in Nat /\ d \div 2 >= 1 /\ d \div 2 < d
    BY <1>2
  <2> QED
    BY <2>1
<1>4. Halves(r) = <<<<l, l + e>>, <<l + e, h>>>>
  BY <1>1, <1>2, <1>3 DEF Halves, Blocks
<1> QED
  BY <1>1, <1>2, <1>3, <1>4

\* A part of the ranges of R gives way to its halves.
LEMMA SplitDisjoint ==
  ASSUME NEW R \in Nat \X Nat, NEW S, Disjoint(S, R), NEW r \in S, Blocks(r) > 1,
         NEW T, T = (S \ {r}) \cup {Halves(r)[1], Halves(r)[2]}
  PROVE  /\ r \in Nat \X Nat /\ Halves(r)[1] \in Parts(r) /\ Halves(r)[2] \in Parts(r)
         /\ Halves(r)[1] \in Parts(R) /\ Halves(r)[2] \in Parts(R)
         /\ Halves(r)[1] # Halves(r)[2] /\ Halves(r)[1] \notin S /\ Halves(r)[2] \notin S
         /\ ~(Halves(r)[1][1] <= r[1] /\ r[2] <= Halves(r)[1][2])
         /\ ~(Halves(r)[2][1] <= r[1] /\ r[2] <= Halves(r)[2][2])
         /\ Disjoint(T, R)
         /\ Covers(S, R) => Covers(T, R)
<1>1. r \in Parts(R) /\ r \in Nat \X Nat
  BY DEF Disjoint, Parts
<1>2. PICK mid \in Nat : Halves(r) = <<<<r[1], mid>>, <<mid, r[2]>>>> /\ r[1] < mid /\ mid < r[2]
  <2>1. r[2] - r[1] > 1
    BY DEF Blocks
  <2> QED
    BY <1>1, <2>1, HalfFacts
<1>3. PICK l \in Nat, h \in Nat : r = <<l, h>> /\ r[1] = l /\ r[2] = h /\ l < mid /\ mid < h
                                  /\ R[1] <= l /\ h <= R[2]
  BY <1>1, <1>2, PartFacts
<1>4. PICK a, b : a = <<l, mid>> /\ b = <<mid, h>>
  OBVIOUS
<1>5. Halves(r)[1] = a /\ Halves(r)[2] = b
  BY <1>2, <1>3, <1>4
<1>6. /\ a \in Nat \X Nat /\ a[1] = l /\ a[2] = mid
      /\ b \in Nat \X Nat /\ b[1] = mid /\ b[2] = h
  BY <1>4
<1>7. a \in Parts(r) /\ b \in Parts(r) /\ a \in Parts(R) /\ b \in Parts(R)
  BY <1>3, <1>6 DEF Parts
<1>8. a # b
  BY <1>3, <1>6
<1>9. ASSUME NEW x \in S, x # r PROVE Apart(x, a) /\ Apart(x, b) /\ Apart(a, x) /\ Apart(b, x)
  <2>1. x \in Parts(R) /\ (x[2] <= r[1] \/ r[2] <= x[1])
    BY <1>9 DEF Disjoint, Apart
  <2>2. x[1] \in Nat /\ x[2] \in Nat
    BY <2>1, PartFacts
  <2>3. x[2] <= l \/ h <= x[1]
    BY <1>3, <2>1
  <2> QED
    BY <1>3, <1>6, <2>2, <2>3 DEF Apart
<1>10. a \notin S /\ b \notin S
  <2>1. ~Apart(a, a) /\ ~Apart(b, b)
    BY <1>3, <1>6 DEF Apart
  <2>2. a # r /\ b # r
    BY <1>3, <1>6
  <2> QED
    BY <1>9, <2>1, <2>2
<1>11. Disjoint(T, R)
  <2>1. T \subseteq Parts(R)
    BY <1>5, <1>7 DEF Disjoint
  <2>2. Apart(a, b) /\ Apart(b, a)
    BY <1>6 DEF Apart
  <2>3. ASSUME NEW x \in T, NEW y \in T, x # y PROVE Apart(x, y)
    <3>1. x \in {a, b} \/ (x \in S /\ x # r)
      BY <1>5
    <3>2. y \in {a, b} \/ (y \in S /\ y # r)
      BY <1>5
    <3>3. CASE x \in {a, b} /\ y \in {a, b}
      BY <2>2, <2>3, <3>3
    <3>4. CASE x \in {a, b} /\ y \in S /\ y # r
      BY <1>9, <3>4
    <3>5. CASE y \in {a, b} /\ x \in S /\ x # r
      BY <1>9, <3>5
    <3>6. CASE x \in S /\ y \in S
      BY <2>3, <3>6 DEF Disjoint
    <3> QED
      BY <3>1, <3>2, <3>3, <3>4, <3>5, <3>6
  <2> QED
    BY <2>1, <2>3 DEF Disjoint
<1>12. ASSUME Covers(S, R) PROVE Covers(T, R)
  <2>1. ASSUME NEW c \in (R[1] + 1)..R[2] PROVE \E x \in T : Has(x, c)
    <3>1. PICK x \in S : Has(x, c)
      BY <1>12 DEF Covers
    <3>2. CASE x # r
      BY <3>1, <3>2
    <3>3. CASE x = r
      <4>1. c \in Int
        BY <1>1, PartFacts
      <4>2. l < c /\ c <= h
        BY <1>3, <3>1, <3>3 DEF Has
      <4>3. Has(a, c) \/ Has(b, c)
        BY <1>6, <4>1, <4>2 DEF Has
      <4> QED
        BY <1>5, <4>3
    <3> QED
      BY <3>2, <3>3
  <2> QED
    BY <1>11, <2>1 DEF Covers
<1>13. ~(a[1] <= r[1] /\ r[2] <= a[2]) /\ ~(b[1] <= r[1] /\ r[2] <= b[2])
  BY <1>3, <1>6
<1> QED
  BY <1>1, <1>5, <1>7, <1>8, <1>10, <1>11, <1>12, <1>13

LEMMA SubsetDisjoint ==
  ASSUME NEW R, NEW T, Disjoint(T, R), NEW S, S \subseteq T
  PROVE  Disjoint(S, R)
BY DEF Disjoint

LEMMA LeastExists ==
  ASSUME NEW N \in Nat, NEW S, S \subseteq 0..N, S # {}
  PROVE  \E m \in S : \A x \in S : m <= x
<1> DEFINE A == 0..N
           B == {0..n : n \in S}
<1>1. IsFiniteSet(A)
  BY FS_Interval
<1>2. IsWellFoundedOn(StrictSubsetOrdering(A), SUBSET A)
  <2>1. FiniteSubsetsOf(A) = SUBSET A
    BY <1>1, FS_FiniteSubsetsOfFinite
  <2>2. IsWellFoundedOn(StrictSubsetOrdering(A), FiniteSubsetsOf(A))
    BY FS_StrictSubsetOrderingWellFounded
  <2> QED
    BY <2>1, <2>2
<1>3. PICK X \in B : \A Y \in B : <<Y, X>> \notin StrictSubsetOrdering(A)
  <2>1. ASSUME NEW n \in S PROVE 0..n \in SUBSET A
    <3>1. n \in 0..N
      OBVIOUS
    <3> QED
      BY <3>1
  <2>2. B \subseteq SUBSET A /\ B # {}
    BY <2>1
  <2> HIDE DEF A, B
  <2> QED
    BY <1>2, <2>2, WFMin
<1>4. PICK m \in S : X = 0..m
  OBVIOUS
<1>5. ASSUME NEW x \in S, ~(m <= x) PROVE FALSE
  <2>1. x \in Nat /\ m \in Nat /\ x < m /\ m <= N
    BY <1>5
  <2>2. 0..x \subseteq A /\ 0..m \subseteq A /\ 0..x \subseteq 0..m
    BY <2>1
  <2>3. m \in 0..m /\ m \notin 0..x
    BY <2>1
  <2>4. <<0..x, X>> \in StrictSubsetOrdering(A)
    BY <1>4, <2>2, <2>3 DEF StrictSubsetOrdering
  <2> QED
    BY <1>3, <2>4
<1> QED
  BY <1>5

\* Ranges between points that increase.
Rising(u, k) == u \in [0..k -> Nat] /\ \A i, j \in 0..k : i < j => u[i] < u[j]
Between(u, k, parts, S) ==
  (\A i \in 1..k : parts[i] = <<u[i - 1], u[i]>>) /\ S = {parts[i] : i \in 1..k}
Differ(parts, k) == \A i, j \in 1..k : parts[i] = parts[j] => i = j

LEMMA ChainCovers ==
  ASSUME NEW k \in Nat \ {0}, NEW u, Rising(u, k), NEW parts, NEW S, Between(u, k, parts, S)
  PROVE  Covers(S, <<u[0], u[k]>>) /\ Differ(parts, k)
<1> DEFINE r == <<u[0], u[k]>>
<1>a. u \in [0..k -> Nat] /\ \A i, j \in 0..k : i < j => u[i] < u[j]
  BY DEF Rising
<1>b. (\A i \in 1..k : parts[i] = <<u[i - 1], u[i]>>) /\ S = {parts[i] : i \in 1..k}
  BY DEF Between
<1> USE <1>a, <1>b
<1>1. u[0] \in Nat /\ u[k] \in Nat /\ r[1] = u[0] /\ r[2] = u[k]
  OBVIOUS
<1>2. ASSUME NEW i \in 0..k, NEW j \in 0..k, i <= j PROVE u[i] <= u[j]
  <2>1. u[i] \in Nat /\ u[j] \in Nat
    OBVIOUS
  <2>2. CASE i = j
    BY <2>1, <2>2
  <2>3. CASE i < j
    BY <2>1, <2>3
  <2> QED
    BY <1>2, <2>2, <2>3
<1>3. ASSUME NEW i \in 1..k
      PROVE  /\ parts[i] \in Nat \X Nat /\ parts[i][1] = u[i - 1] /\ parts[i][2] = u[i]
             /\ u[i - 1] \in Nat /\ u[i] \in Nat /\ u[i - 1] < u[i]
             /\ u[0] <= u[i - 1] /\ u[i] <= u[k]
  <2>1. PICK h \in 0..k : h = i - 1
    OBVIOUS
  <2>2. h < i /\ i \in 0..k /\ 0 <= h /\ i <= k /\ 0 \in 0..k /\ k \in 0..k
    BY <2>1
  <2>3. u[h] < u[i] /\ u[0] <= u[h] /\ u[i] <= u[k] /\ u[h] \in Nat /\ u[i] \in Nat
    BY <1>2, <2>2
  <2>4. parts[i] = <<u[h], u[i]>>
    BY <2>1
  <2>5. parts[i] \in Nat \X Nat /\ parts[i][1] = u[h] /\ parts[i][2] = u[i]
    BY <2>3, <2>4
  <2> QED
    BY <2>1, <2>3, <2>5
<1>4. S \subseteq Parts(r)
  <2>1. ASSUME NEW i \in 1..k PROVE parts[i] \in Parts(r)
    BY <1>1, <1>3 DEF Parts
  <2> QED
    BY <2>1
<1>5. ASSUME NEW i \in 1..k, NEW j \in 1..k, i < j
      PROVE  Apart(parts[i], parts[j]) /\ Apart(parts[j], parts[i]) /\ parts[i] # parts[j]
  <2>1. PICK h \in 0..k : h = j - 1
    OBVIOUS
  <2>2. i \in 0..k /\ i <= h
    BY <1>5, <2>1
  <2>3. u[i] <= u[j - 1]
    BY <1>2, <2>1, <2>2
  <2>4. parts[i][2] <= parts[j][1]
    BY <1>3, <2>3
  <2>5. parts[i] # parts[j]
    <3>1. parts[i][2] = u[i] /\ parts[j][2] = u[j] /\ u[i] \in Nat /\ u[j] \in Nat
      BY <1>3
    <3>2. u[i] < u[j]
      BY <1>5, <2>2
    <3> QED
      BY <3>1, <3>2
  <2> QED
    BY <2>4, <2>5 DEF Apart
<1>6. \A i, j \in 1..k : parts[i] = parts[j] => i = j
  <2>1. \A i, j \in 1..k : i < j \/ j < i \/ i = j
    OBVIOUS
  <2> QED
    BY <1>5, <2>1
<1>7. \A i, j \in 1..k : parts[i] = parts[j] \/ Apart(parts[i], parts[j])
  <2>1. \A i, j \in 1..k : i < j \/ j < i \/ i = j
    OBVIOUS
  <2> QED
    BY <1>5, <2>1
<1>8. ASSUME NEW b \in (r[1] + 1)..r[2] PROVE \E i \in 1..k : Has(parts[i], b)
  <2>1. b \in Int /\ u[0] < b /\ b <= u[k]
    BY <1>1
  <2> DEFINE A == {i \in 0..k : b <= u[i]}
  <2>2. A \subseteq 0..k /\ k \in A
    BY <2>1
  <2>3. PICK i \in A : \A x \in A : i <= x
    <3> HIDE DEF A
    <3> QED
      BY <2>2, LeastExists
  <2>4. i \in 1..k
    <3>1. i # 0
      BY <1>1, <2>1
    <3> QED
      BY <3>1
  <2>5. PICK h \in 0..k : h = i - 1 /\ h < i
    BY <2>4
  <2>6. h \notin A
    BY <2>3, <2>5
  <2>7. u[h] < b /\ b <= u[i]
    <3>1. u[h] \in Nat
      BY <2>5
    <3> QED
      BY <2>1, <2>6, <3>1
  <2> QED
    BY <1>3, <2>4, <2>5, <2>7 DEF Has
<1>9. Disjoint(S, r)
  <2>1. ASSUME NEW x \in S, NEW y \in S PROVE x = y \/ Apart(x, y)
    <3>1. PICK i \in 1..k : x = parts[i]
      BY <1>b
    <3>2. PICK j \in 1..k : y = parts[j]
      BY <1>b
    <3> QED
      BY <1>7, <3>1, <3>2
  <2> HIDE DEF r
  <2> QED
    BY <1>4, <2>1 DEF Disjoint
<1>10. \A b \in (r[1] + 1)..r[2] : \E x \in S : Has(x, b)
  BY <1>8
<1>11. Covers(S, r)
  <2> HIDE DEF r
  <2> QED
    BY <1>9, <1>10 DEF Covers
<1> QED
  BY <1>6, <1>11 DEF Differ

LEMMA DivModFacts ==
  ASSUME NEW x \in Nat, NEW y \in Nat \ {0}
  PROVE  x = y * (x \div y) + (x % y) /\ x % y \in 0..(y - 1) /\ x \div y \in Nat
OBVIOUS

LEMMA TimesGrows ==
  ASSUME NEW a \in Nat, NEW b \in Nat, NEW n \in Nat, a < b
  PROVE  a * n + n <= b * n /\ a * n \in Nat /\ b * n \in Nat
<1>1. PICK e \in Nat : b = a + 1 + e
  OBVIOUS
<1>2. b * n = a * n + n + e * n
  BY <1>1
<1>3. a * n \in Nat /\ e * n \in Nat /\ b * n \in Nat
  OBVIOUS
<1> QED
  BY <1>2, <1>3

\* The k parts c, of which no two are the same, cover r.
Tiles(c, k, r) == c \in [1..k -> Parts(r)] /\ Covers(Range(c), r) /\ Differ(c, k)

LEMMA ChunksTile ==
  ASSUME NEW r \in Nat \X Nat, r[1] < r[2], NEW n \in Nat \ {0}, NEW c, c = Chunks(r, n)
  PROVE  \E k \in Nat \ {0} : Tiles(c, k, r)
<1>1. PICK l \in Nat, h \in Nat : r = <<l, h>> /\ r[1] = l /\ r[2] = h /\ l < h
  OBVIOUS
<1>2. PICK d \in Nat \ {0} : d = h - l
  BY <1>1
<1>3. PICK k \in Nat : k = (d + n - 1) \div n
  <2>1. PICK z \in Nat : z = d + n - 1
    OBVIOUS
  <2>2. z \div n \in Nat
    BY DivModFacts
  <2> QED
    BY <2>1, <2>2
<1>4. n * k >= d /\ n * k - n < d /\ n * k \in Nat
  <2>1. PICK z \in Nat : z = d + n - 1
    OBVIOUS
  <2>2. PICK m \in 0..(n - 1) : m = z % n
    BY DivModFacts
  <2>3. z = n * k + m
    BY <1>3, <2>1, <2>2, DivModFacts
  <2>4. PICK y \in Nat : y = n * k
    OBVIOUS
  <2> QED
    BY <2>1, <2>3, <2>4
<1>5. k # 0
  <2>1. k = 0 => n * k = 0
    OBVIOUS
  <2> QED
    BY <1>4, <2>1
<1> DEFINE f(i) == IF l + i * n < h THEN l + i * n ELSE h
           u == [i \in 0..k |-> f(i)]
<1>6. ASSUME NEW i \in 0..k, i < k PROVE i * n \in Nat /\ i * n < d
  <2>1. i \in Nat /\ i * n + n <= k * n /\ i * n \in Nat /\ k * n \in Nat
    BY <1>6, TimesGrows
  <2>2. k * n = n * k
    OBVIOUS
  <2>3. PICK x \in Nat, y \in Nat : x = i * n /\ y = n * k
    BY <1>4, <2>1
  <2>4. x + n <= y /\ y - n < d
    BY <1>4, <2>1, <2>2, <2>3
  <2> QED
    BY <2>3, <2>4
<1>7. ASSUME NEW i \in 0..k, i < k PROVE u[i] = l + i * n /\ u[i] \in Nat /\ u[i] < h
  <2>1. PICK x \in Nat : x = i * n /\ x < d
    BY <1>6, <1>7
  <2>2. l + x < h
    BY <1>2, <2>1
  <2> QED
    BY <2>1, <2>2
<1>8. u[k] = h
  <2>1. PICK y \in Nat : y = n * k /\ y = k * n /\ y >= d
    BY <1>4
  <2>2. ~(l + y < h)
    BY <1>2, <2>1
  <2> QED
    BY <2>1, <2>2
<1>9. u \in [0..k -> Nat]
  <2>1. ASSUME NEW i \in 0..k PROVE f(i) \in Nat
    <3>1. i * n \in Nat
      OBVIOUS
    <3> QED
      BY <3>1
  <2> QED
    BY <2>1
<1>10. ASSUME NEW i \in 0..k, NEW j \in 0..k, i < j PROVE u[i] < u[j]
  <2>1. CASE j = k
    <3>1. i < k
      BY <1>10, <2>1
    <3> QED
      BY <1>7, <1>8, <2>1, <3>1
  <2>2. CASE j # k
    <3>1. i < k /\ j < k
      BY <1>10, <2>2
    <3>2. u[i] = l + i * n /\ u[j] = l + j * n
      BY <1>7, <3>1
    <3>3. i * n + n <= j * n /\ i * n \in Nat /\ j * n \in Nat
      BY <1>10, TimesGrows
    <3> HIDE DEF u
    <3> QED
      BY <3>2, <3>3
  <2> QED
    BY <2>1, <2>2
<1>11. u[0] = l
  <2>1. 0 < k /\ 0 \in 0..k /\ 0 * n = 0
    BY <1>5
  <2>2. u[0] = l + 0 * n
    BY <1>7, <2>1
  <2> QED
    BY <2>1, <2>2
<1>12. DOMAIN Chunks(r, n) = 1..k
  BY <1>1, <1>2, <1>3 DEF Chunks, Blocks
<1>13. ASSUME NEW i \in 1..k PROVE Chunks(r, n)[i] = <<u[i - 1], u[i]>>
  <2>1. Chunks(r, n)[i] = <<l + (i - 1) * n, f(i)>>
    BY <1>1, <1>12 DEF Chunks
  <2>2. i - 1 \in 0..k /\ i - 1 < k /\ i \in 0..k
    OBVIOUS
  <2>3. u[i - 1] = l + (i - 1) * n
    BY <1>7, <2>2
  <2>4. u[i] = f(i)
    BY <2>2
  <2> QED
    BY <2>1, <2>3, <2>4
<1>14. PICK parts, v : parts = Chunks(r, n) /\ v = u
  OBVIOUS
<1>s. PICK S : S = {parts[i] : i \in 1..k}
  OBVIOUS
<1>15. /\ Covers(S, <<u[0], u[k]>>)
       /\ \A i, j \in 1..k : parts[i] = parts[j] => i = j
  <2> HIDE DEF u
  <2>1. k \in Nat \ {0}
    BY <1>5
  <2>2. \A i \in 1..k : parts[i] = <<v[i - 1], v[i]>>
    BY <1>13, <1>14
  <2>3. \A i, j \in 0..k : i < j => v[i] < v[j]
    BY <1>10, <1>14
  <2>4. v \in [0..k -> Nat]
    BY <1>9, <1>14
  <2>5. Rising(v, k) /\ Between(v, k, parts, S)
    BY <1>s, <2>2, <2>3, <2>4 DEF Rising, Between
  <2>6. Covers(S, <<v[0], v[k]>>) /\ Differ(parts, k)
    BY <2>1, <2>5, ChainCovers
  <2> QED
    BY <1>14, <2>6 DEF Differ
<1>16. Covers(S, r)
  BY <1>1, <1>8, <1>11, <1>15
<1>17. Chunks(r, n) \in [1..k -> Parts(r)]
  <2>1. \A i \in 1..k : parts[i] \in Parts(r)
    BY <1>16, <1>s DEF Covers, Disjoint
  <2>2. Chunks(r, n) = [i \in 1..k |-> parts[i]]
    BY <1>12, <1>14 DEF Chunks
  <2> QED
    BY <2>1, <2>2
<1>18. k \in Nat \ {0}
  BY <1>5
<1>19. Tiles(c, k, r)
  <2>1. c \in [1..k -> Parts(r)]
    BY <1>17
  <2>2. S = Range(c)
    BY <1>14, <1>s, <2>1 DEF Range
  <2> QED
    BY <1>14, <1>15, <1>16, <2>1, <2>2 DEF Tiles, Differ
<1> QED
  BY <1>18, <1>19

LEMMA PreflightsTile ==
  ASSUME NEW r \in Nat \X Nat, r[1] < r[2], NEW n \in Nat \ {0}
  PROVE  Covers(Range(Preflights(r, n)), r)
<1>1. PICK l \in Nat, h \in Nat : r = <<l, h>> /\ r[1] = l /\ r[2] = h /\ l < h
  OBVIOUS
<1>2. PICK d \in Nat \ {0} : d = h - l /\ d = Blocks(r)
  BY <1>1 DEF Blocks
<1>3. PICK base \in Nat, extra \in 0..(n - 1) : base = d \div n /\ extra = d % n /\ d = n * base + extra
  <2>1. d \in Nat /\ d = n * (d \div n) + (d % n) /\ d % n \in 0..(n - 1) /\ d \div n \in Nat
    BY DivModFacts
  <2>2. PICK y, x : y = d \div n /\ x = d % n
    OBVIOUS
  <2>3. d = n * y + x /\ x \in 0..(n - 1) /\ y \in Nat
    BY <2>1, <2>2
  <2> QED
    BY <2>2, <2>3
<1>4. PICK k \in Nat : k = IF base = 0 THEN extra ELSE n
  OBVIOUS
<1>5. base = 0 => extra = d
  <2>1. base = 0 => n * base = 0
    OBVIOUS
  <2> QED
    BY <1>3, <2>1
<1>6. k \in Nat \ {0}
  BY <1>4, <1>5
<1> DEFINE low(i) == IF i < extra THEN i ELSE extra
           f(i) == l + i * base + low(i)
           u == [i \in 0..k |-> f(i)]
<1>7. ASSUME NEW i \in 0..k PROVE i * base \in Nat /\ low(i) \in Nat /\ f(i) \in Nat
  <2>1. i * base \in Nat
    OBVIOUS
  <2>2. low(i) \in Nat
    OBVIOUS
  <2> QED
    BY <2>1, <2>2
<1>8. ASSUME NEW i \in 0..k, NEW j \in 0..k, i < j PROVE f(i) < f(j)
  <2>1. low(i) <= low(j) /\ low(i) \in Nat /\ low(j) \in Nat
    BY <1>8
  <2>2. i * base + base <= j * base /\ i * base \in Nat /\ j * base \in Nat
    BY <1>8, TimesGrows
  <2>3. PICK x \in Nat, y \in Nat, v \in Nat, w \in Nat :
          x = i * base /\ y = j * base /\ v = low(i) /\ w = low(j)
    BY <2>1, <2>2
  <2>4. f(i) = l + x + v /\ f(j) = l + y + w
    BY <2>3
  <2>5. CASE base = 0
    <3>1. v < w
      BY <1>4, <1>8, <2>3, <2>5
    <3>2. x <= y
      BY <2>2, <2>3
    <3> HIDE DEF f
    <3> QED
      BY <2>4, <3>1, <3>2
  <2>6. CASE base # 0
    <3>1. x < y /\ v <= w
      BY <2>1, <2>2, <2>3, <2>6
    <3> HIDE DEF f
    <3> QED
      BY <2>4, <3>1
  <2> QED
    BY <2>5, <2>6
<1>9. Rising(u, k)
  <2>1. u \in [0..k -> Nat]
    BY <1>7
  <2>2. \A i, j \in 0..k : i < j => u[i] < u[j]
    <3> HIDE DEF f
    <3> QED
      BY <1>8
  <2> HIDE DEF u
  <2> QED
    BY <2>1, <2>2 DEF Rising
<1>10. u[0] = l
  <2>1. 0 * base = 0 /\ low(0) = 0
    OBVIOUS
  <2>2. f(0) = l + 0 + 0
    BY <2>1
  <2> QED
    BY <2>2
<1>11. u[k] = h
  <2>1. u[k] = l + k * base + low(k)
    OBVIOUS
  <2>2. CASE base = 0
    <3>1. k * base = 0 /\ low(k) = d
      BY <1>4, <1>5, <2>2
    <3> HIDE DEF u, low
    <3> QED
      BY <1>2, <2>1, <3>1
  <2>3. CASE base # 0
    <3>1. PICK y \in Nat : y = n * base /\ y = k * base
      BY <1>4, <2>3
    <3>2. low(k) = extra
      BY <1>4, <2>3
    <3>3. d = y + extra
      BY <1>3, <3>1
    <3>4. u[k] = l + y + extra
      BY <2>1, <3>1, <3>2
    <3> HIDE DEF u, low
    <3> QED
      BY <1>2, <3>3, <3>4
  <2> QED
    BY <2>2, <2>3
<1>12. PICK parts : parts = Preflights(r, n)
  OBVIOUS
<1>13. parts = [i \in 1..k |-> <<f(i - 1), f(i)>>]
  BY <1>1, <1>2, <1>3, <1>4, <1>12 DEF Preflights
<1>14. Between(u, k, parts, Range(parts))
  <2>1. DOMAIN parts = 1..k
    BY <1>13
  <2>2. ASSUME NEW i \in 1..k PROVE parts[i] = <<u[i - 1], u[i]>>
    <3>1. i \in 0..k /\ i - 1 \in 0..k
      OBVIOUS
    <3>2. u[i] = f(i) /\ u[i - 1] = f(i - 1)
      BY <3>1
    <3> QED
      BY <1>13, <3>2
  <2>3. Range(parts) = {parts[i] : i \in 1..k}
    BY <2>1 DEF Range
  <2> HIDE DEF u
  <2> QED
    BY <2>2, <2>3 DEF Between
<1>15. Covers(Range(parts), <<u[0], u[k]>>)
  <2> HIDE DEF u
  <2> QED
    BY <1>6, <1>9, <1>14, ChainCovers
<1> QED
  BY <1>1, <1>10, <1>11, <1>12, <1>15

-----------------------------------------------------------------------------
(***************************************************************************)
(* Sequences without repetition, and cardinalities.                        *)
(***************************************************************************)

LEMMA AppendRange ==
  ASSUME NEW S, NEW q \in Seq(S), NEW t \in S
  PROVE  /\ Append(q, t) \in Seq(S) /\ Range(Append(q, t)) = Range(q) \cup {t}
         /\ IsInjective(q) /\ t \notin Range(q) => IsInjective(Append(q, t))
<1>1. PICK n \in Nat : n = Len(q) /\ DOMAIN q = 1..n
  OBVIOUS
<1>2. PICK p : p = Append(q, t)
  OBVIOUS
<1>3. /\ p \in Seq(S) /\ DOMAIN p = 1..(n + 1) /\ p[n + 1] = t
      /\ \A i \in 1..n : p[i] = q[i]
  BY <1>1, <1>2
<1>4. \A i \in 1..(n + 1) : i \in 1..n \/ i = n + 1
  OBVIOUS
<1>5. Range(p) = Range(q) \cup {t}
  <2>1. \A i \in 1..n : i \in 1..(n + 1)
    OBVIOUS
  <2>2. n + 1 \in 1..(n + 1)
    OBVIOUS
  <2> QED
    BY <1>1, <1>3, <1>4, <2>1, <2>2 DEF Range
<1>6. ASSUME IsInjective(q), t \notin Range(q) PROVE IsInjective(p)
  <2> SUFFICES ASSUME NEW i \in 1..(n + 1), NEW k \in 1..(n + 1), p[i] = p[k] PROVE i = k
    BY <1>3 DEF IsInjective
  <2>1. CASE i \in 1..n /\ k \in 1..n
    BY <1>1, <1>3, <1>6, <2>1 DEF IsInjective
  <2>2. CASE i = n + 1 /\ k \in 1..n
    <3>1. q[k] = t
      BY <1>3, <2>2
    <3> QED
      BY <1>1, <1>6, <2>2, <3>1 DEF Range
  <2>3. CASE k = n + 1 /\ i \in 1..n
    <3>1. q[i] = t
      BY <1>3, <2>3
    <3> QED
      BY <1>1, <1>6, <2>3, <3>1 DEF Range
  <2> QED
    BY <1>4, <2>1, <2>2, <2>3
<1> QED
  BY <1>2, <1>3, <1>5, <1>6

LEMMA TailRange ==
  ASSUME NEW S, NEW q \in Seq(S), q # <<>>, IsInjective(q)
  PROVE  /\ Tail(q) \in Seq(S) /\ IsInjective(Tail(q)) /\ Head(q) \in Range(q) /\ Head(q) \in S
         /\ Range(Tail(q)) = Range(q) \ {Head(q)} /\ Len(Tail(q)) = Len(q) - 1
<1>1. PICK n \in Nat : n = Len(q) /\ DOMAIN q = 1..n /\ n >= 1
  OBVIOUS
<1>2. PICK p, x : p = Tail(q) /\ x = Head(q)
  OBVIOUS
<1>3. /\ p \in Seq(S) /\ Len(p) = n - 1 /\ DOMAIN p = 1..(n - 1) /\ x = q[1]
      /\ \A i \in 1..(n - 1) : p[i] = q[i + 1]
  BY <1>1, <1>2
<1>4. 1 \in 1..n /\ \A i \in 1..(n - 1) : i + 1 \in 1..n /\ i + 1 # 1
  BY <1>1
<1>5. \A i \in 1..n : i = 1 \/ (i - 1 \in 1..(n - 1) /\ (i - 1) + 1 = i)
  BY <1>1
<1>6. x \in Range(q) /\ x \in S
  BY <1>1, <1>3, <1>4 DEF Range
<1>7. IsInjective(p)
  <2> SUFFICES ASSUME NEW i \in 1..(n - 1), NEW k \in 1..(n - 1), p[i] = p[k] PROVE i = k
    BY <1>3 DEF IsInjective
  <2>1. q[i + 1] = q[k + 1]
    BY <1>3
  <2>2. i + 1 = k + 1
    BY <1>1, <1>4, <2>1 DEF IsInjective
  <2> QED
    BY <2>2
<1>8. Range(p) = Range(q) \ {x}
  <2>1. ASSUME NEW y \in Range(p) PROVE y \in Range(q) /\ y # x
    <3>1. PICK i \in 1..(n - 1) : y = q[i + 1]
      BY <1>3 DEF Range
    <3>2. y # q[1]
      BY <1>1, <1>4, <3>1 DEF IsInjective
    <3> QED
      BY <1>1, <1>3, <1>4, <3>1, <3>2 DEF Range
  <2>2. ASSUME NEW y \in Range(q), y # x PROVE y \in Range(p)
    <3>1. PICK i \in 1..n : y = q[i]
      BY <1>1 DEF Range
    <3>2. i # 1
      BY <1>3, <2>2, <3>1
    <3>3. PICK k \in 1..(n - 1) : k + 1 = i
      BY <1>5, <3>2
    <3>4. y = p[k]
      BY <1>3, <3>1, <3>3
    <3> QED
      BY <1>3, <3>4 DEF Range
  <2> QED
    BY <2>1, <2>2
<1> QED
  BY <1>1, <1>2, <1>3, <1>6, <1>7, <1>8

LEMMA ConcatRange ==
  ASSUME NEW S, NEW q \in Seq(S), NEW p \in Seq(S)
  PROVE  /\ q \o p \in Seq(S) /\ Range(q \o p) = Range(q) \cup Range(p)
         /\ IsInjective(q) /\ IsInjective(p) /\ Range(q) \cap Range(p) = {} => IsInjective(q \o p)
<1>1. PICK n \in Nat, m \in Nat : n = Len(q) /\ DOMAIN q = 1..n /\ m = Len(p) /\ DOMAIN p = 1..m
  OBVIOUS
<1>2. PICK c : c = q \o p
  OBVIOUS
<1>3. /\ c \in Seq(S) /\ DOMAIN c = 1..(n + m)
      /\ \A i \in 1..n : c[i] = q[i] /\ i \in 1..(n + m)
  BY <1>1, <1>2
<1>4. \A i \in 1..m : c[n + i] = p[i] /\ n + i \in 1..(n + m)
  <2> SUFFICES ASSUME NEW i \in 1..m PROVE c[n + i] = p[i] /\ n + i \in 1..(n + m)
    OBVIOUS
  <2>1. n + i \in 1..(n + m) /\ ~(n + i <= n) /\ (n + i) - n = i
    BY <1>1
  <2> QED
    BY <1>1, <1>2, <2>1
<1>5. \A i \in 1..(n + m) : i \in 1..n \/ (\E k \in 1..m : i = n + k)
  <2> SUFFICES ASSUME NEW i \in 1..(n + m), i \notin 1..n PROVE \E k \in 1..m : i = n + k
    OBVIOUS
  <2>1. i - n \in 1..m /\ n + (i - n) = i
    BY <1>1
  <2> QED
    BY <2>1
<1>6. Range(c) = Range(q) \cup Range(p)
  <2>1. ASSUME NEW y \in Range(c) PROVE y \in Range(q) \cup Range(p)
    <3>1. PICK i \in 1..(n + m) : y = c[i]
      BY <1>3 DEF Range
    <3>2. CASE i \in 1..n
      BY <1>1, <1>3, <3>1, <3>2 DEF Range
    <3>3. CASE \E k \in 1..m : i = n + k
      BY <1>1, <1>4, <3>1, <3>3 DEF Range
    <3> QED
      BY <1>5, <3>2, <3>3
  <2>2. ASSUME NEW y \in Range(q) PROVE y \in Range(c)
    BY <1>1, <1>3 DEF Range
  <2>3. ASSUME NEW y \in Range(p) PROVE y \in Range(c)
    <3>1. PICK i \in 1..m : y = p[i]
      BY <1>1, <2>3 DEF Range
    <3>2. n + i \in 1..(n + m)
      BY <1>1, <3>1
    <3>3. y = c[n + i]
      BY <1>4, <3>1
    <3> QED
      BY <1>3, <3>2, <3>3 DEF Range
  <2> QED
    BY <2>1, <2>2, <2>3
<1>7. ASSUME IsInjective(q), IsInjective(p), Range(q) \cap Range(p) = {} PROVE IsInjective(c)
  <2> SUFFICES ASSUME NEW i \in 1..(n + m), NEW k \in 1..(n + m), c[i] = c[k] PROVE i = k
    BY <1>3 DEF IsInjective
  <2>1. CASE i \in 1..n /\ k \in 1..n
    BY <1>1, <1>3, <1>7, <2>1 DEF IsInjective
  <2>2. CASE i \notin 1..n /\ k \notin 1..n
    <3>1. PICK a \in 1..m, b \in 1..m : i = n + a /\ k = n + b
      BY <1>5, <2>2
    <3>2. p[a] = p[b]
      BY <1>4, <3>1
    <3>3. a = b
      BY <1>1, <1>7, <3>2 DEF IsInjective
    <3> QED
      BY <3>1, <3>3
  <2>3. CASE i \in 1..n /\ k \notin 1..n
    <3>1. PICK b \in 1..m : k = n + b
      BY <1>5, <2>3
    <3>2. q[i] = p[b]
      BY <1>3, <1>4, <2>3, <3>1
    <3> QED
      BY <1>1, <1>7, <2>3, <3>2 DEF Range
  <2>4. CASE i \notin 1..n /\ k \in 1..n
    <3>1. PICK b \in 1..m : i = n + b
      BY <1>5, <2>4
    <3>2. q[k] = p[b]
      BY <1>3, <1>4, <2>4, <3>1
    <3> QED
      BY <1>1, <1>7, <2>4, <3>2 DEF Range
  <2> QED
    BY <2>1, <2>2, <2>3, <2>4
<1> QED
  BY <1>2, <1>3, <1>6, <1>7

\* An injective image has as many elements.
LEMMA ImageSize ==
  ASSUME NEW S, IsFiniteSet(S), NEW f, DOMAIN f = S, f = [x \in S |-> f[x]],
         \A x, y \in S : f[x] = f[y] => x = y, NEW T, T = {f[x] : x \in S}
  PROVE  IsFiniteSet(T) /\ Cardinality(T) = Cardinality(S)
<1>1. f \in [S -> T]
  OBVIOUS
<1>2. f \in Surjection(S, T)
  BY <1>1 DEF Surjection
<1>3. f \in Injection(S, T)
  BY <1>1 DEF Injection, IsInjective
<1> QED
  BY <1>2, <1>3, FS_Surjection

-----------------------------------------------------------------------------
(***************************************************************************)
(* What a step leaves alone.                                               *)
(***************************************************************************)

LEMMA RequestFacts ==
  ASSUME request \in Requests
  PROVE  /\ request.lo \in Nat /\ request.hi \in Nat /\ request.lo < request.hi
         /\ Whole = <<request.lo, request.hi>> /\ Whole \in Nat \X Nat
         /\ Whole[1] = request.lo /\ Whole[2] = request.hi /\ Whole \in Parts(Whole)
         /\ Final \in Nat \X Nat /\ Final[1] = request.hi /\ Final[2] = request.hi
         /\ Final \notin Parts(Whole) /\ Blocks(Final) = 0
         /\ request.maxExecutions \in Nat /\ request.maxDerivations \in Nat \ {0}
         /\ request.preflights \in Nat
         /\ request.skipAwait \in BOOLEAN /\ request.skipDerivation \in BOOLEAN
<1>1. /\ request.lo \in Nat /\ request.hi \in Nat /\ request.lo < request.hi
      /\ request.maxExecutions \in Nat /\ request.maxDerivations \in Nat \ {0}
      /\ request.preflights \in Nat
      /\ request.skipAwait \in BOOLEAN /\ request.skipDerivation \in BOOLEAN
  BY ProverAssumption
<1>2. PICK l \in Nat, h \in Nat : l = request.lo /\ h = request.hi /\ l < h
  BY <1>1
<1>3. Whole = <<l, h>> /\ Final = <<h, h>>
  BY <1>2 DEF Whole, Final
<1> QED
  BY <1>1, <1>2, <1>3 DEF Parts, Blocks

\* Proofs and errors are never lost, and the request stays.
Kept == request' = request /\ files \subseteq files' /\ errors \subseteq errors'

LEMMA WholeKept ==
  ASSUME request' = request
  PROVE  Whole' = Whole /\ Final' = Final
BY DEF Whole, Final

LEMMA TasksKept ==
  ASSUME request' = request, NEW j
  PROVE  /\ Complete(j)' = Complete(j) /\ DerivationOnly(j)' = DerivationOnly(j)
         /\ Combined(j)' = Combined(j) /\ \A r : ExecutionOnly(j, r)' = ExecutionOnly(j, r)
BY DEF Complete, DerivationOnly, Combined, ExecutionOnly

LEMMA IsFileKept ==
  ASSUME Kept, NEW n, IsFile(n)
  PROVE  IsFile(n)'
BY DEF Kept, IsFile

LEMMA CauseKept ==
  ASSUME Kept, Cause
  PROVE  Cause'
BY DEF Kept, Cause

LEMMA RefusalKept ==
  ASSUME request' = request, NEW t
  PROVE  Refusal(t)' = Refusal(t) /\ Name(t)' = Name(t)
<1>1. Whole' = Whole
  BY WholeKept
<1>2. WitnessSize(t)' = WitnessSize(t) /\ NumExecutions(t)' = NumExecutions(t)
  BY DEF WitnessSize, NumExecutions
<1> QED
  BY <1>1, <1>2 DEF Refusal, Name

LEMMA AnswerKept ==
  ASSUME Kept, NEW m, IsAnswer(m)
  PROVE  IsAnswer(m)'
<1>1. Refusal(m.task)' = Refusal(m.task) /\ Name(m.task)' = Name(m.task) /\ request' = request
  BY RefusalKept DEF Kept
<1>2. IsFile(Name(m.task)) => IsFile(Name(m.task))'
  BY <1>1, IsFileKept
<1> QED
  BY <1>1, <1>2 DEF IsAnswer, Kept

LEMMA TaskKept ==
  ASSUME request' = request, pc = "stitch" => pc' = "stitch", NEW t, IsTask(t)
  PROVE  IsTask(t)'
<1>1. Whole' = Whole /\ Final' = Final
  BY WholeKept
<1>2. PICK j : j = [range |-> t.job, snark |-> t.snark]
  OBVIOUS
<1>3. /\ Complete(j)' = Complete(j) /\ DerivationOnly(j)' = DerivationOnly(j)
      /\ Combined(j)' = Combined(j) /\ ExecutionOnly(j, t.range)' = ExecutionOnly(j, t.range)
  BY TasksKept
<1> QED
  BY <1>1, <1>2, <1>3 DEF IsTask

LEMMA ProvenKept ==
  ASSUME Kept, NEW r
  PROVE  /\ Proven(r) => Proven(r)'
         /\ IsExecuted(r) => IsExecuted(r)'
         /\ \A b : BlockExecuted(b) => BlockExecuted(b)'
<1>1. Whole' = Whole /\ Final' = Final
  BY WholeKept DEF Kept
<1>2. PICK n : n = [execution |-> FALSE, range |-> IF r = Final THEN Whole ELSE r]
  OBVIOUS
<1>3. Proven(r) => Proven(r)'
  BY <1>1, <1>2, IsFileKept DEF Proven
<1>4. IsExecuted(r) => IsExecuted(r)'
  BY IsFileKept DEF IsExecuted
<1> QED
  BY <1>3, <1>4 DEF BlockExecuted, Kept

LEMMA ResultKept ==
  ASSUME Kept, NEW m, ResultInv(m)
  PROVE  ResultInv(m)'
<1>1. request' = request /\ (Cause => Cause')
  BY CauseKept DEF Kept
<1>2. Proven(m.range) => Proven(m.range)'
  BY ProvenKept
<1>3. \A b : BlockExecuted(b) => BlockExecuted(b)'
  BY ProvenKept
<1> QED
  BY <1>1, <1>2, <1>3 DEF ResultInv

LEMMA PartsOfMine ==
  ASSUME NEW j
  PROVE  PartsOf(j) = {t.range : t \in {u \in Mine(j) : u.kind = "execution"}}
BY DEF PartsOf, Mine, Tasks, QueueTasks, BusyTasks, InboxTasks

LEMMA CountedKept ==
  ASSUME Kept, NEW j, Counted(j), PartsOf(j)' = PartsOf(j)
  PROVE  Counted(j)'
<1>1. request' = request
  BY DEF Kept
<1>2. ASSUME NEW r \in j.done PROVE IsExecuted(r)'
  <2>1. IsExecuted(r)
    BY DEF Counted
  <2> QED
    BY <2>1, ProvenKept
<1> QED
  BY <1>1, <1>2 DEF Counted

LEMMA JobKept ==
  ASSUME Kept, NEW j, JobInv(j), Mine(j)' = Mine(j)
  PROVE  JobInv(j)'
<1>1. request' = request /\ Whole' = Whole
  BY WholeKept DEF Kept
<1>2. PartsOf(j)' = PartsOf(j)
  <2>1. PartsOf(j) = {t.range : t \in {u \in Mine(j) : u.kind = "execution"}}
    BY PartsOfMine
  <2>2. PartsOf(j)' = {t.range : t \in {u \in Mine(j)' : u.kind = "execution"}}
    BY DEF PartsOf, Mine, Tasks, QueueTasks, BusyTasks, InboxTasks
  <2> QED
    BY <2>1, <2>2
<1>3. Counted(j) => Counted(j)'
  BY <1>2, CountedKept
<1>4. /\ Complete(j)' = Complete(j) /\ DerivationOnly(j)' = DerivationOnly(j)
      /\ Combined(j)' = Combined(j) /\ \A r : ExecutionOnly(j, r)' = ExecutionOnly(j, r)
  BY <1>1, TasksKept
<1> QED
  BY <1>1, <1>3, <1>4 DEF JobInv

LEMMA MineKept ==
  ASSUME Tasks' \subseteq Tasks, \A t \in Tasks : t.job \in JobRanges => t \in Tasks', NEW j \in jobs
  PROVE  Mine(j)' = Mine(j)
<1>1. Mine(j) = {t \in Tasks : t.job = j.range} /\ Mine(j)' = {t \in Tasks' : t.job = j.range}
  BY DEF Mine
<1>2. j.range \in JobRanges
  BY DEF JobRanges
<1> QED
  BY <1>1, <1>2

LEMMA WaitKept ==
  ASSUME WaitInv, Kept, UNCHANGED <<loopVars, jobs>>, Tasks' \subseteq Tasks
  PROVE  WaitInv'
<1>1. /\ request' = request /\ pending' = pending /\ jobs' = jobs /\ results' = results
      /\ need' = need /\ proofs' = proofs
  BY DEF Kept, loopVars
<1>2. /\ Outstanding' = Outstanding /\ PendingRanges' = PendingRanges
      /\ JobRanges' = JobRanges /\ ResultRanges' = ResultRanges /\ Open' = Open
  BY <1>1 DEF Outstanding, PendingRanges, JobRanges, ResultRanges, Open
<1>3. HeldOnce'
  BY <1>1, <1>2 DEF WaitInv, HeldOnce
<1>4. StaleInv'
  BY <1>2 DEF WaitInv, StaleInv
<1>5. Whole' = Whole
  BY <1>1, WholeKept
<1>6. ASSUME NEW r \in proofs PROVE Proven(r)'
  <2>1. Proven(r)
    BY DEF WaitInv
  <2> QED
    BY <2>1, ProvenKept
<1>7. \A b : BlockExecuted(b) => BlockExecuted(b)'
  BY ProvenKept
<1> QED
  BY <1>1, <1>2, <1>3, <1>4, <1>5, <1>6, <1>7 DEF WaitInv

LEMMA FrameStep ==
  ASSUME ProverInv, Running, Kept, UNCHANGED <<loopVars, jobs>>, TasksInv', FilesInv',
         Tasks' \subseteq Tasks, \A t \in Tasks : t.job \in JobRanges => t \in Tasks'
  PROVE  ProverInv'
<1>1. /\ request' = request /\ pending' = pending /\ jobs' = jobs /\ results' = results
      /\ need' = need /\ proofs' = proofs /\ pc' = pc
  BY DEF Kept, loopVars
<1>2. ASSUME NEW j \in jobs PROVE JobInv(j)'
  <2>1. JobInv(j)
    BY DEF ProverInv
  <2> QED
    BY <2>1, MineKept, JobKept
<1>3. ASSUME NEW m \in results PROVE ResultInv(m)'
  <2>1. ResultInv(m)
    BY DEF ProverInv
  <2> QED
    BY <2>1, ResultKept
<1>4. pc = "wait" => WaitInv'
  BY WaitKept DEF ProverInv
<1>5. pc = "stitch" => StitchInv'
  BY <1>1, WholeKept DEF ProverInv, StitchInv
<1>6. pc' \in {"wait", "stitch"} /\ Running'
  BY <1>1 DEF Running
<1>7. DoneIsProven' /\ FailureInv'
  BY <1>6 DEF DoneIsProven, FailureInv
<1>8. request' \in Requests /\ \A j, k \in jobs' : j.range = k.range => j = k
  BY <1>1 DEF ProverInv
<1> QED
  BY <1>1, <1>2, <1>3, <1>4, <1>5, <1>6, <1>7, <1>8 DEF ProverInv

-----------------------------------------------------------------------------
(***************************************************************************)
(* The workers.                                                            *)
(***************************************************************************)

LEMMA RefusalFacts ==
  ASSUME NEW t
  PROVE  /\ Refusal(t) \in {"WitnessSizeError", "BlockCountError", "NotSeekingProof", "none"}
         /\ Refusal(t) = "none" => t.seek
         /\ Refusal(t) = "NotSeekingProof" => ~t.seek
         /\ Refusal(t) = "BlockCountError" => NumExecutions(t) > request.maxExecutions /\ ~t.force
         /\ Refusal(t) = "WitnessSizeError" => WitnessSize(t) > request.maxWitness /\ ~t.force
BY DEF Refusal

\* A task is put with the workers, or its result is on the way to a job that runs.
LEMMA TakeTasks ==
  ASSUME TasksInv, Take
  PROVE  TasksInv' /\ Tasks' = Tasks
<1>1. /\ channel \in Seq(TaskRecords) /\ IsInjective(channel) /\ channel # <<>>
      /\ channel' = Tail(channel) /\ inbox' = inbox
      /\ busy' = busy \cup {[task |-> Head(channel), saving |-> FALSE]}
  BY DEF Take, TasksInv, PlacedOnce
<1>2. /\ Tail(channel) \in Seq(TaskRecords) /\ IsInjective(Tail(channel)) /\ Head(channel) \in Range(channel)
      /\ Range(Tail(channel)) = Range(channel) \ {Head(channel)}
  BY <1>1, TailRange
<1>3. PICK x, y : x = Head(channel) /\ y = [task |-> x, saving |-> FALSE]
  OBVIOUS
<1>4. /\ QueueTasks' = QueueTasks \ {x} /\ x \in QueueTasks /\ BusyTasks' = BusyTasks \cup {x}
      /\ InboxTasks' = InboxTasks
  <2>1. QueueTasks' = QueueTasks \ {x} /\ x \in QueueTasks
    BY <1>1, <1>2, <1>3 DEF QueueTasks
  <2>2. busy' = busy \cup {y} /\ y.task = x
    BY <1>1, <1>3
  <2>3. BusyTasks' = BusyTasks \cup {x}
    BY <2>2 DEF BusyTasks
  <2> QED
    BY <1>1, <2>1, <2>3 DEF InboxTasks
<1>5. Tasks' = Tasks
  BY <1>4 DEF Tasks
<1>6. x \notin BusyTasks /\ x \notin InboxTasks
  BY <1>4 DEF TasksInv, PlacedOnce
<1>7. ASSUME NEW v \in busy', NEW w \in busy', v.task = w.task PROVE v = w
  <2>1. \A u \in busy : u.task \in BusyTasks
    BY DEF BusyTasks
  <2>2. \A u \in busy' : u \in busy \/ u = y
    BY <1>1, <1>3
  <2>3. y.task = x
    BY <1>3
  <2>4. CASE v \in busy /\ w \in busy
    BY <1>7, <2>4 DEF TasksInv, PlacedOnce
  <2> QED
    BY <1>6, <1>7, <2>1, <2>2, <2>3, <2>4
<1>8. PlacedOnce'
  BY <1>1, <1>2, <1>4, <1>6, <1>7 DEF TasksInv, PlacedOnce
<1>9. request' = request /\ pc' = pc /\ files' = files /\ errors' = errors
  BY DEF Take, loopVars, diskVars
<1>10. ASSUME NEW t \in Tasks' PROVE IsTask(t)'
  <2>1. IsTask(t)
    BY <1>5 DEF TasksInv
  <2> QED
    BY <1>9, <2>1, TaskKept
<1>11. ASSUME NEW m \in inbox' PROVE m = [task |-> m.task, outcome |-> m.outcome] /\ IsAnswer(m)'
  <2>1. m = [task |-> m.task, outcome |-> m.outcome] /\ IsAnswer(m)
    BY <1>1 DEF TasksInv
  <2>2. Kept
    BY <1>9 DEF Kept
  <2> QED
    BY <2>1, <2>2, AnswerKept
<1>12. ASSUME NEW w \in busy'
       PROVE  w = [task |-> w.task, saving |-> w.saving] /\ (w.saving => w.task.seek)
  BY <1>1 DEF TasksInv
<1> QED
  BY <1>5, <1>8, <1>10, <1>11, <1>12 DEF TasksInv

LEMMA DeliverTasks ==
  ASSUME TasksInv, NEW w \in busy, NEW o, Deliver(w, o), Kept,
         IsAnswer([task |-> w.task, outcome |-> o])'
  PROVE  /\ TasksInv' /\ Tasks' \subseteq Tasks
         /\ \A t \in Tasks : t.job \in JobRanges => t \in Tasks'
<1>1. PICK x, m : x = w.task /\ m = [task |-> x, outcome |-> o]
  OBVIOUS
<1>2. /\ busy' = busy \ {w} /\ inbox' \in {inbox, inbox \cup {m}} /\ channel' = channel
      /\ request' = request /\ pc' = pc /\ jobs' = jobs
      /\ x.job \in JobRanges => inbox' = inbox \cup {m}
  BY <1>1 DEF Deliver, loopVars, JobRanges
<1>3. x \in BusyTasks
  BY <1>1 DEF BusyTasks
<1>4. QueueTasks' = QueueTasks /\ BusyTasks' = BusyTasks \ {x}
  BY <1>1, <1>2 DEF QueueTasks, BusyTasks, TasksInv, PlacedOnce
<1>5. /\ InboxTasks' \subseteq InboxTasks \cup {x} /\ InboxTasks \subseteq InboxTasks'
      /\ x.job \in JobRanges => x \in InboxTasks'
  BY <1>1, <1>2 DEF InboxTasks
<1>6. Tasks' \subseteq Tasks /\ \A t \in Tasks : t.job \in JobRanges => t \in Tasks'
  BY <1>3, <1>4, <1>5 DEF Tasks
<1>7. x \notin QueueTasks /\ x \notin InboxTasks
  BY <1>3 DEF TasksInv, PlacedOnce
<1>8. ASSUME NEW a \in inbox', NEW b \in inbox', a.task = b.task PROVE a = b
  <2>1. \A u \in inbox : u.task \in InboxTasks
    BY DEF InboxTasks
  <2>2. \A u \in inbox' : u \in inbox \/ u = m
    BY <1>2
  <2>3. m.task = x
    BY <1>1
  <2> QED
    BY <1>7, <1>8, <2>1, <2>2, <2>3 DEF TasksInv, PlacedOnce
<1>9. PlacedOnce'
  BY <1>2, <1>4, <1>5, <1>7, <1>8 DEF TasksInv, PlacedOnce
<1>10. ASSUME NEW t \in Tasks' PROVE IsTask(t)'
  <2>1. IsTask(t)
    BY <1>6 DEF TasksInv
  <2> QED
    BY <1>2, <2>1, TaskKept
<1>11. ASSUME NEW a \in inbox' PROVE a = [task |-> a.task, outcome |-> a.outcome] /\ IsAnswer(a)'
  <2>1. CASE a \in inbox
    <3>1. a = [task |-> a.task, outcome |-> a.outcome] /\ IsAnswer(a)
      BY <2>1 DEF TasksInv
    <3> QED
      BY <3>1, AnswerKept
  <2>2. CASE a = m
    BY <1>1, <2>2
  <2> QED
    BY <1>2, <2>1, <2>2
<1>12. ASSUME NEW v \in busy'
       PROVE  v = [task |-> v.task, saving |-> v.saving] /\ (v.saving => v.task.seek)
  BY <1>2 DEF TasksInv
<1> QED
  BY <1>6, <1>9, <1>10, <1>11, <1>12 DEF TasksInv

LEMMA FilesSame ==
  ASSUME FilesInv, request' = request, files' = files
  PROVE  FilesInv'
BY WholeKept DEF FilesInv

LEMMA TakeKeeps ==
  ASSUME ProverInv, Running, Take
  PROVE  ProverInv'
<1>1. TasksInv' /\ Tasks' = Tasks
  BY TakeTasks DEF ProverInv
<1>2. Kept /\ UNCHANGED <<loopVars, jobs>> /\ files' = files /\ request' = request
  BY DEF Take, Kept, diskVars
<1>3. FilesInv'
  BY <1>2, FilesSame DEF ProverInv
<1> QED
  BY <1>1, <1>2, <1>3, FrameStep

LEMMA DeliverKeeps ==
  ASSUME ProverInv, Running, NEW w \in busy, NEW o, Deliver(w, o), Kept, FilesInv',
         IsAnswer([task |-> w.task, outcome |-> o])'
  PROVE  ProverInv'
<1>1. /\ TasksInv' /\ Tasks' \subseteq Tasks
      /\ \A t \in Tasks : t.job \in JobRanges => t \in Tasks'
  BY DeliverTasks DEF ProverInv
<1>2. UNCHANGED <<loopVars, jobs>>
  BY DEF Deliver
<1> QED
  BY <1>1, <1>2, FrameStep

LEMMA UseFileKeeps ==
  ASSUME ProverInv, Running, NEW w \in busy, UseFile(w)
  PROVE  ProverInv'
<1>1. PICK t, o, m : t = w.task /\ o = Read(t) /\ m = [task |-> t, outcome |-> o]
  OBVIOUS
<1>2. /\ t.seek /\ Deliver(w, o) /\ files' = files
      /\ errors' = IF o = "OtherError" THEN errors \cup {[outcome |-> "OtherError", task |-> t]}
                                       ELSE errors
  BY <1>1 DEF UseFile, diskVars
<1>3. request' = request
  BY <1>2 DEF Deliver
<1>4. Kept
  BY <1>2, <1>3 DEF Kept
<1>5. \/ o = "NotAwaitingProof" /\ request.skipAwait
      \/ o = "Ok" /\ IsFile(Name(t))
      \/ o = "OtherError"
  BY <1>1 DEF Read, IsFile
<1>6. IsAnswer(m)'
  <2>1. m.task = t /\ m.outcome = o
    BY <1>1
  <2>2. IsFile(Name(t)) => IsFile(Name(t))'
    BY <1>3, <1>4, RefusalKept, IsFileKept
  <2>3. o = "OtherError" => [outcome |-> o, task |-> t] \in errors'
    BY <1>2
  <2> QED
    BY <1>2, <1>3, <1>5, <2>1, <2>2, <2>3 DEF IsAnswer
<1>7. FilesInv'
  BY <1>2, <1>3, FilesSame DEF ProverInv
<1> QED
  BY <1>1, <1>2, <1>4, <1>6, <1>7, DeliverKeeps

LEMMA RefuseKeeps ==
  ASSUME ProverInv, Running, NEW w \in busy, Refuse(w)
  PROVE  ProverInv'
<1>1. PICK t, o, m : t = w.task /\ o = Refusal(t) /\ m = [task |-> t, outcome |-> o]
  OBVIOUS
<1>2. o # "none" /\ Deliver(w, o) /\ files' = files /\ errors' = errors
  BY <1>1 DEF Refuse, diskVars
<1>3. request' = request
  BY <1>2 DEF Deliver
<1>4. Kept
  BY <1>2, <1>3 DEF Kept
<1>5. IsAnswer(m)
  BY <1>1, <1>2 DEF IsAnswer
<1>6. IsAnswer(m)'
  BY <1>4, <1>5, AnswerKept
<1>7. FilesInv'
  BY <1>2, <1>3, FilesSame DEF ProverInv
<1> QED
  BY <1>1, <1>2, <1>4, <1>6, <1>7, DeliverKeeps

LEMMA LeaveKeeps ==
  ASSUME ProverInv, Running, NEW w \in busy, Leave(w)
  PROVE  ProverInv'
<1>1. PICK t, m : t = w.task /\ m = [task |-> t, outcome |-> "NotAwaitingProof"]
  OBVIOUS
<1>2. /\ Refusal(t) = "none" /\ request.skipAwait /\ Deliver(w, "NotAwaitingProof")
      /\ files' = files /\ errors' = errors
  BY <1>1 DEF Leave, diskVars
<1>3. request' = request
  BY <1>2 DEF Deliver
<1>4. Kept
  BY <1>2, <1>3 DEF Kept
<1>5. IsAnswer(m)
  <2>1. t.seek
    BY <1>2, RefusalFacts
  <2>2. m.task = t /\ m.outcome = "NotAwaitingProof"
    BY <1>1
  <2> QED
    BY <1>2, <2>1, <2>2 DEF IsAnswer
<1>6. IsAnswer(m)'
  BY <1>4, <1>5, AnswerKept
<1>7. FilesInv'
  BY <1>2, <1>3, FilesSame DEF ProverInv
<1> QED
  BY <1>1, <1>2, <1>4, <1>6, <1>7, DeliverKeeps

LEMMA FailKeeps ==
  ASSUME ProverInv, Running, NEW w \in busy, NEW o \in {"ExecutionError", "OtherError"}, Fail(w, o)
  PROVE  ProverInv'
<1>1. PICK t, m : t = w.task /\ m = [task |-> t, outcome |-> o]
  OBVIOUS
<1>2. /\ o = "OtherError" \/ Refusal(t) = "none"
      /\ Deliver(w, o) /\ files' = files
      /\ errors' = errors \cup {[outcome |-> o, task |-> t]}
  BY <1>1 DEF Fail, diskVars
<1>3. request' = request
  BY <1>2 DEF Deliver
<1>4. Kept
  BY <1>2, <1>3 DEF Kept
<1>5. IsAnswer(m)'
  <2>1. o = "OtherError" \/ t.seek
    BY <1>2, RefusalFacts
  <2>2. m.task = t /\ m.outcome = o
    BY <1>1
  <2>3. [outcome |-> o, task |-> t] \in errors'
    BY <1>2
  <2> QED
    BY <2>1, <2>2, <2>3 DEF IsAnswer
<1>6. FilesInv'
  BY <1>2, <1>3, FilesSame DEF ProverInv
<1> QED
  BY <1>1, <1>2, <1>4, <1>5, <1>6, DeliverKeeps

LEMMA CreateKeeps ==
  ASSUME ProverInv, Running, NEW w \in busy, Create(w)
  PROVE  ProverInv'
<1>1. PICK t, v : t = w.task /\ v = [w EXCEPT !.saving = TRUE]
  OBVIOUS
<1>2. /\ MustRun(w) /\ Refusal(t) = "none" /\ files' = {f \in files : f.name # Name(t)}
      /\ busy' = (busy \ {w}) \cup {v} /\ request' = request /\ channel' = channel /\ inbox' = inbox
      /\ errors' = errors /\ UNCHANGED <<loopVars, jobs>> /\ pc' = pc
  BY <1>1 DEF Create, loopVars
<1>3. t.seek
  BY <1>2, RefusalFacts
<1>4. files' = files
  BY <1>1, <1>2, <1>3 DEF MustRun, Exists
<1>5. w = [task |-> t, saving |-> w.saving] /\ TasksInv
  BY <1>1 DEF ProverInv, TasksInv
<1>6. v = [task |-> t, saving |-> TRUE]
  BY <1>1, <1>5
<1>7. /\ QueueTasks' = QueueTasks /\ InboxTasks' = InboxTasks
  BY <1>2 DEF QueueTasks, InboxTasks
<1>8. BusyTasks' = BusyTasks
  <2>1. v.task = t /\ w.task = t /\ t \in BusyTasks /\ t \in BusyTasks'
    BY <1>1, <1>2, <1>6 DEF BusyTasks
  <2> QED
    BY <1>2, <2>1 DEF BusyTasks
<1>9. Tasks' = Tasks
  BY <1>7, <1>8 DEF Tasks
<1>10. ASSUME NEW a \in busy', NEW b \in busy', a.task = b.task PROVE a = b
  <2>1. \A u \in busy' : (u \in busy /\ u # w) \/ u = v
    BY <1>2
  <2>2. v.task = w.task
    BY <1>1, <1>6
  <2>3. \A x, y \in busy : x.task = y.task => x = y
    BY <1>5 DEF TasksInv, PlacedOnce
  <2> QED
    BY <1>10, <2>1, <2>2, <2>3
<1>11. PlacedOnce'
  BY <1>2, <1>5, <1>7, <1>8, <1>10 DEF TasksInv, PlacedOnce
<1>12. Kept
  BY <1>2, <1>4 DEF Kept
<1>13. ASSUME NEW u \in Tasks' PROVE IsTask(u)'
  <2>1. IsTask(u)
    BY <1>5, <1>9 DEF TasksInv
  <2> QED
    BY <1>2, <2>1, TaskKept
<1>14. ASSUME NEW m \in inbox' PROVE m = [task |-> m.task, outcome |-> m.outcome] /\ IsAnswer(m)'
  <2>1. m = [task |-> m.task, outcome |-> m.outcome] /\ IsAnswer(m)
    BY <1>2, <1>5 DEF TasksInv
  <2> QED
    BY <1>12, <2>1, AnswerKept
<1>15. ASSUME NEW u \in busy'
       PROVE  u = [task |-> u.task, saving |-> u.saving] /\ (u.saving => u.task.seek)
  BY <1>2, <1>3, <1>5, <1>6 DEF TasksInv
<1>16. TasksInv'
  BY <1>11, <1>13, <1>14, <1>15 DEF TasksInv
<1>17. FilesInv'
  BY <1>2, <1>4, FilesSame DEF ProverInv
<1> QED
  BY <1>2, <1>9, <1>12, <1>16, <1>17, FrameStep

\* Only tasks that seek a proof write files, and the one of the whole request is a SNARK.
LEMMA WrittenFile ==
  ASSUME request \in Requests, NEW t, IsTask(t), t.seek, ~Name(t).execution, Name(t).range = Whole
  PROVE  t.snark = TRUE
<1>1. t.snark \in BOOLEAN /\ t.kind # "execution"
  BY DEF IsTask, TaskRecords, Name
<1>2. t.kind # "derivation"
  BY DEF IsTask, DerivationOnly, Complete, Combined, ExecutionOnly, Task
<1>3. CASE t.job = Final /\ t.snark
  BY <1>1, <1>3
<1>4. CASE t.job \in Parts(Whole) /\ (t.snark \/ t.job # Whole) /\ t.range = t.job
  <2>1. Whole \in Nat \X Nat
    BY RequestFacts
  <2>2. Blocks(t.job) # 0
    BY <1>4, <2>1, PartFacts DEF Blocks
  <2>3. Name(t).range = t.job
    BY <1>4, <2>2 DEF Name
  <2> QED
    BY <1>1, <1>4, <2>3
<1>5. t.range = t.job
  <2>1. PICK j : j = [range |-> t.job, snark |-> t.snark]
    OBVIOUS
  <2>2. t = Complete(j) \/ t = Combined(j)
    BY <1>1, <1>2, <2>1 DEF IsTask, DerivationOnly, ExecutionOnly, Task
  <2>3. j.range = t.job
    BY <2>1
  <2> QED
    BY <2>2, <2>3 DEF Complete, Combined, Task
<1>6. \/ t.job = Final /\ t.snark
      \/ t.job \in Parts(Whole) /\ (t.snark \/ t.job # Whole)
  BY <1>1, <1>2 DEF IsTask, DerivationOnly, ExecutionOnly, Task
<1> QED
  BY <1>3, <1>4, <1>5, <1>6

LEMMA WriteKeeps ==
  ASSUME ProverInv, Running, NEW w \in busy, Write(w)
  PROVE  ProverInv'
<1>1. PICK t, g, m : /\ t = w.task /\ g = [name |-> Name(t), snark |-> t.snark]
                     /\ m = [task |-> t, outcome |-> "Ok"]
  OBVIOUS
<1>2. w.saving /\ files' = files \cup {g} /\ Deliver(w, "Ok") /\ errors' = errors
  BY <1>1 DEF Write
<1>3. request' = request
  BY <1>2 DEF Deliver
<1>4. Kept
  BY <1>2, <1>3 DEF Kept
<1>5. TasksInv /\ request \in Requests /\ FilesInv
  BY DEF ProverInv
<1>6. t.seek /\ IsTask(t)
  <2>1. t \in Tasks
    BY <1>1 DEF Tasks, BusyTasks
  <2> QED
    BY <1>1, <1>2, <1>5, <2>1 DEF TasksInv
<1>7. IsAnswer(m)'
  <2>1. m.task = t /\ m.outcome = "Ok"
    BY <1>1
  <2>2. g \in files' /\ g.name = Name(t)' /\ Name(t)' = Name(t)
    BY <1>1, <1>2, <1>3, RefusalKept
  <2>3. IsFile(Name(t))'
    BY <2>2 DEF IsFile
  <2> QED
    BY <1>6, <2>1, <2>3 DEF IsAnswer
<1>8. /\ g = [name |-> [execution |-> g.name.execution, range |-> g.name.range], snark |-> g.snark]
      /\ ~g.name.execution /\ g.name.range = Whole => g.snark = TRUE
  <2>1. g.name = Name(t) /\ g.snark = t.snark
    BY <1>1
  <2>2. Name(t) = [execution |-> Name(t).execution, range |-> Name(t).range]
    BY DEF Name
  <2> QED
    BY <1>1, <1>5, <1>6, <2>1, <2>2, WrittenFile
<1>9. FilesInv'
  BY <1>2, <1>3, <1>5, <1>8, WholeKept DEF FilesInv
<1> QED
  BY <1>1, <1>2, <1>4, <1>7, <1>9, DeliverKeeps

-----------------------------------------------------------------------------
(***************************************************************************)
(* The jobs.                                                               *)
(***************************************************************************)

\* A job takes result m from its channel and queues the tasks of N.
Moved(m, N) ==
  /\ request' = request /\ files' = files /\ errors' = errors /\ pc' = pc
  /\ busy' = busy /\ inbox' = inbox \ {m}
  /\ channel' \in Seq(TaskRecords) /\ IsInjective(channel') /\ Range(channel') = Range(channel) \cup N
  /\ N \cap Tasks = {} /\ \A t \in N : IsTask(t) /\ t.job = m.task.job

LEMMA MovedTasks ==
  ASSUME TasksInv, NEW m \in inbox, NEW N, Moved(m, N)
  PROVE  TasksInv' /\ Tasks' = (Tasks \ {m.task}) \cup N /\ m.task \in Tasks /\ Kept
<1>1. PICK x : x = m.task
  OBVIOUS
<1>2. /\ request' = request /\ files' = files /\ errors' = errors /\ pc' = pc
      /\ busy' = busy /\ inbox' = inbox \ {m}
      /\ channel' \in Seq(TaskRecords) /\ IsInjective(channel') /\ Range(channel') = Range(channel) \cup N
      /\ N \cap Tasks = {} /\ \A t \in N : IsTask(t)
  BY DEF Moved
<1>3. Kept
  BY <1>2 DEF Kept
<1>4. x \in InboxTasks
  BY <1>1 DEF InboxTasks
<1>5. InboxTasks' = InboxTasks \ {x}
  BY <1>1, <1>2 DEF InboxTasks, TasksInv, PlacedOnce
<1>6. QueueTasks' = QueueTasks \cup N /\ BusyTasks' = BusyTasks
  BY <1>2 DEF QueueTasks, BusyTasks
<1>7. x \notin QueueTasks /\ x \notin BusyTasks
  BY <1>4 DEF TasksInv, PlacedOnce
<1>8. Tasks' = (Tasks \ {x}) \cup N
  <2>1. N \cap InboxTasks = {}
    BY <1>2 DEF Tasks
  <2> QED
    BY <1>4, <1>5, <1>6, <1>7, <2>1 DEF Tasks
<1>9. PlacedOnce'
  <2>1. N \cap BusyTasks = {} /\ N \cap InboxTasks = {}
    BY <1>2 DEF Tasks
  <2> QED
    BY <1>2, <1>5, <1>6, <2>1 DEF TasksInv, PlacedOnce
<1>10. ASSUME NEW t \in Tasks' PROVE IsTask(t)'
  <2>1. IsTask(t)
    BY <1>2, <1>8 DEF TasksInv
  <2> QED
    BY <1>2, <2>1, TaskKept
<1>11. ASSUME NEW a \in inbox' PROVE a = [task |-> a.task, outcome |-> a.outcome] /\ IsAnswer(a)'
  <2>1. a = [task |-> a.task, outcome |-> a.outcome] /\ IsAnswer(a)
    BY <1>2 DEF TasksInv
  <2> QED
    BY <1>3, <2>1, AnswerKept
<1>12. TasksInv'
  BY <1>2, <1>9, <1>10, <1>11 DEF TasksInv
<1> QED
  BY <1>1, <1>3, <1>4, <1>8, <1>12 DEF Tasks

LEMMA MovedMine ==
  ASSUME TasksInv, NEW m \in inbox, NEW N, Moved(m, N), NEW j
  PROVE  /\ j.range = m.task.job => Mine(j)' = (Mine(j) \ {m.task}) \cup N /\ m.task \in Mine(j)
         /\ j.range # m.task.job => Mine(j)' = Mine(j)
<1>1. Tasks' = (Tasks \ {m.task}) \cup N /\ m.task \in Tasks
  BY MovedTasks
<1>2. \A t \in N : t.job = m.task.job
  BY DEF Moved
<1>3. Mine(j) = {t \in Tasks : t.job = j.range} /\ Mine(j)' = {t \in Tasks' : t.job = j.range}
  BY DEF Mine
<1> QED
  BY <1>1, <1>2, <1>3

\* The job goes on as k.
LEMMA UpdateStep ==
  ASSUME ProverInv, pc = "wait", NEW m \in inbox, NEW j \in jobs, j.range = m.task.job,
         NEW N, Moved(m, N), NEW k, k.range = j.range, jobs' = (jobs \ {j}) \cup {k}, JobInv(k)',
         UNCHANGED <<pending, results, need, proofs>>
  PROVE  ProverInv'
<1>1. /\ TasksInv' /\ Tasks' = (Tasks \ {m.task}) \cup N /\ m.task \in Tasks /\ Kept
  <2>1. TasksInv
    BY DEF ProverInv, Running
  <2> QED
    BY <2>1, MovedTasks
<1>2. /\ request' = request /\ files' = files /\ pc' = pc /\ \A t \in N : t.job = m.task.job
      /\ pending' = pending /\ results' = results /\ need' = need /\ proofs' = proofs
  BY DEF Moved
<1>3. FilesInv'
  BY <1>2, FilesSame DEF ProverInv
<1>4. \A a, b \in jobs : a.range = b.range => a = b
  BY DEF ProverInv, Running
<1>5. \A a, b \in jobs' : a.range = b.range => a = b
  BY <1>4
<1>6. ASSUME NEW a \in jobs' PROVE JobInv(a)'
  <2>1. CASE a = k
    BY <2>1
  <2>2. CASE a \in jobs /\ a # j
    <3>1. a.range # m.task.job
      BY <1>4, <2>2
    <3>2. TasksInv /\ JobInv(a)
      BY <2>2 DEF ProverInv, Running
    <3>3. Mine(a)' = Mine(a)
      BY <3>1, <3>2, MovedMine
    <3> QED
      BY <1>1, <3>2, <3>3, JobKept
  <2> QED
    BY <2>1, <2>2
<1>7. ASSUME NEW a \in results PROVE ResultInv(a)'
  <2>1. ResultInv(a)
    BY DEF ProverInv, Running
  <2> QED
    BY <1>1, <2>1, ResultKept
<1>8. WaitInv
  BY DEF ProverInv
<1>9. JobRanges' = JobRanges
  BY DEF JobRanges
<1>10. /\ Outstanding' = Outstanding /\ PendingRanges' = PendingRanges
       /\ ResultRanges' = ResultRanges /\ Open' = Open
  BY <1>2, <1>9 DEF Outstanding, PendingRanges, ResultRanges, Open
<1>11. IsFiniteSet(jobs') /\ Cardinality(jobs') = Cardinality(jobs)
  <2>1. IsFiniteSet(jobs)
    BY <1>8 DEF WaitInv, HeldOnce
  <2>2. IsFiniteSet(jobs \ {j}) /\ Cardinality(jobs \ {j}) = Cardinality(jobs) - 1
    BY <2>1, FS_RemoveElement
  <2>3. k \notin jobs \ {j}
    BY <1>4
  <2>4. IsFiniteSet(jobs') /\ Cardinality(jobs') = Cardinality(jobs \ {j}) + 1
    BY <2>2, <2>3, FS_AddElement
  <2>5. Cardinality(jobs) \in Nat
    BY <2>1, FS_CardinalityType
  <2> QED
    BY <2>2, <2>4, <2>5
<1>12. HeldOnce'
  BY <1>2, <1>8, <1>9, <1>10, <1>11 DEF WaitInv, HeldOnce
<1>13. StaleInv'
  <2>1. \A t \in Tasks' : \E u \in Tasks : u.job = t.job
    BY <1>1, <1>2
  <2> QED
    BY <1>8, <1>10, <2>1 DEF WaitInv, StaleInv
<1>14. WaitInv'
  <2>1. Whole' = Whole
    BY <1>2, WholeKept
  <2>2. ASSUME NEW r \in proofs PROVE Proven(r)'
    <3>1. Proven(r)
      BY <1>8 DEF WaitInv
    <3> QED
      BY <1>1, <3>1, ProvenKept
  <2>3. \A b : BlockExecuted(b) => BlockExecuted(b)'
    BY <1>1, ProvenKept
  <2> QED
    BY <1>2, <1>8, <1>10, <1>11, <1>12, <1>13, <2>1, <2>2, <2>3 DEF WaitInv
<1>15. DoneIsProven' /\ FailureInv'
  BY <1>2 DEF DoneIsProven, FailureInv
<1>16. request' \in Requests
  BY <1>2 DEF ProverInv
<1> QED
  BY <1>1, <1>2, <1>3, <1>5, <1>6, <1>7, <1>14, <1>15, <1>16 DEF ProverInv

\* The job returns.
LEMMA ReturnStep ==
  ASSUME ProverInv, Running, NEW m \in inbox, NEW j \in jobs, j.range = m.task.job,
         NEW o, Return(j, o), inbox' = inbox \ {m},
         UNCHANGED <<request, pending, proofs, busy, files, errors>>,
         ResultInv([range |-> j.range, split |-> ~j.snark, outcome |-> o])
  PROVE  ProverInv'
<1>1. PICK n : n = [range |-> j.range, split |-> ~j.snark, outcome |-> o]
  OBVIOUS
<1>2. /\ jobs' = jobs \ {j} /\ results' = results \cup {n} /\ channel' = channel /\ pc' = pc
      /\ need' = need /\ n.range = j.range /\ n.outcome = o
      /\ request' = request /\ files' = files /\ proofs' = proofs /\ pending' = pending
  BY <1>1 DEF Return
<1>3. TasksInv
  BY DEF ProverInv
<1>4. Moved(m, {})
  BY <1>2, <1>3 DEF Moved, TasksInv, PlacedOnce
<1>5. TasksInv' /\ Tasks' = (Tasks \ {m.task}) \cup {} /\ Kept
  BY <1>3, <1>4, MovedTasks
<1>6. FilesInv'
  BY <1>2, FilesSame DEF ProverInv
<1>7. \A a, b \in jobs : a.range = b.range => a = b
  BY DEF ProverInv
<1>8. ASSUME NEW a \in jobs' PROVE JobInv(a)'
  <2>1. a \in jobs /\ a.range # m.task.job
    BY <1>2, <1>7
  <2>2. JobInv(a)
    BY <2>1 DEF ProverInv
  <2>3. Mine(a)' = Mine(a)
    BY <1>3, <1>4, <2>1, MovedMine
  <2> QED
    BY <1>5, <2>2, <2>3, JobKept
<1>9. ASSUME NEW a \in results' PROVE ResultInv(a)'
  <2>1. ResultInv(a)
    BY <1>1, <1>2 DEF ProverInv
  <2> QED
    BY <1>5, <2>1, ResultKept
<1>10. ASSUME pc = "wait" PROVE WaitInv'
  <2>1. WaitInv
    BY <1>10 DEF ProverInv
  <2>2. JobRanges' = JobRanges \ {j.range} /\ ResultRanges' = ResultRanges \cup {j.range}
    BY <1>2, <1>7 DEF JobRanges, ResultRanges
  <2>3. j.range \in JobRanges
    BY DEF JobRanges
  <2>4. Outstanding' = Outstanding /\ PendingRanges' = PendingRanges /\ Open' = Open
    BY <1>2, <2>2, <2>3 DEF Outstanding, PendingRanges, Open
  <2>5. j.range \notin ResultRanges
    BY <2>1, <2>3 DEF WaitInv, HeldOnce
  <2>6. n \notin results
    BY <1>2, <2>5 DEF ResultRanges
  <2>7. /\ IsFiniteSet(jobs') /\ Cardinality(jobs') = Cardinality(jobs) - 1
        /\ IsFiniteSet(results') /\ Cardinality(results') = Cardinality(results) + 1
    <3>1. IsFiniteSet(jobs) /\ IsFiniteSet(results)
      BY <2>1 DEF WaitInv, HeldOnce
    <3> QED
      BY <1>2, <2>6, <3>1, FS_RemoveElement, FS_AddElement
  <2>8. Cardinality(jobs) \in Nat /\ Cardinality(results) \in Nat /\ Cardinality(proofs) \in Nat
        /\ Len(pending) \in Nat
    BY <2>1, FS_CardinalityType DEF WaitInv, HeldOnce
  <2>9. \A a, b \in results' : a.range = b.range => a = b
    <3>1. \A a \in results : a.range # j.range
      BY <2>5 DEF ResultRanges
    <3> QED
      BY <1>2, <2>1, <3>1 DEF WaitInv, HeldOnce
  <2>10. HeldOnce'
    BY <1>2, <2>1, <2>2, <2>3, <2>4, <2>7, <2>9 DEF WaitInv, HeldOnce
  <2>11. StaleInv'
    BY <1>5, <2>1, <2>4 DEF WaitInv, StaleInv
  <2>12. Whole' = Whole
    BY <1>2, WholeKept
  <2>13. ASSUME NEW r \in proofs PROVE Proven(r)'
    <3>1. Proven(r)
      BY <2>1 DEF WaitInv
    <3> QED
      BY <1>5, <3>1, ProvenKept
  <2>14. \A b : BlockExecuted(b) => BlockExecuted(b)'
    BY <1>5, ProvenKept
  <2>15. need' = Cardinality(proofs') + Len(pending') + Cardinality(jobs') + Cardinality(results')
    BY <1>2, <2>1, <2>7, <2>8 DEF WaitInv
  <2> QED
    BY <1>2, <2>1, <2>4, <2>10, <2>11, <2>12, <2>13, <2>14, <2>15 DEF WaitInv
<1>11. ASSUME pc = "stitch" PROVE StitchInv'
  BY <1>2, <1>11, WholeKept DEF ProverInv, StitchInv
<1>12. pc' \in {"wait", "stitch"}
  BY <1>2 DEF Running
<1>13. DoneIsProven' /\ FailureInv'
  BY <1>12 DEF DoneIsProven, FailureInv
<1>14. request' \in Requests /\ \A a, b \in jobs' : a.range = b.range => a = b
  BY <1>2, <1>7 DEF ProverInv
<1> QED
  BY <1>2, <1>5, <1>6, <1>8, <1>9, <1>10, <1>11, <1>12, <1>13, <1>14 DEF ProverInv

LEMMA JobFacts ==
  ASSUME ProverInv, Running, NEW j \in jobs
  PROVE  /\ request \in Requests /\ JobInv(j) /\ j \in JobRecords /\ j.range \in Nat \X Nat
         /\ \/ pc = "wait" /\ j.range \in Parts(Whole) /\ Blocks(j.range) >= 1 /\ j.range # Final
            \/ pc = "stitch" /\ j.range = Final /\ j.pc = "complete" /\ Blocks(j.range) = 0
               /\ ~request.skipAwait /\ ~request.skipDerivation
         /\ Blocks(j.range) \in Nat
<1>1. request \in Requests /\ JobInv(j)
  BY DEF ProverInv
<1>2. j \in JobRecords /\ j.range \in Nat \X Nat
  BY <1>1 DEF JobInv, JobRecords
<1>3. CASE pc = "wait"
  <2>1. j.range \in Parts(Whole)
    <3>1. j.range \in Open
      BY DEF Open, JobRanges
    <3> QED
      BY <1>3, <3>1 DEF ProverInv, WaitInv, Disjoint
  <2>2. Whole \in Nat \X Nat /\ Final \notin Parts(Whole)
    BY <1>1, RequestFacts
  <2>3. Blocks(j.range) >= 1 /\ Blocks(j.range) \in Nat
    BY <2>1, <2>2, PartFacts DEF Blocks
  <2> QED
    BY <1>1, <1>2, <1>3, <2>1, <2>2, <2>3
<1>4. CASE pc = "stitch"
  <2>1. j.range = Final /\ j.pc = "complete" /\ ~request.skipAwait /\ ~request.skipDerivation
    BY <1>4 DEF ProverInv, StitchInv
  <2>2. Blocks(Final) = 0
    BY <1>1, RequestFacts
  <2> QED
    BY <1>1, <1>2, <1>4, <2>1, <2>2
<1> QED
  BY <1>3, <1>4 DEF Running

LEMMA MessageFacts ==
  ASSUME ProverInv, Running, NEW j \in jobs, NEW m \in inbox, j.range = m.task.job
  PROVE  m.task \in Mine(j) /\ m.task \in Tasks /\ IsTask(m.task) /\ IsAnswer(m)
<1>1. m.task \in Tasks
  BY DEF Tasks, InboxTasks
<1> QED
  BY <1>1 DEF Mine, ProverInv, TasksInv

\* The result of a task that proves the whole job.
LEMMA WholeResult ==
  ASSUME ProverInv, Running, NEW j \in jobs, NEW m \in inbox, j.range = m.task.job,
         m.task.range = j.range, m.task.kind # "execution", m.task.seek => ~request.skipDerivation,
         m.outcome \notin {"WitnessSizeError", "BlockCountError", "NotSeekingProof"}
  PROVE  ResultInv([range |-> j.range, split |-> ~j.snark, outcome |-> m.outcome])
<1>1. PICK t, o, n : /\ t = m.task /\ o = m.outcome
                     /\ n = [range |-> j.range, split |-> ~j.snark, outcome |-> o]
  OBVIOUS
<1>2. n.range = j.range /\ n.outcome = o /\ n = [range |-> n.range, split |-> n.split, outcome |-> n.outcome]
  BY <1>1
<1>3. \/ o = "Ok" /\ IsFile(Name(t)) /\ t.seek
      \/ o = "NotAwaitingProof" /\ request.skipAwait
      \/ o \in {"ExecutionError", "OtherError"} /\ [outcome |-> o, task |-> t] \in errors
  <2>1. IsAnswer(m)
    BY MessageFacts
  <2>2. Refusal(t) \in {"WitnessSizeError", "BlockCountError", "NotSeekingProof", "none"}
    BY RefusalFacts
  <2> QED
    BY <1>1, <2>1, <2>2 DEF IsAnswer
<1>4. CASE o = "Ok"
  <2>1. Name(t) = [execution |-> FALSE, range |-> IF Blocks(j.range) = 0 THEN Whole ELSE j.range]
    BY <1>1 DEF Name
  <2>2. Blocks(j.range) = 0 <=> j.range = Final
    BY JobFacts
  <2>3. Proven(j.range)
    BY <1>3, <1>4, <2>1, <2>2 DEF Proven
  <2> QED
    BY <1>1, <1>2, <1>3, <1>4, <2>3 DEF ResultInv
<1>5. CASE o \in {"ExecutionError", "OtherError"} /\ [outcome |-> o, task |-> t] \in errors
  <2>1. PICK e : e = [outcome |-> o, task |-> t]
    OBVIOUS
  <2>2. e \in errors /\ e.outcome = o /\ e.task.job = j.range
    BY <1>1, <1>5, <2>1
  <2>3. o = "OtherError" \/ Blocks(j.range) <= 1 => Cause
    BY <2>2 DEF Cause
  <2> QED
    BY <1>1, <1>2, <1>5, <2>3 DEF ResultInv
<1>6. CASE o = "NotAwaitingProof" /\ request.skipAwait
  BY <1>1, <1>2, <1>6 DEF ResultInv
<1> QED
  BY <1>3, <1>4, <1>5, <1>6

LEMMA TaskFields ==
  ASSUME NEW j, NEW r
  PROVE  /\ Complete(j).job = j.range /\ Complete(j).kind = "complete" /\ Complete(j).range = j.range
         /\ Complete(j).force = (Blocks(j.range) = 0) /\ Complete(j).seek = ~request.skipDerivation
         /\ Complete(j).snark = j.snark
         /\ DerivationOnly(j).job = j.range /\ DerivationOnly(j).kind = "derivation"
         /\ DerivationOnly(j).range = j.range /\ DerivationOnly(j).seek = FALSE
         /\ DerivationOnly(j).force = FALSE /\ DerivationOnly(j).snark = FALSE
         /\ ExecutionOnly(j, r).job = j.range /\ ExecutionOnly(j, r).kind = "execution"
         /\ ExecutionOnly(j, r).range = r /\ ExecutionOnly(j, r).seek = TRUE
         /\ ExecutionOnly(j, r).force = (Blocks(r) = 1) /\ ExecutionOnly(j, r).snark = FALSE
         /\ Combined(j).job = j.range /\ Combined(j).kind = "combined" /\ Combined(j).range = j.range
         /\ Combined(j).force = TRUE /\ Combined(j).seek = TRUE /\ Combined(j).snark = j.snark
BY DEF Complete, DerivationOnly, ExecutionOnly, Combined, Task

\* New tasks of a job are tasks.
LEMMA NewTasks ==
  ASSUME request \in Requests, NEW j, j.range \in Parts(Whole), j.snark \in BOOLEAN,
         j.snark \/ j.range # Whole
  PROVE  /\ IsTask(Complete(j)) /\ IsTask(DerivationOnly(j))
         /\ \A r \in Parts(j.range) : IsTask(ExecutionOnly(j, r))
         /\ ~request.skipDerivation => IsTask(Combined(j))
<1>1. Whole \in Nat \X Nat /\ request.skipDerivation \in BOOLEAN
  BY RequestFacts
<1>2. j.range \in Nat \X Nat
  BY <1>1, PartFacts
<1>3. IsTask(Complete(j))
  <2>1. PICK t, k : t = Complete(j) /\ k = [range |-> t.job, snark |-> t.snark]
    OBVIOUS
  <2>2. t.job = j.range /\ t.snark = j.snark /\ k.range = j.range /\ k.snark = j.snark
    BY <2>1, TaskFields
  <2>3. Complete(k) = t
    BY <2>1, <2>2 DEF Complete, Task
  <2>4. t \in TaskRecords
    BY <1>1, <1>2, <2>1 DEF Complete, Task, TaskRecords
  <2> QED
    BY <2>1, <2>2, <2>3, <2>4 DEF IsTask
<1>4. IsTask(DerivationOnly(j))
  <2>1. PICK t, k : t = DerivationOnly(j) /\ k = [range |-> t.job, snark |-> t.snark]
    OBVIOUS
  <2>2. t.job = j.range /\ k.range = j.range
    BY <2>1, TaskFields
  <2>3. DerivationOnly(k) = t
    BY <2>1, <2>2 DEF DerivationOnly, Task
  <2>4. t \in TaskRecords
    BY <1>1, <1>2, <2>1 DEF DerivationOnly, Task, TaskRecords
  <2> QED
    BY <2>1, <2>2, <2>3, <2>4 DEF IsTask
<1>5. ASSUME NEW r \in Parts(j.range) PROVE IsTask(ExecutionOnly(j, r))
  <2>1. PICK t, k : t = ExecutionOnly(j, r) /\ k = [range |-> t.job, snark |-> t.snark]
    OBVIOUS
  <2>2. t.job = j.range /\ k.range = j.range /\ t.range = r
    BY <2>1 DEF ExecutionOnly, Task
  <2>3. ExecutionOnly(k, t.range) = t
    BY <2>1, <2>2 DEF ExecutionOnly, Task
  <2>4. r \in Nat \X Nat
    BY <1>2, PartFacts
  <2>5. t \in TaskRecords
    BY <1>1, <1>2, <2>1, <2>4 DEF ExecutionOnly, Task, TaskRecords
  <2> QED
    BY <2>1, <2>2, <2>3, <2>5 DEF IsTask
<1>6. ASSUME ~request.skipDerivation PROVE IsTask(Combined(j))
  <2>1. PICK t, k : t = Combined(j) /\ k = [range |-> t.job, snark |-> t.snark]
    OBVIOUS
  <2>2. t.job = j.range /\ t.snark = j.snark /\ k.range = j.range /\ k.snark = j.snark
    BY <2>1, TaskFields
  <2>3. Combined(k) = t
    BY <2>1, <2>2 DEF Combined, Task
  <2>4. t \in TaskRecords
    BY <1>1, <1>2, <2>1 DEF Combined, Task, TaskRecords
  <2> QED
    BY <1>6, <2>1, <2>2, <2>3, <2>4 DEF IsTask
<1> QED
  BY <1>3, <1>4, <1>5, <1>6

LEMMA MovedParts ==
  ASSUME TasksInv, NEW m \in inbox, NEW N, Moved(m, N), NEW j, j.range = m.task.job
  PROVE  PartsOf(j)' = {t.range : t \in {u \in (Mine(j) \ {m.task}) \cup N : u.kind = "execution"}}
<1>1. Mine(j)' = (Mine(j) \ {m.task}) \cup N
  BY MovedMine
<1>2. PartsOf(j)' = {t.range : t \in {u \in Mine(j)' : u.kind = "execution"}}
  BY DEF PartsOf, Mine, Tasks, QueueTasks, BusyTasks, InboxTasks
<1> QED
  BY <1>1, <1>2

\* A job, and what it may become.
LEMMA JobFields ==
  ASSUME NEW j \in JobRecords
  PROVE  /\ j = [range |-> j.range, snark |-> j.snark, pc |-> j.pc, need |-> j.need, done |-> j.done]
         /\ j.range \in Nat \X Nat /\ j.snark \in BOOLEAN /\ j.need \in Int
         /\ j.pc \in {"complete", "derivation", "executions", "combined"}
         /\ j.done \in SUBSET (Nat \X Nat)
BY DEF JobRecords

\* The jobs' own part of JobStep, with what surrounds it.
Steps(m) ==
  inbox' = inbox \ {m} /\ UNCHANGED <<request, pending, proofs, busy, files, errors>>

LEMMA StartKeeps ==
  ASSUME ProverInv, Running, NEW m \in inbox, NEW j \in jobs, j.range = m.task.job, Steps(m),
         j.range \in Parts(Whole), pc = "wait", j.pc \in {"complete", "derivation"},
         Mine(j) = {m.task}, m.task.kind # "execution", request.maxExecutions # 0,
         StartExecutions(j)
  PROVE  ProverInv'
<1>1. /\ request \in Requests /\ JobInv(j) /\ j \in JobRecords /\ j.range \in Nat \X Nat
      /\ Blocks(j.range) >= 1 /\ TasksInv /\ j.done = {} /\ j.snark \in BOOLEAN
      /\ (j.snark \/ j.range # Whole)
  <2>1. JobInv(j) /\ j \in JobRecords /\ request \in Requests /\ j.range \in Nat \X Nat
    BY JobFacts
  <2>2. Blocks(j.range) >= 1
    BY JobFacts
  <2> QED
    BY <2>1, <2>2 DEF JobInv, ProverInv, JobRecords
<1>2. request.maxExecutions \in Nat \ {0}
  BY <1>1, RequestFacts
<1>3. PICK parts : parts = Chunks(j.range, request.maxExecutions)
  OBVIOUS
<1>t. PICK n \in Nat \ {0} : Tiles(parts, n, j.range)
  <2>1. j.range[1] < j.range[2]
    BY <1>1 DEF Blocks
  <2> QED
    BY <1>1, <1>2, <1>3, <2>1, ChunksTile
<1>4. /\ parts \in [1..n -> Parts(j.range)] /\ Covers(Range(parts), j.range)
      /\ \A i, h \in 1..n : parts[i] = parts[h] => i = h
  BY <1>t DEF Tiles, Differ
<1>5. PICK S, q, k, N : /\ S = Range(parts)
                        /\ q = [i \in 1..n |-> ExecutionOnly(j, parts[i])]
                        /\ k = [j EXCEPT !.pc = "executions", !.need = n]
                        /\ N = {ExecutionOnly(j, x) : x \in S}
  OBVIOUS
<1>6. DOMAIN parts = 1..n /\ Len(parts) = n
  BY <1>4
<1>7. jobs' = (jobs \ {j}) \cup {k} /\ channel' = channel \o q /\ results' = results /\ pc' = pc /\ need' = need
  <2>1. Blocks(j.range) # 0
    BY <1>1
  <2> QED
    BY <1>3, <1>5, <1>6, <2>1 DEF StartExecutions, Update
<1>s. S = {parts[i] : i \in 1..n}
  BY <1>5, <1>6 DEF Range
<1>8. \A x \in S : IsTask(ExecutionOnly(j, x))
  <2>1. \A x \in S : x \in Parts(j.range)
    BY <1>4, <1>s
  <2> QED
    BY <1>1, <2>1, NewTasks
<1>9. q \in Seq(TaskRecords) /\ Range(q) = N /\ IsInjective(q)
  <2>1. \A i \in 1..n : parts[i] \in S /\ ExecutionOnly(j, parts[i]) \in TaskRecords
    BY <1>s, <1>8 DEF IsTask
  <2>2. q \in Seq(TaskRecords) /\ DOMAIN q = 1..n
    BY <1>5, <2>1
  <2>3. Range(q) = N
    <3>1. Range(q) = {q[i] : i \in 1..n}
      BY <2>2 DEF Range
    <3>2. \A i \in 1..n : q[i] = ExecutionOnly(j, parts[i])
      BY <1>5
    <3>3. N = {ExecutionOnly(j, x) : x \in S}
      BY <1>5
    <3> QED
      BY <1>s, <3>1, <3>2, <3>3
  <2>4. ASSUME NEW i \in 1..n, NEW h \in 1..n, q[i] = q[h] PROVE i = h
    <3>1. ExecutionOnly(j, parts[i]).range = ExecutionOnly(j, parts[h]).range
      BY <1>5, <2>4
    <3>2. parts[i] = parts[h]
      BY <3>1 DEF ExecutionOnly, Task
    <3> QED
      BY <1>4, <3>2
  <2> QED
    BY <2>2, <2>3, <2>4 DEF IsInjective
<1>10. \A t \in N : t.job = j.range /\ t.kind = "execution" /\ t = ExecutionOnly(j, t.range) /\ IsTask(t)
                    /\ t.range \in S
  <2>1. ASSUME NEW x \in S, NEW t, t = ExecutionOnly(j, x)
        PROVE  t.job = j.range /\ t.kind = "execution" /\ t.range = x
    BY <2>1 DEF ExecutionOnly, Task
  <2> QED
    BY <1>5, <1>8, <2>1
<1>11. N \cap Tasks = {}
  BY <1>10 DEF Mine
<1>12. Moved(m, N)
  <2>1. channel \in Seq(TaskRecords) /\ IsInjective(channel)
    BY <1>1 DEF TasksInv, PlacedOnce
  <2>2. Range(channel) \cap Range(q) = {}
    BY <1>9, <1>11 DEF Tasks, QueueTasks
  <2>3. channel' \in Seq(TaskRecords) /\ IsInjective(channel') /\ Range(channel') = Range(channel) \cup N
    BY <1>7, <1>9, <2>1, <2>2, ConcatRange
  <2> QED
    BY <1>7, <1>10, <1>11, <2>3 DEF Moved, Steps
<1>13. k.range = j.range /\ k.pc = "executions" /\ k.need = n /\ k.done = {} /\ k \in JobRecords
       /\ k.snark = j.snark
  <2>0. j = [range |-> j.range, snark |-> j.snark, pc |-> j.pc, need |-> j.need, done |-> j.done]
    BY <1>1, JobFields
  <2>k. k = [j EXCEPT !.pc = "executions", !.need = n]
    BY <1>5
  <2>1. k = [range |-> j.range, snark |-> j.snark, pc |-> "executions", need |-> n, done |-> j.done]
    BY <2>0, <2>k
  <2> QED
    BY <1>1, <2>1, JobFields DEF JobRecords
<1>14. Mine(k)' = N
  <2>1. Mine(k) = {m.task}
    BY <1>13 DEF Mine
  <2>2. Mine(k)' = (Mine(k) \ {m.task}) \cup N
    BY <1>1, <1>12, <1>13, MovedMine
  <2> QED
    BY <2>1, <2>2
<1>15. PartsOf(k)' = S
  <2>1. PartsOf(k)' = {t.range : t \in {u \in Mine(k)' : u.kind = "execution"}}
    BY DEF PartsOf, Mine, Tasks, QueueTasks, BusyTasks, InboxTasks
  <2>2. \A x \in S : ExecutionOnly(j, x) \in N
    BY <1>5
  <2>3. \A x : ExecutionOnly(j, x).range = x
    BY DEF ExecutionOnly, Task
  <2> QED
    BY <1>10, <1>14, <2>1, <2>2, <2>3
<1>16. IsFiniteSet(S) /\ Cardinality(S) = n
  <2>1. IsFiniteSet(1..n) /\ Cardinality(1..n) = n
    BY FS_Interval
  <2>2. IsFiniteSet(S) /\ Cardinality(S) = Cardinality(1..n)
    BY <1>4, <1>s, <1>6, <2>1, ImageSize
  <2> QED
    BY <2>1, <2>2
<1>17. Counted(k)'
  <2>1. IsFiniteSet({}) /\ Cardinality({}) = 0
    BY FS_EmptySet
  <2>2. {} \cup S = S /\ {} \cap S = {}
    OBVIOUS
  <2>3. Covers(S, k.range) /\ Disjoint(S, k.range)
    BY <1>4, <1>5, <1>13 DEF Covers
  <2> QED
    BY <1>13, <1>15, <1>16, <2>1, <2>2, <2>3 DEF Counted
<1>18. JobInv(k)'
  <2>1. request' = request
    BY DEF Steps
  <2>2. Whole' = Whole
    BY <2>1, WholeKept
  <2>3. \A t \in N : t = ExecutionOnly(k, t.range)'
    BY <1>10, <1>13, <2>1 DEF ExecutionOnly, Task
  <2> QED
    BY <1>1, <1>13, <1>14, <1>17, <2>2, <2>3 DEF JobInv
<1> QED
  BY <1>7, <1>12, <1>13, <1>18, UpdateStep DEF Steps

\* The witness of the derivation of one block.
LEMMA WeightOne ==
  ASSUME NEW r \in Nat \X Nat, r[2] - r[1] = 1, NEW w, w[r[2]] \in Nat
  PROVE  Weight(w, r) = w[r[2]]
<1> DEFINE D == r[1]..r[2]
           F(f) == [b \in D |-> IF b = r[1] THEN 0 ELSE f[b - 1] + w[b]]
           upTo == CHOOSE f : f = F(f)
           g == [b \in D |-> IF b = r[1] THEN 0 ELSE w[b]]
<1>1. r[1] \in Nat /\ r[2] \in Nat /\ r[2] = r[1] + 1 /\ D = {r[1], r[2]} /\ r[1] # r[2] /\ r[2] - 1 = r[1]
  OBVIOUS
<1>2. g[r[1]] = 0 /\ g[r[2]] = w[r[2]]
  BY <1>1
<1>3. ASSUME NEW b \in D PROVE g[b] = IF b = r[1] THEN 0 ELSE g[b - 1] + w[b]
  <2>1. CASE b = r[1]
    BY <1>2, <2>1
  <2>2. CASE b = r[2]
    <3>1. b - 1 = r[1] /\ b # r[1] /\ w[b] \in Nat
      BY <1>1, <2>2
    <3>2. g[b] = w[b] /\ g[b - 1] = 0
      BY <1>2, <2>2, <3>1
    <3> HIDE DEF g
    <3> QED
      BY <3>1, <3>2
  <2> QED
    BY <1>1, <2>1, <2>2
<1>4. g = F(g)
  BY <1>3
<1>5. upTo = F(upTo)
  <2> HIDE DEF g, F
  <2> QED
    BY <1>4
<1>6. Weight(w, r) = upTo[r[2]]
  BY DEF Weight
<1>7. upTo[r[1]] = 0 /\ upTo[r[2]] = upTo[r[2] - 1] + w[r[2]]
  <2>1. r[1] \in D /\ r[2] \in D
    BY <1>1
  <2>2. F(upTo)[r[1]] = 0 /\ F(upTo)[r[2]] = upTo[r[2] - 1] + w[r[2]]
    <3> HIDE DEF D, upTo
    <3> QED
      BY <1>1, <2>1
  <2> HIDE DEF upTo, F
  <2> QED
    BY <1>5, <2>2
<1>8. upTo[r[2]] = 0 + w[r[2]]
  <2> HIDE DEF upTo
  <2> QED
    BY <1>1, <1>7
<1>9. 0 + w[r[2]] = w[r[2]]
  <2> HIDE DEF upTo
  <2>1. \A n \in Nat : 0 + n = n
    OBVIOUS
  <2> QED
    BY <2>1
<1> HIDE DEF upTo
<1> QED
  BY <1>6, <1>8, <1>9

LEMMA OneBlock ==
  ASSUME request \in Requests, NEW r \in Parts(Whole), Blocks(r) <= 1
  PROVE  /\ Weight(request.derivation, r) \in Nat
         /\ Weight(request.derivation, r) > request.maxWitness => Cause
<1>1. /\ Whole \in Nat \X Nat /\ Whole[1] = request.lo /\ Whole[2] = request.hi
      /\ request.lo \in Nat /\ request.hi \in Nat
  BY RequestFacts
<1>2. /\ r \in Nat \X Nat /\ r[1] \in Nat /\ r[2] \in Nat
      /\ request.lo <= r[1] /\ r[1] < r[2] /\ r[2] <= request.hi
  BY <1>1, PartFacts
<1>3. r[2] - r[1] = 1
  BY <1>2 DEF Blocks
<1>4. r[2] \in (request.lo + 1)..request.hi
  BY <1>1, <1>2
<1>5. request.derivation[r[2]] \in Nat
  BY <1>4, ProverAssumption
<1>6. Weight(request.derivation, r) = request.derivation[r[2]]
  BY <1>2, <1>3, <1>5, WeightOne
<1> QED
  BY <1>4, <1>5, <1>6 DEF Cause

LEMMA AfterCompleteKeeps ==
  ASSUME ProverInv, Running, NEW m \in inbox, NEW j \in jobs, j.range = m.task.job, Steps(m),
         j.pc = "complete", AfterComplete(j, m.outcome)
  PROVE  ProverInv'
<1>1. /\ request \in Requests /\ JobInv(j) /\ j \in JobRecords /\ j.range \in Nat \X Nat
      /\ m.task \in Mine(j) /\ IsAnswer(m)
  BY JobFacts, MessageFacts
<1>2. Mine(j) = {Complete(j)} /\ m.task = Complete(j)
  BY <1>1 DEF JobInv
<1>3. /\ m.task.job = j.range /\ m.task.kind = "complete" /\ m.task.range = j.range
      /\ m.task.force = (Blocks(j.range) = 0) /\ m.task.seek = ~request.skipDerivation
  BY <1>2 DEF Complete, Task
<1>4. CASE m.outcome \notin {"BlockCountError", "WitnessSizeError", "NotSeekingProof"}
  <2>1. Return(j, m.outcome)
    BY <1>4 DEF AfterComplete
  <2>2. ResultInv([range |-> j.range, split |-> ~j.snark, outcome |-> m.outcome])
    BY <1>3, <1>4, WholeResult
  <2> QED
    BY <2>1, <2>2, ReturnStep DEF Steps
<1>5. CASE m.outcome \in {"BlockCountError", "WitnessSizeError", "NotSeekingProof"}
  <2>1. m.outcome = Refusal(m.task)
    BY <1>1, <1>5 DEF IsAnswer
  <2>2. pc = "wait" /\ j.range \in Parts(Whole)
    <3>1. ~(Blocks(j.range) = 0 /\ ~request.skipDerivation)
      BY <1>3, <1>5, <2>1, RefusalFacts
    <3> QED
      BY <3>1, JobFacts
  <2>3. CASE request.maxExecutions = 0
    <3>1. Return(j, "OtherError")
      BY <1>5, <2>3 DEF AfterComplete
    <3>2. ResultInv([range |-> j.range, split |-> ~j.snark, outcome |-> "OtherError"])
      BY <2>3 DEF ResultInv, Cause
    <3> QED
      BY <3>1, <3>2, ReturnStep DEF Steps
  <2>4. CASE request.maxExecutions # 0 /\ request.skipDerivation
    <3>1. StartExecutions(j)
      BY <1>5, <2>4 DEF AfterComplete
    <3>2. Mine(j) = {m.task} /\ m.task.kind # "execution" /\ j.pc \in {"complete", "derivation"}
      BY <1>2, <1>3
    <3> QED
      BY <2>2, <2>4, <3>1, <3>2, StartKeeps
  <2>5. CASE request.maxExecutions # 0 /\ ~request.skipDerivation
    <3>1. PICK k, t, N : /\ k = [j EXCEPT !.pc = "derivation"] /\ t = DerivationOnly(j) /\ N = {t}
      OBVIOUS
    <3>2. /\ jobs' = (jobs \ {j}) \cup {k} /\ channel' = Append(channel, t)
          /\ results' = results /\ pc' = pc /\ need' = need
      BY <1>5, <2>5, <3>1 DEF AfterComplete, Update
    <3>3. k = [range |-> j.range, snark |-> j.snark, pc |-> "derivation", need |-> j.need, done |-> j.done]
      BY <1>1, <3>1, JobFields
    <3>4. k.range = j.range /\ k.snark = j.snark /\ k.pc = "derivation" /\ k.done = j.done /\ k \in JobRecords
      BY <1>1, <3>3, JobFields DEF JobRecords
    <3>5. t.job = j.range /\ t.kind = "derivation"
      BY <3>1 DEF DerivationOnly, Task
    <3>6. IsTask(t) /\ t \in TaskRecords
      <4>1. j.snark \in BOOLEAN /\ (j.snark \/ j.range # Whole)
        BY <1>1, JobFields DEF JobInv
      <4>2. IsTask(t)
        BY <1>1, <2>2, <3>1, <4>1, NewTasks
      <4> QED
        BY <4>2 DEF IsTask
    <3>7. t \notin Tasks
      BY <1>2, <1>3, <3>5 DEF Mine
    <3>8. Moved(m, N)
      <4>1. channel \in Seq(TaskRecords) /\ IsInjective(channel)
        BY DEF ProverInv, TasksInv, PlacedOnce
      <4>2. t \notin Range(channel)
        BY <3>7 DEF Tasks, QueueTasks
      <4>3. channel' \in Seq(TaskRecords) /\ IsInjective(channel') /\ Range(channel') = Range(channel) \cup N
        BY <3>1, <3>2, <3>6, <4>1, <4>2, AppendRange
      <4> QED
        BY <3>1, <3>2, <3>5, <3>6, <3>7, <4>3 DEF Moved, Steps
    <3>9. Mine(k)' = {t}
      <4>1. TasksInv
        BY DEF ProverInv
      <4>2. Mine(k)' = (Mine(k) \ {m.task}) \cup N
        BY <3>4, <3>8, <4>1, MovedMine
      <4>3. Mine(k) = {m.task}
        BY <1>2, <3>4 DEF Mine
      <4> QED
        BY <3>1, <4>2, <4>3
    <3>10. JobInv(k)'
      <4>1. request' = request
        BY DEF Steps
      <4>2. Whole' = Whole
        BY <4>1, WholeKept
      <4>3. DerivationOnly(k)' = t
        BY <3>1, <3>4 DEF DerivationOnly, Task
      <4>4. (j.snark \/ j.range # Whole) /\ j.done = {}
        BY <1>1 DEF JobInv
      <4> QED
        BY <2>5, <3>4, <3>9, <4>1, <4>2, <4>3, <4>4 DEF JobInv
    <3> QED
      BY <2>2, <3>2, <3>4, <3>8, <3>10, UpdateStep DEF Steps
  <2> QED
    BY <2>3, <2>4, <2>5
<1> QED
  BY <1>4, <1>5

LEMMA AfterDerivationKeeps ==
  ASSUME ProverInv, Running, NEW m \in inbox, NEW j \in jobs, j.range = m.task.job, Steps(m),
         j.pc = "derivation", AfterDerivation(j, m.outcome)
  PROVE  ProverInv'
<1>1. /\ request \in Requests /\ JobInv(j) /\ j \in JobRecords /\ j.range \in Nat \X Nat
      /\ m.task \in Mine(j) /\ IsAnswer(m)
  BY JobFacts, MessageFacts
<1>2. Mine(j) = {DerivationOnly(j)} /\ m.task = DerivationOnly(j) /\ request.maxExecutions # 0
  BY <1>1 DEF JobInv
<1>3. m.task.kind = "derivation" /\ m.task.seek = FALSE /\ m.task.range = j.range
  BY <1>2 DEF DerivationOnly, Task
<1>4. pc = "wait" /\ j.range \in Parts(Whole)
  BY JobFacts
<1>5. (m.outcome = Refusal(m.task) /\ m.outcome # "none") \/ m.outcome = "OtherError"
  BY <1>1, <1>3 DEF IsAnswer
<1>6. m.outcome \in {"NotSeekingProof", "WitnessSizeError", "OtherError"}
  <2>1. NumExecutions(m.task) = 0 /\ request.maxExecutions \in Nat
    BY <1>1, <1>3, RequestFacts DEF NumExecutions
  <2>2. m.outcome # "BlockCountError"
    BY <1>5, <2>1, RefusalFacts
  <2>3. m.outcome \in {"WitnessSizeError", "BlockCountError", "NotSeekingProof", "none", "OtherError"}
    BY <1>5, RefusalFacts
  <2> QED
    BY <1>5, <2>2, <2>3
<1>7. CASE m.outcome = "NotSeekingProof"
  <2>1. StartExecutions(j)
    BY <1>7 DEF AfterDerivation
  <2>2. Mine(j) = {m.task} /\ m.task.kind # "execution" /\ j.pc \in {"complete", "derivation"}
    BY <1>2, <1>3
  <2> QED
    BY <1>2, <1>4, <2>1, <2>2, StartKeeps
<1>8. CASE m.outcome = "WitnessSizeError"
  <2>1. Return(j, "WitnessSizeError")
    BY <1>8 DEF AfterDerivation
  <2>2. WitnessSize(m.task) > request.maxWitness
    BY <1>5, <1>8, RefusalFacts
  <2>3. WitnessSize(m.task) = 0 + Weight(request.derivation, j.range)
    BY <1>3 DEF WitnessSize
  <2>4. Blocks(j.range) <= 1 => Weight(request.derivation, j.range) > request.maxWitness
    <3>1. SUFFICES ASSUME Blocks(j.range) <= 1
                   PROVE  Weight(request.derivation, j.range) \in Nat
      BY <2>2, <2>3
    <3> QED
      BY <1>1, <1>4, <3>1, OneBlock
  <2>5. Blocks(j.range) <= 1 => Cause
    BY <1>1, <1>4, <2>4, OneBlock
  <2>6. PICK n : n = [range |-> j.range, split |-> ~j.snark, outcome |-> "WitnessSizeError"]
    OBVIOUS
  <2>7. ResultInv(n)
    BY <2>5, <2>6 DEF ResultInv
  <2> QED
    BY <2>1, <2>6, <2>7, ReturnStep DEF Steps
<1>9. CASE m.outcome = "OtherError"
  <2>1. Return(j, m.outcome)
    BY <1>9 DEF AfterDerivation
  <2>2. ResultInv([range |-> j.range, split |-> ~j.snark, outcome |-> m.outcome])
    BY <1>3, <1>9, WholeResult
  <2> QED
    BY <2>1, <2>2, ReturnStep DEF Steps
<1> QED
  BY <1>6, <1>7, <1>8, <1>9

\* The parts P are what job j waits for.
CountsAs(j, P) ==
  /\ IsFiniteSet(j.done) /\ IsFiniteSet(P) /\ j.done \cap P = {}
  /\ j.need = Cardinality(j.done) + Cardinality(P)
  /\ Disjoint(j.done \cup P, j.range)
  /\ ~request.skipAwait => Covers(j.done \cup P, j.range)
  /\ \A r \in j.done : IsExecuted(r)

LEMMA CountedNext ==
  ASSUME Kept, NEW j, NEW P, CountsAs(j, P), PartsOf(j)' = P
  PROVE  Counted(j)'
<1>1. request' = request
  BY DEF Kept
<1>2. ASSUME NEW r \in j.done PROVE IsExecuted(r)'
  <2>1. IsExecuted(r)
    BY DEF CountsAs
  <2> QED
    BY <2>1, ProvenKept
<1> QED
  BY <1>1, <1>2 DEF Counted, CountsAs

LEMMA ExecutionFacts ==
  ASSUME ProverInv, Running, NEW m \in inbox, NEW j \in jobs, j.range = m.task.job,
         j.pc = "executions"
  PROVE  /\ request \in Requests /\ j \in JobRecords /\ TasksInv /\ pc = "wait"
         /\ j.range \in Parts(Whole) /\ j.range \in Nat \X Nat /\ (j.snark \/ j.range # Whole)
         /\ CountsAs(j, PartsOf(j)) /\ m.task \in Mine(j)
         /\ \A t \in Mine(j) : t = ExecutionOnly(j, t.range) /\ t.kind = "execution"
         /\ PartsOf(j) = {t.range : t \in Mine(j)}
         /\ m.task.range \in PartsOf(j) /\ m.task.range \in Parts(j.range)
         /\ Blocks(m.task.range) \in Nat \ {0}
<1>1. /\ request \in Requests /\ j \in JobRecords /\ pc = "wait" /\ JobInv(j)
      /\ j.range \in Parts(Whole) /\ j.range \in Nat \X Nat
  BY JobFacts
<1>2. TasksInv /\ m.task \in Mine(j)
  BY MessageFacts DEF ProverInv
<1>3. /\ Counted(j) /\ (j.snark \/ j.range # Whole)
      /\ \A t \in Mine(j) : t = ExecutionOnly(j, t.range)
  BY <1>1 DEF JobInv
<1>4. \A t \in Mine(j) : t.kind = "execution"
  BY <1>3 DEF ExecutionOnly, Task
<1>5. CountsAs(j, PartsOf(j))
  BY <1>3 DEF Counted, CountsAs
<1>6. PartsOf(j) = {t.range : t \in Mine(j)}
  BY <1>4, PartsOfMine
<1>7. m.task.range \in PartsOf(j) /\ m.task.range \in Parts(j.range)
  <2>1. m.task.range \in PartsOf(j)
    BY <1>2, <1>6
  <2> QED
    BY <1>5, <2>1 DEF CountsAs, Disjoint
<1>8. Blocks(m.task.range) \in Nat \ {0}
  BY <1>1, <1>7, PartFacts DEF Blocks
<1> QED
  BY <1>1, <1>2, <1>3, <1>4, <1>5, <1>6, <1>7, <1>8

LEMMA ExecutionAnswer ==
  ASSUME ProverInv, Running, NEW m \in inbox, NEW j \in jobs, j.range = m.task.job,
         j.pc = "executions"
  PROVE  \/ m.outcome = "Ok" /\ IsExecuted(m.task.range)
         \/ m.outcome = "NotAwaitingProof" /\ request.skipAwait
         \/ m.outcome = "WitnessSizeError" /\ Blocks(m.task.range) # 1
         \/ /\ m.outcome \in {"ExecutionError", "OtherError"}
            /\ [outcome |-> m.outcome, task |-> m.task] \in errors
<1>1. m.task = ExecutionOnly(j, m.task.range) /\ Blocks(m.task.range) # 0 /\ request \in Requests
  BY ExecutionFacts
<1>2. /\ m.task.seek = TRUE /\ m.task.kind = "execution" /\ m.task.force = (Blocks(m.task.range) = 1)
  BY <1>1 DEF ExecutionOnly, Task
<1>3. IsAnswer(m)
  BY MessageFacts
<1>4. Name(m.task) = [execution |-> TRUE, range |-> m.task.range]
  BY <1>1, <1>2 DEF Name
<1>5. NumExecutions(m.task) = 0 /\ request.maxExecutions \in Nat
  BY <1>1, <1>2, RequestFacts DEF NumExecutions
<1>6. Refusal(m.task) \in {"WitnessSizeError", "none"}
  BY <1>2, <1>5, RefusalFacts
<1>7. Refusal(m.task) = "WitnessSizeError" => Blocks(m.task.range) # 1
  BY <1>2, RefusalFacts
<1> QED
  BY <1>2, <1>3, <1>4, <1>6, <1>7 DEF IsAnswer, IsExecuted

\* One part is seen by the job, and N takes its place.
LEMMA PartSeen ==
  ASSUME ProverInv, Running, NEW m \in inbox, NEW j \in jobs, j.range = m.task.job,
         j.pc = "executions", NEW k, k.range = j.range, NEW N, Moved(m, N)
  PROVE  /\ PartsOf(k)' = (PartsOf(j) \ {m.task.range}) \cup {t.range : t \in {u \in N : u.kind = "execution"}}
         /\ Mine(k)' = (Mine(j) \ {m.task}) \cup N
         /\ \A t \in Mine(j) : t # m.task => t.range \in PartsOf(j) \ {m.task.range}
<1>1. /\ TasksInv /\ m.task \in Mine(j)
      /\ \A t \in Mine(j) : t = ExecutionOnly(j, t.range) /\ t.kind = "execution"
      /\ PartsOf(j) = {t.range : t \in Mine(j)}
  BY ExecutionFacts
<1>2. Mine(k) = Mine(j)
  BY DEF Mine
<1>3. Mine(k)' = (Mine(j) \ {m.task}) \cup N
  BY <1>1, <1>2, MovedMine
<1>4. PartsOf(k)' = {t.range : t \in {u \in (Mine(j) \ {m.task}) \cup N : u.kind = "execution"}}
  BY <1>1, <1>2, MovedParts
<1>5. \A t \in Mine(j) : t.range = m.task.range => t = m.task
  BY <1>1
<1> QED
  BY <1>1, <1>3, <1>4, <1>5

\* What is left after the part is counted by k.
LEMMA AdvanceKeeps ==
  ASSUME ProverInv, Running, NEW m \in inbox, NEW j \in jobs, j.range = m.task.job, Steps(m),
         j.pc = "executions", NEW k \in JobRecords, k.range = j.range, k.snark = j.snark,
         k.pc = "executions", CountsAs(k, PartsOf(j) \ {m.task.range}), Advance(j, k)
  PROVE  ProverInv'
<1>1. /\ request \in Requests /\ j \in JobRecords /\ TasksInv /\ pc = "wait"
      /\ j.range \in Parts(Whole) /\ j.range \in Nat \X Nat /\ (j.snark \/ j.range # Whole)
      /\ \A t \in Mine(j) : t = ExecutionOnly(j, t.range) /\ t.kind = "execution"
      /\ channel \in Seq(TaskRecords) /\ IsInjective(channel)
  BY ExecutionFacts DEF TasksInv, PlacedOnce
<1>2. PICK P : P = PartsOf(j) \ {m.task.range}
  OBVIOUS
<1>3. CountsAs(k, P) /\ IsFiniteSet(P) /\ IsFiniteSet(k.done) /\ Cardinality(P) \in Nat
      /\ Cardinality(k.done) \in Nat /\ k.need = Cardinality(k.done) + Cardinality(P)
  BY <1>2, FS_CardinalityType DEF CountsAs
<1>4. request' = request /\ files' = files /\ errors' = errors /\ busy' = busy /\ inbox' = inbox \ {m}
      /\ Kept /\ Whole' = Whole
  BY WholeKept DEF Steps, Kept
<1>5. CASE Cardinality(k.done) < k.need
  <2>1. jobs' = (jobs \ {j}) \cup {k} /\ UNCHANGED <<results, pc, need, channel>>
    BY <1>5 DEF Advance, Update
  <2>2. Moved(m, {})
    BY <1>1, <1>4, <2>1 DEF Moved
  <2>3. PartsOf(k)' = P /\ Mine(k)' = Mine(j) \ {m.task}
    <3>1. {t.range : t \in {u \in {} : u.kind = "execution"}} = {}
      OBVIOUS
    <3>2. PartsOf(k)' = P \cup {t.range : t \in {u \in {} : u.kind = "execution"}}
          /\ Mine(k)' = (Mine(j) \ {m.task}) \cup {}
      BY <1>2, <2>2, PartSeen
    <3> QED
      BY <3>1, <3>2
  <2>4. Counted(k)'
    BY <1>3, <1>4, <2>3, CountedNext
  <2>5. \A t \in Mine(j) : t = ExecutionOnly(k, t.range)'
    BY <1>1 DEF ExecutionOnly
  <2>6. JobInv(k)'
    BY <1>1, <1>4, <2>3, <2>4, <2>5 DEF JobInv
  <2> QED
    BY <1>1, <2>1, <2>2, <2>6, UpdateStep DEF Steps
<1>6. CASE ~(Cardinality(k.done) < k.need)
  <2>1. Combine(j, k)
    BY <1>6 DEF Advance
  <2>2. P = {}
    <3>1. Cardinality(P) = 0
      BY <1>3, <1>6
    <3> QED
      BY <1>3, <3>1, FS_EmptySet
  <2>3. CASE request.skipAwait
    <3>1. Return(j, "NotAwaitingProof")
      BY <2>1, <2>3 DEF Combine
    <3>2. ResultInv([range |-> j.range, split |-> ~j.snark, outcome |-> "NotAwaitingProof"])
      BY <2>3 DEF ResultInv
    <3> QED
      BY <3>1, <3>2, ReturnStep DEF Steps
  <2>4. CASE ~request.skipAwait /\ request.skipDerivation
    <3>1. Return(j, "DerivationProofError")
      BY <2>1, <2>4 DEF Combine
    <3>2. Covers(k.done, j.range) /\ \A x \in k.done : IsExecuted(x)
      <4>1. k.done \cup P = k.done
        BY <2>2
      <4> QED
        BY <1>3, <2>4, <4>1 DEF CountsAs
    <3>3. ASSUME NEW b \in (j.range[1] + 1)..j.range[2] PROVE BlockExecuted(b)
      <4>1. PICK x \in k.done : Has(x, b)
        BY <3>2 DEF Covers
      <4>2. PICK f \in files : f.name = [execution |-> TRUE, range |-> x]
        BY <3>2 DEF IsExecuted, IsFile
      <4>3. f.name.execution /\ f.name.range = x
        BY <4>2
      <4> QED
        BY <4>1, <4>3 DEF BlockExecuted
    <3>4. PICK n : n = [range |-> j.range, split |-> ~j.snark, outcome |-> "DerivationProofError"]
      OBVIOUS
    <3>5. n.range = j.range /\ n.outcome = "DerivationProofError"
          /\ n = [range |-> n.range, split |-> n.split, outcome |-> n.outcome]
      BY <3>4
    <3>6. ResultInv(n)
      BY <2>4, <3>3, <3>5 DEF ResultInv
    <3> QED
      BY <3>1, <3>4, <3>6, ReturnStep DEF Steps
  <2>5. CASE ~request.skipAwait /\ ~request.skipDerivation
    <3>1. PICK g, t, N : g = [k EXCEPT !.pc = "combined"] /\ t = Combined(j) /\ N = {t}
      OBVIOUS
    <3>2. /\ jobs' = (jobs \ {j}) \cup {g} /\ channel' = Append(channel, t)
          /\ results' = results /\ pc' = pc /\ need' = need
      BY <2>1, <2>5, <3>1 DEF Combine, Update
    <3>3. g = [range |-> k.range, snark |-> k.snark, pc |-> "combined", need |-> k.need, done |-> k.done]
      BY <3>1, JobFields
    <3>4. g.range = j.range /\ g.snark = j.snark /\ g.pc = "combined" /\ g.need = k.need
          /\ g.done = k.done /\ g \in JobRecords
      BY <3>3, JobFields DEF JobRecords
    <3>5. t.job = j.range /\ t.kind = "combined"
      BY <3>1 DEF Combined, Task
    <3>6. IsTask(t) /\ t \in TaskRecords
      <4>1. j.snark \in BOOLEAN
        BY <1>1, JobFields
      <4>2. IsTask(t)
        BY <1>1, <2>5, <3>1, <4>1, NewTasks
      <4> QED
        BY <4>2 DEF IsTask
    <3>7. t \notin Tasks
      BY <1>1, <3>5 DEF Mine
    <3>8. Moved(m, N)
      <4>1. t \notin Range(channel)
        BY <3>7 DEF Tasks, QueueTasks
      <4>2. channel' \in Seq(TaskRecords) /\ IsInjective(channel') /\ Range(channel') = Range(channel) \cup N
        BY <1>1, <3>1, <3>2, <3>6, <4>1, AppendRange
      <4> QED
        BY <1>4, <3>1, <3>2, <3>5, <3>6, <3>7, <4>2 DEF Moved
    <3>9. PartsOf(g)' = P /\ Mine(g)' = {t}
      <4>1. /\ PartsOf(g)' = P \cup {u.range : u \in {v \in N : v.kind = "execution"}}
            /\ Mine(g)' = (Mine(j) \ {m.task}) \cup N
            /\ \A u \in Mine(j) : u # m.task => u.range \in P
        BY <1>2, <3>4, <3>8, PartSeen
      <4>2. {u.range : u \in {v \in N : v.kind = "execution"}} = {}
        BY <3>1, <3>5
      <4>3. Mine(j) \ {m.task} = {}
        BY <2>2, <4>1
      <4> QED
        BY <3>1, <4>1, <4>2, <4>3
    <3>10. Counted(g)'
      <4>1. CountsAs(g, P)
        BY <1>3, <3>4 DEF CountsAs
      <4> QED
        BY <1>4, <3>9, <4>1, CountedNext
    <3>11. JobInv(g)'
      <4>1. Combined(g)' = t
        BY <3>1, <3>4 DEF Combined, Task
      <4> QED
        BY <1>1, <1>4, <3>4, <3>9, <3>10, <4>1 DEF JobInv
    <3> QED
      BY <1>1, <3>2, <3>4, <3>8, <3>11, UpdateStep DEF Steps
  <2> QED
    BY <2>3, <2>4, <2>5
<1> QED
  BY <1>5, <1>6

LEMMA SplitKeeps ==
  ASSUME ProverInv, Running, NEW m \in inbox, NEW j \in jobs, j.range = m.task.job, Steps(m),
         j.pc = "executions", Blocks(m.task.range) > 1, SplitExecution(j, m.task.range)
  PROVE  ProverInv'
<1>1. /\ request \in Requests /\ j \in JobRecords /\ TasksInv /\ pc = "wait"
      /\ j.range \in Parts(Whole) /\ j.range \in Nat \X Nat /\ (j.snark \/ j.range # Whole)
      /\ \A t \in Mine(j) : t = ExecutionOnly(j, t.range) /\ t.kind = "execution"
      /\ channel \in Seq(TaskRecords) /\ IsInjective(channel)
      /\ CountsAs(j, PartsOf(j)) /\ m.task.range \in PartsOf(j)
      /\ PartsOf(j) = {t.range : t \in Mine(j)}
  BY ExecutionFacts DEF TasksInv, PlacedOnce
<1>2. PICK r, P, S, a, b, T, Q :
        /\ r = m.task.range /\ P = PartsOf(j) /\ S = j.done \cup P
        /\ a = Halves(r)[1] /\ b = Halves(r)[2]
        /\ T = (S \ {r}) \cup {a, b} /\ Q = (P \ {r}) \cup {a, b}
  OBVIOUS
<1>3. /\ IsFiniteSet(j.done) /\ IsFiniteSet(P) /\ j.done \cap P = {} /\ r \in P
      /\ j.need = Cardinality(j.done) + Cardinality(P) /\ Disjoint(S, j.range)
      /\ ~request.skipAwait => Covers(S, j.range)
      /\ \A x \in j.done : IsExecuted(x)
  BY <1>1, <1>2 DEF CountsAs
<1>4. /\ a \in Parts(j.range) /\ b \in Parts(j.range) /\ a # b /\ a \notin S /\ b \notin S
      /\ Disjoint(T, j.range) /\ (Covers(S, j.range) => Covers(T, j.range))
  <2>1. r \in S /\ Blocks(r) > 1
    BY <1>2, <1>3
  <2>2. T = (S \ {r}) \cup {Halves(r)[1], Halves(r)[2]}
    BY <1>2
  <2>3. j.range \in Nat \X Nat /\ Disjoint(S, j.range)
    BY <1>1, <1>3
  <2>4. /\ Halves(r)[1] \in Parts(j.range) /\ Halves(r)[2] \in Parts(j.range)
        /\ Halves(r)[1] # Halves(r)[2] /\ Halves(r)[1] \notin S /\ Halves(r)[2] \notin S
        /\ Disjoint(T, j.range) /\ (Covers(S, j.range) => Covers(T, j.range))
    BY <2>1, <2>2, <2>3, SplitDisjoint
  <2> QED
    BY <1>2, <2>4
<1>5. T = j.done \cup Q /\ j.done \cap Q = {}
  BY <1>2, <1>3, <1>4
<1>6. IsFiniteSet(Q) /\ Cardinality(Q) = Cardinality(P) + 1 /\ Cardinality(P) \in Nat
      /\ Cardinality(j.done) \in Nat
  <2>1. Cardinality(P) \in Nat /\ Cardinality(j.done) \in Nat
    BY <1>3, FS_CardinalityType
  <2>2. IsFiniteSet(P \ {r}) /\ Cardinality(P \ {r}) = Cardinality(P) - 1
    BY <1>3, FS_RemoveElement
  <2>3. PICK U : U = (P \ {r}) \cup {a}
    OBVIOUS
  <2>4. a \notin P \ {r} /\ b \notin U /\ Q = U \cup {b}
    BY <1>2, <1>4, <2>3
  <2>5. IsFiniteSet(U) /\ Cardinality(U) = Cardinality(P \ {r}) + 1
    BY <2>2, <2>3, <2>4, FS_AddElement
  <2>6. IsFiniteSet(Q) /\ Cardinality(Q) = Cardinality(U) + 1
    BY <2>4, <2>5, FS_AddElement
  <2> QED
    BY <2>1, <2>2, <2>5, <2>6
<1>7. PICK k, s, t, N, q : /\ k = [j EXCEPT !.need = j.need + 1]
                           /\ s = ExecutionOnly(j, a) /\ t = ExecutionOnly(j, b)
                           /\ N = {s, t} /\ q = <<s, t>>
  OBVIOUS
<1>8. /\ jobs' = (jobs \ {j}) \cup {k} /\ channel' = channel \o q
      /\ results' = results /\ pc' = pc /\ need' = need
  BY <1>2, <1>7 DEF SplitExecution, Update
<1>9. k.range = j.range /\ k.snark = j.snark /\ k.pc = "executions" /\ k.need = j.need + 1
      /\ k.done = j.done /\ k \in JobRecords
  <2>1. j = [range |-> j.range, snark |-> j.snark, pc |-> j.pc, need |-> j.need, done |-> j.done]
    BY <1>1, JobFields
  <2>2. k = [range |-> j.range, snark |-> j.snark, pc |-> j.pc, need |-> j.need + 1, done |-> j.done]
    BY <1>7, <2>1
  <2> QED
    BY <1>1, <2>2, JobFields DEF JobRecords
<1>10. /\ s.job = j.range /\ s.kind = "execution" /\ s.range = a
       /\ t.job = j.range /\ t.kind = "execution" /\ t.range = b /\ s # t
  BY <1>4, <1>7 DEF ExecutionOnly, Task
<1>11. IsTask(s) /\ IsTask(t) /\ s \in TaskRecords /\ t \in TaskRecords
  <2>1. j.snark \in BOOLEAN
    BY <1>1, JobFields
  <2>2. IsTask(s) /\ IsTask(t)
    BY <1>1, <1>4, <1>7, <2>1, NewTasks
  <2> QED
    BY <2>2 DEF IsTask
<1>12. s \notin Tasks /\ t \notin Tasks
  <2>1. \A u \in Mine(j) : u.range \in P
    BY <1>1, <1>2
  <2>2. a \notin P /\ b \notin P
    BY <1>2, <1>4
  <2> QED
    BY <1>10, <2>1, <2>2 DEF Mine
<1>13. q \in Seq(TaskRecords) /\ Range(q) = N /\ IsInjective(q)
  <2>1. q \in Seq(TaskRecords) /\ DOMAIN q = 1..2 /\ q[1] = s /\ q[2] = t
    BY <1>7, <1>11
  <2>2. Range(q) = N
    <3>1. \A i : i \in 1..2 <=> i = 1 \/ i = 2
      OBVIOUS
    <3> QED
      BY <1>7, <2>1, <3>1 DEF Range
  <2>3. IsInjective(q)
    <3>1. \A i \in 1..2 : i = 1 \/ i = 2
      OBVIOUS
    <3> QED
      BY <1>10, <2>1, <3>1 DEF IsInjective
  <2> QED
    BY <2>1, <2>2, <2>3
<1>14. Moved(m, N)
  <2>1. Range(channel) \cap Range(q) = {}
    BY <1>7, <1>12, <1>13 DEF Tasks, QueueTasks
  <2>2. channel' \in Seq(TaskRecords) /\ IsInjective(channel') /\ Range(channel') = Range(channel) \cup N
    BY <1>1, <1>8, <1>13, <2>1, ConcatRange
  <2>3. N \cap Tasks = {} /\ \A u \in N : IsTask(u) /\ u.job = m.task.job
    BY <1>7, <1>10, <1>11, <1>12
  <2> QED
    BY <1>8, <2>2, <2>3 DEF Moved, Steps
<1>15. PartsOf(k)' = Q /\ Mine(k)' = (Mine(j) \ {m.task}) \cup N
  <2>1. /\ PartsOf(k)' = (PartsOf(j) \ {m.task.range}) \cup {u.range : u \in {v \in N : v.kind = "execution"}}
        /\ Mine(k)' = (Mine(j) \ {m.task}) \cup N
    BY <1>9, <1>14, PartSeen
  <2>2. {u.range : u \in {v \in N : v.kind = "execution"}} = {a, b}
    BY <1>7, <1>10
  <2> QED
    BY <1>2, <2>1, <2>2
<1>16. Kept /\ request' = request /\ Whole' = Whole
  BY WholeKept DEF Steps, Kept
<1>17. Counted(k)'
  <2>1. CountsAs(k, Q)
    BY <1>3, <1>4, <1>5, <1>6, <1>9 DEF CountsAs
  <2> QED
    BY <1>15, <1>16, <2>1, CountedNext
<1>18. JobInv(k)'
  <2>1. \A u \in (Mine(j) \ {m.task}) \cup N : u = ExecutionOnly(j, u.range)
    BY <1>1, <1>7, <1>10
  <2>2. \A u \in (Mine(j) \ {m.task}) \cup N : u = ExecutionOnly(k, u.range)'
    BY <1>9, <2>1 DEF ExecutionOnly
  <2> QED
    BY <1>1, <1>9, <1>15, <1>16, <1>17, <2>2 DEF JobInv
<1> QED
  BY <1>1, <1>8, <1>9, <1>14, <1>18, UpdateStep DEF Steps

LEMMA AfterExecutionKeeps ==
  ASSUME ProverInv, Running, NEW m \in inbox, NEW j \in jobs, j.range = m.task.job, Steps(m),
         j.pc = "executions", AfterExecution(j, m.task.range, m.outcome)
  PROVE  ProverInv'
<1>1. /\ request \in Requests /\ j \in JobRecords /\ CountsAs(j, PartsOf(j))
      /\ m.task.range \in PartsOf(j) /\ m.task.range \in Parts(j.range)
      /\ Blocks(m.task.range) \in Nat \ {0} /\ j.range \in Nat \X Nat
  BY ExecutionFacts
<1>2. PICK r, P : r = m.task.range /\ P = PartsOf(j)
  OBVIOUS
<1>3. /\ IsFiniteSet(j.done) /\ IsFiniteSet(P) /\ j.done \cap P = {} /\ r \in P
      /\ j.need = Cardinality(j.done) + Cardinality(P) /\ Disjoint(j.done \cup P, j.range)
      /\ ~request.skipAwait => Covers(j.done \cup P, j.range)
      /\ \A x \in j.done : IsExecuted(x)
  BY <1>1, <1>2 DEF CountsAs
<1>4. IsFiniteSet(P \ {r}) /\ Cardinality(P \ {r}) = Cardinality(P) - 1
      /\ Cardinality(P) \in Nat /\ Cardinality(j.done) \in Nat
  BY <1>3, FS_RemoveElement, FS_CardinalityType
<1>5. j = [range |-> j.range, snark |-> j.snark, pc |-> j.pc, need |-> j.need, done |-> j.done]
  BY <1>1, JobFields
<1>6. CASE m.outcome = "Ok" /\ IsExecuted(r)
  <2>1. PICK k : k = [j EXCEPT !.done = j.done \cup {r}]
    OBVIOUS
  <2>2. Advance(j, k)
    BY <1>2, <1>6, <2>1 DEF AfterExecution
  <2>3. k = [range |-> j.range, snark |-> j.snark, pc |-> j.pc, need |-> j.need, done |-> j.done \cup {r}]
    BY <1>5, <2>1
  <2>4. k.range = j.range /\ k.snark = j.snark /\ k.pc = "executions" /\ k.need = j.need
        /\ k.done = j.done \cup {r}
    BY <2>3
  <2>5. k \in JobRecords
    <3>1. r \in Nat \X Nat
      BY <1>1, <1>2, PartFacts
    <3>2. j.done \cup {r} \in SUBSET (Nat \X Nat)
      BY <1>1, <3>1, JobFields
    <3> QED
      BY <1>1, <2>3, <3>2, JobFields DEF JobRecords
  <2>6. CountsAs(k, P \ {r})
    <3>1. r \notin j.done /\ k.done \cup (P \ {r}) = j.done \cup P /\ k.done \cap (P \ {r}) = {}
      BY <1>3, <2>4
    <3>2. IsFiniteSet(k.done) /\ Cardinality(k.done) = Cardinality(j.done) + 1
      BY <1>3, <2>4, <3>1, FS_AddElement
    <3>3. \A x \in k.done : IsExecuted(x)
      BY <1>3, <1>6, <2>4
    <3>4. k.need = Cardinality(k.done) + Cardinality(P \ {r})
      BY <1>3, <1>4, <2>4, <3>2
    <3>5. /\ Disjoint(k.done \cup (P \ {r}), k.range)
          /\ ~request.skipAwait => Covers(k.done \cup (P \ {r}), k.range)
      BY <1>3, <2>4, <3>1
    <3> QED
      BY <1>4, <3>1, <3>2, <3>3, <3>4, <3>5 DEF CountsAs
  <2> QED
    BY <1>2, <2>2, <2>4, <2>5, <2>6, AdvanceKeeps
<1>7. CASE m.outcome = "NotAwaitingProof" /\ request.skipAwait
  <2>1. PICK k : k = [j EXCEPT !.need = j.need - 1]
    OBVIOUS
  <2>2. Advance(j, k)
    BY <1>2, <1>7, <2>1 DEF AfterExecution
  <2>3. k = [range |-> j.range, snark |-> j.snark, pc |-> j.pc, need |-> j.need - 1, done |-> j.done]
    BY <1>5, <2>1
  <2>4. k.range = j.range /\ k.snark = j.snark /\ k.pc = "executions" /\ k.need = j.need - 1
        /\ k.done = j.done
    BY <2>3
  <2>5. k \in JobRecords
    BY <1>1, <2>3, JobFields DEF JobRecords
  <2>6. CountsAs(k, P \ {r})
    <3>1. Disjoint(k.done \cup (P \ {r}), j.range)
      <4>1. k.done \cup (P \ {r}) \subseteq j.done \cup P
        BY <2>4
      <4> QED
        BY <1>3, <4>1, SubsetDisjoint
    <3>2. k.done \cap (P \ {r}) = {}
      BY <1>3, <2>4
    <3> QED
      BY <1>3, <1>4, <1>7, <2>4, <3>1, <3>2 DEF CountsAs
  <2> QED
    BY <1>2, <2>2, <2>4, <2>5, <2>6, AdvanceKeeps
<1>8. CASE m.outcome \in {"WitnessSizeError", "ExecutionError"} /\ Blocks(r) # 1
  <2>1. Blocks(m.task.range) > 1
    BY <1>1, <1>2, <1>8
  <2>2. SplitExecution(j, m.task.range)
    BY <1>2, <1>8, <2>1 DEF AfterExecution
  <2> QED
    BY <2>1, <2>2, SplitKeeps
<1>9. CASE /\ m.outcome \in {"ExecutionError", "OtherError"}
           /\ [outcome |-> m.outcome, task |-> m.task] \in errors
           /\ m.outcome = "ExecutionError" => Blocks(r) = 1
  <2>1. PICK e, n : /\ e = [outcome |-> m.outcome, task |-> m.task]
                    /\ n = [range |-> j.range, split |-> ~j.snark, outcome |-> m.outcome]
    OBVIOUS
  <2>2. Return(j, m.outcome)
    BY <1>2, <1>9 DEF AfterExecution
  <2>3. e \in errors /\ e.outcome = m.outcome /\ e.task.job = j.range
    BY <1>9, <2>1
  <2>4. m.outcome = "OtherError" \/ Blocks(j.range) <= 1 => Cause
    BY <2>3 DEF Cause
  <2>5. ResultInv(n)
    BY <1>9, <2>1, <2>4 DEF ResultInv
  <2> QED
    BY <2>1, <2>2, <2>5, ReturnStep DEF Steps
<1>10. \/ m.outcome = "Ok" /\ IsExecuted(r)
       \/ m.outcome = "NotAwaitingProof" /\ request.skipAwait
       \/ m.outcome = "WitnessSizeError" /\ Blocks(r) # 1
       \/ /\ m.outcome \in {"ExecutionError", "OtherError"}
          /\ [outcome |-> m.outcome, task |-> m.task] \in errors
  BY <1>2, ExecutionAnswer
<1> QED
  BY <1>6, <1>7, <1>8, <1>9, <1>10

LEMMA AfterCombinedKeeps ==
  ASSUME ProverInv, Running, NEW m \in inbox, NEW j \in jobs, j.range = m.task.job, Steps(m),
         j.pc = "combined", Return(j, m.outcome)
  PROVE  ProverInv'
<1>1. JobInv(j) /\ m.task \in Mine(j) /\ IsAnswer(m) /\ IsTask(m.task)
  BY JobFacts, MessageFacts
<1>2. m.task = Combined(j)
  BY <1>1 DEF JobInv
<1>3. /\ m.task.kind = "combined" /\ m.task.range = j.range /\ m.task.force = TRUE
      /\ m.task.seek = TRUE
  BY <1>2 DEF Combined, Task
<1>4. ~request.skipDerivation
  BY <1>1, <1>3 DEF IsTask, Complete, DerivationOnly, ExecutionOnly, Task
<1>5. m.outcome \notin {"WitnessSizeError", "BlockCountError", "NotSeekingProof"}
  <2>1. Refusal(m.task) = "none"
    BY <1>3, RefusalFacts
  <2> QED
    BY <1>1, <2>1 DEF IsAnswer
<1>6. ResultInv([range |-> j.range, split |-> ~j.snark, outcome |-> m.outcome])
  BY <1>3, <1>4, <1>5, WholeResult
<1> QED
  BY <1>6, ReturnStep DEF Steps

LEMMA JobStepKeeps ==
  ASSUME ProverInv, Running, NEW m \in inbox, JobStep(m)
  PROVE  ProverInv'
<1>1. PICK j \in jobs :
        /\ j.range = m.task.job
        /\ CASE j.pc = "complete" -> AfterComplete(j, m.outcome)
             [] j.pc = "derivation" -> AfterDerivation(j, m.outcome)
             [] j.pc = "executions" -> AfterExecution(j, m.task.range, m.outcome)
             [] j.pc = "combined" -> Return(j, m.outcome)
  BY DEF JobStep
<1>2. Steps(m)
  BY DEF JobStep, Steps, diskVars
<1>3. j.pc \in {"complete", "derivation", "executions", "combined"}
  BY JobFacts, JobFields
<1>4. CASE j.pc = "complete"
  BY <1>1, <1>2, <1>4, AfterCompleteKeeps
<1>5. CASE j.pc = "derivation"
  BY <1>1, <1>2, <1>5, AfterDerivationKeeps
<1>6. CASE j.pc = "executions"
  BY <1>1, <1>2, <1>6, AfterExecutionKeeps
<1>7. CASE j.pc = "combined"
  BY <1>1, <1>2, <1>7, AfterCombinedKeeps
<1> QED
  BY <1>3, <1>4, <1>5, <1>6, <1>7

-----------------------------------------------------------------------------
(***************************************************************************)
(* prove().                                                                *)
(***************************************************************************)

LEMMA EndStep ==
  ASSUME ProverInv, request' = request, files' = files, pc' \in {"done", "failed"},
         DoneIsProven', FailureInv'
  PROVE  ProverInv'
<1>1. FilesInv' /\ request' \in Requests
  BY FilesSame DEF ProverInv
<1>2. ~Running'
  BY DEF Running
<1> QED
  BY <1>1, <1>2 DEF ProverInv

LEMMA TasksSame ==
  ASSUME TasksInv, UNCHANGED <<request, pc, jobs, channel, busy, inbox, files, errors>>
  PROVE  TasksInv' /\ Tasks' = Tasks /\ Kept
<1>1. Kept
  BY DEF Kept
<1>2. QueueTasks' = QueueTasks /\ BusyTasks' = BusyTasks /\ InboxTasks' = InboxTasks /\ Tasks' = Tasks
  BY DEF QueueTasks, BusyTasks, InboxTasks, Tasks
<1>3. PlacedOnce'
  BY <1>2 DEF TasksInv, PlacedOnce
<1>4. ASSUME NEW t \in Tasks' PROVE IsTask(t)'
  <2>1. IsTask(t)
    BY <1>2 DEF TasksInv
  <2> QED
    BY <2>1, TaskKept
<1>5. ASSUME NEW m \in inbox' PROVE m = [task |-> m.task, outcome |-> m.outcome] /\ IsAnswer(m)'
  <2>1. m = [task |-> m.task, outcome |-> m.outcome] /\ IsAnswer(m)
    BY DEF TasksInv
  <2> QED
    BY <1>1, <2>1, AnswerKept
<1> QED
  BY <1>1, <1>2, <1>3, <1>4, <1>5 DEF TasksInv

LEMMA StutterKeeps ==
  ASSUME ProverInv, UNCHANGED proverVars
  PROVE  ProverInv'
<1>1. UNCHANGED <<request, pc, pending, results, need, proofs, jobs, channel, busy, inbox, files, errors>>
  BY DEF proverVars, loopVars, taskVars, diskVars
<1>2. FilesInv' /\ request' \in Requests
  BY <1>1, FilesSame DEF ProverInv
<1>3. CASE Running
  <2>1. TasksInv' /\ Tasks' = Tasks /\ Kept
    BY <1>1, <1>3, TasksSame DEF ProverInv
  <2>2. UNCHANGED <<loopVars, jobs>>
    BY <1>1 DEF loopVars
  <2> QED
    BY <1>2, <1>3, <2>1, <2>2, FrameStep
<1>4. CASE ~Running
  <2>1. Whole' = Whole /\ (Cause' <=> Cause)
    BY <1>1, WholeKept DEF Cause
  <2>2. DoneIsProven' /\ FailureInv'
    BY <1>1, <2>1 DEF ProverInv, DoneIsProven, FailureInv
  <2> QED
    BY <1>1, <1>2, <1>4, <2>2 DEF ProverInv, Running
<1> QED
  BY <1>3, <1>4

LEMMA PreflightKeeps ==
  ASSUME ProverInv, Preflight
  PROVE  ProverInv'
<1>1. pc = "start" /\ pc' = "cut"
      /\ UNCHANGED <<request, pending, results, need, proofs, jobs, channel, busy, inbox, files>>
  BY DEF Preflight, taskVars, diskVars
<1>2. FilesInv'
  BY <1>1, FilesSame DEF ProverInv
<1>3. DoneIsProven' /\ FailureInv' /\ ~Running'
  BY <1>1 DEF DoneIsProven, FailureInv, Running
<1> QED
  BY <1>1, <1>2, <1>3 DEF ProverInv

LEMMA PreflightFailsKeeps ==
  ASSUME ProverInv, PreflightFails
  PROVE  ProverInv'
<1>1. PICK e : e = [outcome |-> "OtherError", task |-> <<>>]
  OBVIOUS
<1>2. pc' = "failed" /\ request' = request /\ files' = files /\ errors' = errors \cup {e}
  BY <1>1 DEF PreflightFails, diskVars
<1>3. e \in errors' /\ e.outcome = "OtherError"
  BY <1>1, <1>2
<1>4. Cause'
  BY <1>3 DEF Cause
<1>5. DoneIsProven' /\ FailureInv'
  BY <1>2, <1>4 DEF DoneIsProven, FailureInv
<1> QED
  BY <1>2, <1>5, EndStep

LEMMA RestartKeeps ==
  ASSUME ProverInv, Restart
  PROVE  ProverInv'
<1>1. /\ pc' = "start" /\ request' = request /\ files' = files
      /\ pending' = <<>> /\ jobs' = {} /\ channel' = <<>> /\ busy' = {} /\ inbox' = {}
      /\ results' = {} /\ need' = 0 /\ proofs' = {}
  BY DEF Restart, diskVars
<1>2. FilesInv'
  BY <1>1, FilesSame DEF ProverInv
<1>3. DoneIsProven' /\ FailureInv' /\ ~Running'
  BY <1>1 DEF DoneIsProven, FailureInv, Running
<1> QED
  BY <1>1, <1>2, <1>3 DEF ProverInv

LEMMA BeginKeeps ==
  ASSUME ProverInv, Start
  PROVE  ProverInv'
<1>1. /\ pc = "cut" /\ pc' = "wait" /\ request' = request /\ files' = files /\ request \in Requests
      /\ jobs' = {} /\ channel' = <<>> /\ busy' = {} /\ inbox' = {} /\ results' = {} /\ proofs' = {}
  BY DEF Start, ProverInv, taskVars, diskVars
<1>2. /\ Whole \in Nat \X Nat /\ Whole[1] < Whole[2] /\ request.maxDerivations \in Nat \ {0}
      /\ Whole' = Whole /\ Whole[1] = request.lo /\ Whole[2] = request.hi
  BY <1>1, RequestFacts, WholeKept
<1>3. PICK parts : parts = Chunks(Whole, request.maxDerivations)
  OBVIOUS
<1>4. PICK n \in Nat \ {0} : Tiles(parts, n, Whole)
  BY <1>2, <1>3, ChunksTile
<1>5. /\ parts \in [1..n -> Parts(Whole)] /\ Covers(Range(parts), Whole)
      /\ \A i, h \in 1..n : parts[i] = parts[h] => i = h
  BY <1>4 DEF Tiles, Differ
<1>6. DOMAIN parts = 1..n /\ Len(parts) = n
  BY <1>5
<1>7. pending' = [i \in 1..n |-> [range |-> parts[i], split |-> FALSE]] /\ need' = n
  BY <1>3, <1>6 DEF Start
<1>8. pending' \in Seq([range : Nat \X Nat, split : BOOLEAN]) /\ DOMAIN pending' = 1..n
      /\ Len(pending') = n
  <2>1. \A i \in 1..n : parts[i] \in Nat \X Nat
    BY <1>2, <1>5, PartFacts
  <2> QED
    BY <1>7, <2>1
<1>9. Outstanding' = parts
  <2>1. \A i \in 1..n : pending'[i].range = parts[i]
    BY <1>7
  <2>2. Outstanding' = [i \in 1..n |-> pending'[i].range]
    BY <1>8 DEF Outstanding
  <2>3. parts = [i \in 1..n |-> parts[i]]
    BY <1>5
  <2> QED
    BY <2>1, <2>2, <2>3
<1>10. PendingRanges' = Range(parts) /\ JobRanges' = {} /\ ResultRanges' = {} /\ Open' = Range(parts)
  BY <1>1, <1>9 DEF PendingRanges, JobRanges, ResultRanges, Open
<1>11. QueueTasks' = {} /\ BusyTasks' = {} /\ InboxTasks' = {} /\ Tasks' = {}
  BY <1>1 DEF QueueTasks, BusyTasks, InboxTasks, Tasks, Range
<1>12. TasksInv'
  <2>1. <<>> \in Seq(TaskRecords) /\ IsInjective(<<>>)
    BY DEF IsInjective
  <2>2. PlacedOnce'
    BY <1>1, <1>11, <2>1 DEF PlacedOnce
  <2> QED
    BY <1>1, <1>11, <2>2 DEF TasksInv
<1>13. HeldOnce'
  <2>1. IsInjective(parts)
    BY <1>5, <1>6 DEF IsInjective
  <2>2. IsFiniteSet({})
    BY FS_EmptySet
  <2> QED
    BY <1>1, <1>8, <1>9, <1>10, <2>1, <2>2 DEF HeldOnce
<1>14. StaleInv'
  BY <1>11 DEF StaleInv
<1>15. WaitInv'
  <2>1. Cardinality({}) = 0
    BY FS_EmptySet
  <2>2. need' = Cardinality(proofs') + Len(pending') + Cardinality(jobs') + Cardinality(results')
    BY <1>1, <1>7, <1>8, <2>1
  <2>3. Open' \cup proofs' = Range(parts)
    BY <1>1, <1>10
  <2>4. Covers(Range(parts), Whole') /\ Disjoint(Range(parts), Whole')
    BY <1>2, <1>5 DEF Covers
  <2>5. \A i \in DOMAIN pending' : pending'[i].split = FALSE
    BY <1>7
  <2>6. \A b \in (request.lo + 1)..request.hi : \E x \in Range(parts) : Has(x, b)
    BY <1>2, <1>5 DEF Covers
  <2> QED
    BY <1>1, <1>10, <1>13, <1>14, <2>2, <2>3, <2>4, <2>5, <2>6 DEF WaitInv
<1>16. FilesInv'
  BY <1>1, FilesSame DEF ProverInv
<1>17. DoneIsProven' /\ FailureInv'
  BY <1>1 DEF DoneIsProven, FailureInv
<1> QED
  BY <1>1, <1>12, <1>15, <1>16, <1>17 DEF ProverInv

\* prove() starts a job, and with it one task.
LEMMA SpawnTasks ==
  ASSUME TasksInv, UNCHANGED <<request, busy, inbox, files, errors>>, pc = "stitch" => pc' = "stitch",
         NEW t \in TaskRecords, IsTask(t)', t \notin Tasks, channel' = Append(channel, t)
  PROVE  TasksInv' /\ Tasks' = Tasks \cup {t} /\ Kept
<1>1. Kept
  BY DEF Kept
<1>2. channel \in Seq(TaskRecords) /\ IsInjective(channel)
  BY DEF TasksInv, PlacedOnce
<1>3. t \notin QueueTasks /\ t \notin BusyTasks /\ t \notin InboxTasks
  BY DEF Tasks
<1>4. channel' \in Seq(TaskRecords) /\ IsInjective(channel') /\ Range(channel') = Range(channel) \cup {t}
  BY <1>2, <1>3, AppendRange DEF QueueTasks
<1>5. QueueTasks' = QueueTasks \cup {t} /\ BusyTasks' = BusyTasks /\ InboxTasks' = InboxTasks
  BY <1>4 DEF QueueTasks, BusyTasks, InboxTasks
<1>6. Tasks' = Tasks \cup {t}
  BY <1>5 DEF Tasks
<1>7. PlacedOnce'
  BY <1>3, <1>4, <1>5 DEF TasksInv, PlacedOnce
<1>8. ASSUME NEW u \in Tasks' PROVE IsTask(u)'
  <2>1. CASE u \in Tasks
    <3>1. IsTask(u)
      BY <2>1 DEF TasksInv
    <3> QED
      BY <3>1, TaskKept
  <2> QED
    BY <1>6, <2>1
<1>9. ASSUME NEW m \in inbox' PROVE m = [task |-> m.task, outcome |-> m.outcome] /\ IsAnswer(m)'
  <2>1. m = [task |-> m.task, outcome |-> m.outcome] /\ IsAnswer(m)
    BY DEF TasksInv
  <2> QED
    BY <1>1, <2>1, AnswerKept
<1> QED
  BY <1>1, <1>6, <1>7, <1>8, <1>9 DEF TasksInv

LEMMA NewJobFields ==
  ASSUME NEW r \in Nat \X Nat, NEW s \in BOOLEAN, NEW k, k = NewJob(r, s)
  PROVE  /\ k.range = r /\ k.snark = s /\ k.pc = "complete" /\ k.done = {} /\ k \in JobRecords
BY DEF NewJob, JobRecords

\* The job's only task is new.
LEMMA NewJobInv ==
  ASSUME NEW k \in JobRecords, k.pc = "complete", k.done = {}, request' = request,
         k.snark \/ k.range # Whole, Tasks' = Tasks \cup {Complete(k)},
         \A t \in Tasks : t.job # k.range
  PROVE  JobInv(k)' /\ \A j : j.range # k.range => Mine(j)' = Mine(j)
<1>1. PICK t : t = Complete(k)
  OBVIOUS
<1>2. t.job = k.range
  BY <1>1 DEF Complete, Task
<1>3. \A j : Mine(j)' = {u \in Tasks' : u.job = j.range} /\ Mine(j) = {u \in Tasks : u.job = j.range}
  BY DEF Mine
<1>4. Mine(k)' = {t}
  BY <1>1, <1>2, <1>3
<1>5. Complete(k)' = t /\ Whole' = Whole
  BY <1>1, TasksKept, WholeKept
<1>6. JobInv(k)'
  BY <1>4, <1>5 DEF JobInv
<1>7. ASSUME NEW j, j.range # k.range PROVE Mine(j)' = Mine(j)
  <2>1. Mine(j)' = {u \in Tasks' : u.job = j.range} /\ Mine(j) = {u \in Tasks : u.job = j.range}
    BY DEF Mine
  <2> QED
    BY <1>1, <1>2, <1>7, <2>1
<1> QED
  BY <1>6, <1>7

LEMMA TailOutstanding ==
  ASSUME pending \in Seq([range : Nat \X Nat, split : BOOLEAN]), pending # <<>>,
         IsInjective(Outstanding), pending' = Tail(pending)
  PROVE  /\ pending' \in Seq([range : Nat \X Nat, split : BOOLEAN])
         /\ Len(pending') = Len(pending) - 1 /\ Len(pending) \in Nat
         /\ IsInjective(Outstanding') /\ PendingRanges' = PendingRanges \ {Head(pending).range}
         /\ Head(pending).range \in PendingRanges /\ Head(pending).range \in Nat \X Nat
         /\ Head(pending).split \in BOOLEAN
         /\ \A i \in DOMAIN pending' : \E h \in DOMAIN pending : pending'[i] = pending[h]
         /\ \E h \in DOMAIN pending : Head(pending) = pending[h]
<1>1. PICK n \in Nat : n = Len(pending) /\ DOMAIN pending = 1..n /\ n >= 1
  OBVIOUS
<1>2. PICK p : p = Tail(pending)
  OBVIOUS
<1>3. /\ p \in Seq([range : Nat \X Nat, split : BOOLEAN]) /\ Len(p) = n - 1 /\ DOMAIN p = 1..(n - 1)
      /\ \A i \in 1..(n - 1) : p[i] = pending[i + 1] /\ i + 1 \in 1..n
  BY <1>1, <1>2
<1>4. PICK o : o = Outstanding
  OBVIOUS
<1>5. o = [i \in 1..n |-> pending[i].range]
  BY <1>1, <1>4 DEF Outstanding
<1>6. \A i \in 1..n : pending[i].range \in Nat \X Nat /\ pending[i].split \in BOOLEAN
  <2>0. PICK S : S = [range : Nat \X Nat, split : BOOLEAN]
    OBVIOUS
  <2>1. \A i \in 1..n : pending[i] \in [range : Nat \X Nat, split : BOOLEAN]
    <3>1. pending \in Seq(S)
      BY <2>0
    <3>2. \A i \in 1..n : pending[i] \in S
      BY <1>1, <3>1
    <3> QED
      BY <2>0, <3>2
  <2>2. \A q \in [range : Nat \X Nat, split : BOOLEAN] : q.range \in Nat \X Nat /\ q.split \in BOOLEAN
    OBVIOUS
  <2> QED
    BY <2>1, <2>2
<1>7. o \in Seq(Nat \X Nat) /\ Len(o) = n /\ DOMAIN o = 1..n /\ \A i \in 1..n : o[i] = pending[i].range
  BY <1>5, <1>6
<1>8. o # <<>> /\ 1 \in 1..n /\ Head(o) = o[1] /\ Head(pending) = pending[1]
  BY <1>1, <1>7
<1>9. Outstanding' = Tail(o)
  <2>1. Outstanding' = [i \in 1..(n - 1) |-> p[i].range]
    BY <1>2, <1>3 DEF Outstanding
  <2>2. Tail(o) = [i \in 1..(n - 1) |-> o[i + 1]]
    <3>1. PICK s : s = Tail(o)
      OBVIOUS
    <3>2. /\ s \in Seq(Nat \X Nat) /\ Len(s) = n - 1 /\ DOMAIN s = 1..(n - 1)
          /\ \A i \in 1..(n - 1) : s[i] = o[i + 1]
      BY <1>1, <1>7, <1>8, <3>1
    <3>3. s = [i \in 1..(n - 1) |-> s[i]]
      BY <3>2
    <3> QED
      BY <3>1, <3>2, <3>3
  <2>3. \A i \in 1..(n - 1) : p[i].range = o[i + 1]
    BY <1>3, <1>7
  <2> QED
    BY <2>1, <2>2, <2>3
<1>10. /\ IsInjective(Tail(o)) /\ Head(o) \in Range(o) /\ Range(Tail(o)) = Range(o) \ {Head(o)}
  BY <1>4, <1>7, <1>8, TailRange
<1>11. Head(o) = Head(pending).range
  BY <1>7, <1>8
<1>12. Head(pending).range \in Nat \X Nat /\ Head(pending).split \in BOOLEAN
  BY <1>6, <1>8
<1>13. \A i \in DOMAIN p : \E h \in DOMAIN pending : p[i] = pending[h]
  BY <1>1, <1>3
<1> QED
  BY <1>1, <1>2, <1>3, <1>4, <1>8, <1>9, <1>10, <1>11, <1>12, <1>13 DEF PendingRanges

LEMMA Within ==
  ASSUME NEW R \in Nat \X Nat, NEW S, Disjoint(S, R), NEW x \in S, NEW y \in S,
         y[1] <= x[1] /\ x[2] <= y[2]
  PROVE  y = x
<1>1. x \in Parts(R) /\ y \in Parts(R)
  BY DEF Disjoint
<1>2. x[1] \in Nat /\ x[2] \in Nat /\ y[1] \in Nat /\ y[2] \in Nat /\ x[1] < x[2] /\ y[1] < y[2]
  BY <1>1, PartFacts
<1>3. ~(y[2] <= x[1] \/ x[2] <= y[1])
  BY <1>2
<1> QED
  BY <1>3 DEF Disjoint, Apart

LEMMA DispatchKeeps ==
  ASSUME ProverInv, Dispatch
  PROVE  ProverInv'
<1>1. PICK h, x, k, t : h = Head(pending) /\ x = h.range /\ k = NewJob(x, ~h.split) /\ t = Complete(k)
  OBVIOUS
<1>2. /\ pc = "wait" /\ pc' = "wait" /\ pending # <<>> /\ pending' = Tail(pending)
      /\ jobs' = jobs \cup {k} /\ channel' = Append(channel, t)
      /\ UNCHANGED <<request, results, need, proofs, busy, inbox, files, errors>>
  BY <1>1 DEF Dispatch, Spawn, diskVars
<1>3. Running /\ WaitInv /\ HeldOnce /\ TasksInv /\ request \in Requests /\ FilesInv /\ StaleInv
  BY <1>2 DEF Running, ProverInv, WaitInv
<1>4. /\ pending' \in Seq([range : Nat \X Nat, split : BOOLEAN])
      /\ Len(pending') = Len(pending) - 1 /\ Len(pending) \in Nat
      /\ IsInjective(Outstanding') /\ PendingRanges' = PendingRanges \ {x}
      /\ x \in PendingRanges /\ x \in Nat \X Nat /\ h.split \in BOOLEAN
      /\ \A i \in DOMAIN pending' : \E g \in DOMAIN pending : pending'[i] = pending[g]
      /\ \E g \in DOMAIN pending : h = pending[g]
  <2>1. pending \in Seq([range : Nat \X Nat, split : BOOLEAN]) /\ IsInjective(Outstanding)
    BY <1>3 DEF HeldOnce
  <2> QED
    BY <1>1, <1>2, <2>1, TailOutstanding
<1>5. k.range = x /\ k.snark = ~h.split /\ k.pc = "complete" /\ k.done = {} /\ k \in JobRecords
  <2>1. PICK s \in BOOLEAN : s = ~h.split
    BY <1>4
  <2>2. k = NewJob(x, s)
    BY <1>1, <2>1
  <2>3. k.range = x /\ k.snark = s /\ k.pc = "complete" /\ k.done = {} /\ k \in JobRecords
    BY <1>4, <2>2, NewJobFields
  <2> QED
    BY <2>1, <2>3
<1>6. k.snark \/ k.range # Whole
  BY <1>1, <1>3, <1>4, <1>5 DEF WaitInv
<1>7. /\ x \in Open /\ x \notin JobRanges /\ x \notin ResultRanges /\ x \in Parts(Whole)
      /\ Disjoint(Open \cup proofs, Whole) /\ Whole \in Nat \X Nat
  <2>1. x \in Open
    BY <1>4 DEF Open
  <2> QED
    BY <1>3, <1>4, <2>1, RequestFacts DEF WaitInv, HeldOnce, Disjoint
<1>8. \A u \in Tasks : u.job # x
  <2>1. x[1] <= x[1] /\ x[2] <= x[2]
    BY <1>4
  <2> QED
    BY <1>3, <1>4, <1>7, <2>1 DEF StaleInv
<1>9. t.job = x
  BY <1>1, <1>5 DEF Complete, Task
<1>10. IsTask(t) /\ t \in TaskRecords /\ t \notin Tasks
  <2>1. k.range \in Parts(Whole) /\ k.snark \in BOOLEAN
    BY <1>4, <1>5, <1>7
  <2>2. IsTask(t)
    BY <1>1, <1>3, <1>6, <2>1, NewTasks
  <2> QED
    BY <1>8, <1>9, <2>2 DEF IsTask
<1>11. IsTask(t)'
  BY <1>2, <1>10, TaskKept
<1>12. TasksInv' /\ Tasks' = Tasks \cup {t} /\ Kept
  BY <1>2, <1>3, <1>10, <1>11, SpawnTasks
<1>13. JobInv(k)' /\ \A j : j.range # x => Mine(j)' = Mine(j)
  BY <1>1, <1>2, <1>5, <1>6, <1>8, <1>12, NewJobInv
<1>14. ASSUME NEW j \in jobs' PROVE JobInv(j)'
  <2>1. CASE j \in jobs
    <3>1. j.range # x
      BY <1>7, <2>1 DEF JobRanges
    <3>2. JobInv(j) /\ Mine(j)' = Mine(j)
      BY <1>3, <1>13, <2>1, <3>1 DEF ProverInv
    <3> QED
      BY <1>12, <3>2, JobKept
  <2> QED
    BY <1>2, <1>13, <2>1
<1>15. \A a, b \in jobs' : a.range = b.range => a = b
  <2>1. \A a \in jobs : a.range # x
    BY <1>7 DEF JobRanges
  <2>2. \A a, b \in jobs : a.range = b.range => a = b
    BY <1>3 DEF ProverInv
  <2> QED
    BY <1>2, <1>5, <2>1, <2>2
<1>16. ASSUME NEW m \in results PROVE ResultInv(m)'
  <2>1. ResultInv(m)
    BY <1>3 DEF ProverInv
  <2> QED
    BY <1>12, <2>1, ResultKept
<1>17. JobRanges' = JobRanges \cup {x} /\ ResultRanges' = ResultRanges /\ Open' = Open
  <2>1. JobRanges' = JobRanges \cup {x}
    BY <1>2, <1>5 DEF JobRanges
  <2>2. ResultRanges' = ResultRanges
    BY <1>2 DEF ResultRanges
  <2> QED
    BY <1>4, <2>1, <2>2 DEF Open
<1>18. IsFiniteSet(jobs') /\ Cardinality(jobs') = Cardinality(jobs) + 1
  <2>1. k \notin jobs
    BY <1>5, <1>7 DEF JobRanges
  <2> QED
    BY <1>2, <1>3, <2>1, FS_AddElement DEF HeldOnce
<1>19. HeldOnce'
  <2>1. /\ \A m, n \in results' : m.range = n.range => m = n
        /\ IsFiniteSet(results') /\ IsFiniteSet(proofs') /\ Open' \cap proofs' = {}
    BY <1>2, <1>3, <1>17 DEF HeldOnce
  <2>2. /\ PendingRanges' \cap JobRanges' = {} /\ PendingRanges' \cap ResultRanges' = {}
        /\ JobRanges' \cap ResultRanges' = {}
    BY <1>3, <1>4, <1>7, <1>17 DEF HeldOnce
  <2> QED
    BY <1>4, <1>18, <2>1, <2>2 DEF HeldOnce
<1>20. StaleInv'
  <2>1. ASSUME NEW u \in Tasks, NEW y \in Open, y[1] <= u.job[1] /\ u.job[2] <= y[2]
        PROVE  y = u.job /\ y \notin PendingRanges'
    BY <1>3, <1>4, <2>1 DEF StaleInv
  <2>2. ASSUME NEW y \in Open, y[1] <= x[1] /\ x[2] <= y[2]
        PROVE  y = x /\ y \notin PendingRanges'
    <3>1. y = x
      BY <1>7, <2>2, Within
    <3> QED
      BY <1>4, <3>1
  <2> QED
    BY <1>9, <1>12, <1>17, <2>1, <2>2 DEF StaleInv
<1>21. need' = Cardinality(proofs') + Len(pending') + Cardinality(jobs') + Cardinality(results')
  <2>1. Cardinality(jobs) \in Nat /\ Cardinality(results) \in Nat /\ Cardinality(proofs) \in Nat
    BY <1>3, FS_CardinalityType DEF HeldOnce
  <2>2. need = Cardinality(proofs) + Len(pending) + Cardinality(jobs) + Cardinality(results)
    BY <1>3 DEF WaitInv
  <2> QED
    BY <1>2, <1>4, <1>18, <2>1, <2>2
<1>22. WaitInv'
  <2>1. Whole' = Whole
    BY <1>2, WholeKept
  <2>2. ASSUME NEW r \in proofs PROVE Proven(r)'
    <3>1. Proven(r)
      BY <1>3 DEF WaitInv
    <3> QED
      BY <1>12, <3>1, ProvenKept
  <2>3. \A b : BlockExecuted(b) => BlockExecuted(b)'
    BY <1>12, ProvenKept
  <2>4. \A i \in DOMAIN pending' : pending'[i].split => pending'[i].range # Whole
    BY <1>3, <1>4 DEF WaitInv
  <2> QED
    BY <1>2, <1>3, <1>17, <1>19, <1>20, <1>21, <2>1, <2>2, <2>3, <2>4 DEF WaitInv
<1>23. FilesInv' /\ DoneIsProven' /\ FailureInv'
  BY <1>2, <1>3, FilesSame DEF DoneIsProven, FailureInv
<1> QED
  BY <1>2, <1>3, <1>12, <1>14, <1>15, <1>16, <1>22, <1>23 DEF ProverInv

LEMMA HalvesHave ==
  ASSUME NEW r \in Nat \X Nat, Blocks(r) > 1, NEW c \in Int, Has(r, c)
  PROVE  Has(Halves(r)[1], c) \/ Has(Halves(r)[2], c)
<1>1. PICK mid \in Nat : Halves(r) = <<<<r[1], mid>>, <<mid, r[2]>>>> /\ r[1] < mid /\ mid < r[2]
  BY HalfFacts DEF Blocks
<1>2. PICK a, b : a = <<r[1], mid>> /\ b = <<mid, r[2]>>
  OBVIOUS
<1>3. Halves(r)[1] = a /\ Halves(r)[2] = b
  BY <1>1, <1>2
<1>4. a[1] = r[1] /\ a[2] = mid /\ b[1] = mid /\ b[2] = r[2]
  BY <1>2
<1> QED
  BY <1>3, <1>4 DEF Has

\* prove() takes a result and waits on.
LEMMA ReceiveFrame ==
  ASSUME ProverInv, pc = "wait", pc' = "wait", results' \subseteq results,
         UNCHANGED <<request, taskVars, diskVars, errors>>, WaitInv'
  PROVE  ProverInv'
<1>1. UNCHANGED <<request, pc, jobs, channel, busy, inbox, files, errors>> /\ Running
  BY DEF taskVars, diskVars, Running
<1>2. TasksInv' /\ Tasks' = Tasks /\ Kept
  BY <1>1, TasksSame DEF ProverInv
<1>3. ASSUME NEW j \in jobs' PROVE JobInv(j)'
  <2>1. JobInv(j) /\ j \in jobs
    BY <1>1 DEF ProverInv
  <2>2. Mine(j)' = Mine(j)
    BY <1>2, <2>1, MineKept
  <2> QED
    BY <1>2, <2>1, <2>2, JobKept
<1>4. ASSUME NEW m \in results' PROVE ResultInv(m)'
  <2>1. ResultInv(m)
    BY <1>1 DEF ProverInv
  <2> QED
    BY <1>2, <2>1, ResultKept
<1>5. FilesInv' /\ DoneIsProven' /\ FailureInv'
  BY <1>1, FilesSame DEF ProverInv, DoneIsProven, FailureInv
<1>6. request' \in Requests /\ \A a, b \in jobs' : a.range = b.range => a = b
  BY <1>1 DEF ProverInv
<1> QED
  BY <1>1, <1>2, <1>3, <1>4, <1>5, <1>6 DEF ProverInv

\* Result m leaves the channel; the ranges of N come back to it, or m joins the proofs.
Received(m, N, V) ==
  /\ results' = results \ {m} /\ UNCHANGED <<request, taskVars, diskVars, errors>>
  /\ N \cap Open = {} /\ N \cap proofs = {} /\ V \in {{}, {m.range}} /\ proofs' = proofs \cup V
  /\ V # {} => N = {} /\ Proven(m.range) /\ ~request.skipDerivation
  /\ pending' \in Seq([range : Nat \X Nat, split : BOOLEAN]) /\ IsInjective(Outstanding')
  /\ PendingRanges' = N
  /\ \A i \in DOMAIN pending' : pending'[i].split => pending'[i].range # Whole
  /\ need' = need + Cardinality(V) + Len(pending') - 1
  /\ Disjoint((Open \ {m.range}) \cup N \cup proofs', Whole)
  /\ ~(request.skipAwait \/ request.skipDerivation) =>
       Covers((Open \ {m.range}) \cup N \cup proofs', Whole)
  /\ \A t \in Tasks : \A x \in N : ~(x[1] <= t.job[1] /\ t.job[2] <= x[2])
  /\ request.skipDerivation /\ ~request.skipAwait =>
       \A b \in (request.lo + 1)..request.hi :
          Has(m.range, b) => BlockExecuted(b) \/ \E x \in N : Has(x, b)

LEMMA ReceiveWait ==
  ASSUME ProverInv, pc = "wait", pending = <<>>, NEW m \in results, NEW N, NEW V, Received(m, N, V)
  PROVE  WaitInv'
<1>2. request' = request /\ jobs' = jobs /\ channel' = channel /\ busy' = busy /\ inbox' = inbox
      /\ files' = files /\ errors' = errors /\ results' = results \ {m}
  BY DEF Received, taskVars, diskVars
<1>3. WaitInv /\ HeldOnce /\ StaleInv /\ Kept
  BY <1>2 DEF ProverInv, WaitInv, Kept
<1>4. QueueTasks' = QueueTasks /\ BusyTasks' = BusyTasks /\ InboxTasks' = InboxTasks /\ Tasks' = Tasks
  BY <1>2 DEF QueueTasks, BusyTasks, InboxTasks, Tasks
<1>5. PICK x : x = m.range
  OBVIOUS
<1>6. PendingRanges = {}
  BY DEF PendingRanges, Outstanding, Range
<1>7. \A a, b \in results : a.range = b.range => a = b
  BY <1>3 DEF HeldOnce
<1>8. JobRanges' = JobRanges /\ ResultRanges' = ResultRanges \ {x} /\ x \in ResultRanges
  BY <1>2, <1>5, <1>7 DEF JobRanges, ResultRanges
<1>9. Open = JobRanges \cup ResultRanges /\ x \in Open /\ x \notin JobRanges /\ x \notin proofs
  BY <1>3, <1>6, <1>8 DEF Open, HeldOnce
<1>10. Open' = (Open \ {x}) \cup N
  BY <1>8, <1>9 DEF Open, Received
<1>11. IsFiniteSet(results') /\ Cardinality(results') = Cardinality(results) - 1
  BY <1>2, <1>3, FS_RemoveElement DEF HeldOnce
<1>12. IsFiniteSet(proofs') /\ Cardinality(proofs') = Cardinality(proofs) + Cardinality(V)
       /\ Cardinality(V) \in Nat
  <2>1. IsFiniteSet(proofs) /\ Cardinality(proofs) \in Nat
    BY <1>3, FS_CardinalityType DEF HeldOnce
  <2>2. CASE V = {}
    <3>1. proofs' = proofs
      BY <2>2 DEF Received
    <3>2. Cardinality(V) = 0
      BY <2>2, FS_EmptySet
    <3>3. Cardinality(proofs) = Cardinality(proofs) + 0
      BY <2>1
    <3> QED
      BY <2>1, <3>1, <3>2, <3>3
  <2>3. CASE V = {x}
    <3>1. IsFiniteSet(proofs') /\ Cardinality(proofs') = Cardinality(proofs) + 1
      BY <1>9, <2>1, <2>3, FS_AddElement DEF Received
    <3>2. Cardinality(V) = 1
      BY <2>3, FS_Singleton
    <3> QED
      BY <3>1, <3>2
  <2> QED
    BY <1>5, <2>2, <2>3 DEF Received
<1>13. HeldOnce'
  <2>1. /\ PendingRanges' \cap JobRanges' = {} /\ PendingRanges' \cap ResultRanges' = {}
        /\ JobRanges' \cap ResultRanges' = {}
    BY <1>3, <1>8, <1>9 DEF HeldOnce, Received
  <2>2. Open' \cap proofs' = {}
    <3>1. Open \cap proofs = {}
      BY <1>3 DEF HeldOnce
    <3>2. V = {} \/ (V = {x} /\ N = {})
      BY <1>5 DEF Received
    <3>3. N \cap proofs = {} /\ proofs' = proofs \cup V
      BY DEF Received
    <3> QED
      BY <1>10, <3>1, <3>2, <3>3
  <2>3. IsFiniteSet(jobs') /\ \A a, b \in results' : a.range = b.range => a = b
    BY <1>2, <1>3, <1>7 DEF HeldOnce
  <2> QED
    BY <1>11, <1>12, <2>1, <2>2, <2>3 DEF HeldOnce, Received
<1>14. StaleInv'
  <2>1. ASSUME NEW t \in Tasks, NEW y \in Open', y[1] <= t.job[1] /\ t.job[2] <= y[2]
        PROVE  y = t.job /\ y \notin PendingRanges'
    <3>1. y \notin N
      BY <2>1 DEF Received
    <3>2. y \in Open
      BY <1>10, <3>1
    <3>3. y \notin PendingRanges'
      BY <3>1 DEF Received
    <3> QED
      BY <1>3, <2>1, <3>2, <3>3 DEF StaleInv
  <2> QED
    BY <1>4, <2>1 DEF StaleInv
<1>15. need' = Cardinality(proofs') + Len(pending') + Cardinality(jobs') + Cardinality(results')
  <2>1. need = Cardinality(proofs) + Len(pending) + Cardinality(jobs) + Cardinality(results)
    BY <1>3 DEF WaitInv
  <2>2. Len(pending) = 0 /\ Len(pending') \in Nat
    BY DEF Received
  <2>3. Cardinality(jobs) \in Nat /\ Cardinality(results) \in Nat /\ Cardinality(proofs) \in Nat
    BY <1>3, FS_CardinalityType DEF HeldOnce
  <2>4. PICK v \in Nat, l \in Nat, a \in Nat, b \in Nat, c \in Nat :
          /\ v = Cardinality(V) /\ l = Len(pending') /\ a = Cardinality(proofs)
          /\ b = Cardinality(jobs) /\ c = Cardinality(results)
    BY <1>12, <2>2, <2>3
  <2>5. need = a + b + c
    BY <2>1, <2>2, <2>4
  <2>6. need' = need + v + l - 1
    BY <2>4 DEF Received
  <2>7. need' = (a + v) + l + b + (c - 1)
    BY <2>5, <2>6
  <2> QED
    BY <1>2, <1>11, <1>12, <2>4, <2>7
<1>16. Whole' = Whole /\ \A b : BlockExecuted(b) => BlockExecuted(b)'
  BY <1>2, <1>3, WholeKept, ProvenKept
<1>17. ASSUME NEW r \in proofs' PROVE Proven(r)'
  <2>1. Proven(r)
    BY <1>3 DEF WaitInv, Received
  <2> QED
    BY <1>3, <2>1, ProvenKept
<1>18. request.skipDerivation => proofs' = {}
  BY <1>3 DEF WaitInv, Received
<1>19. request.skipDerivation /\ ~request.skipAwait =>
         \A b \in (request.lo + 1)..request.hi : BlockExecuted(b) \/ \E y \in Open' : Has(y, b)
  BY <1>3, <1>5, <1>10 DEF WaitInv, Received
<1>20. Disjoint(Open' \cup proofs', Whole)
       /\ (~(request.skipAwait \/ request.skipDerivation) => Covers(Open' \cup proofs', Whole))
  BY <1>5, <1>10 DEF Received
<1>21. \A i \in DOMAIN pending' : pending'[i].split => pending'[i].range # Whole
  BY DEF Received
<1> QED
  BY <1>2, <1>13, <1>14, <1>15, <1>16, <1>17, <1>18, <1>19, <1>20, <1>21 DEF WaitInv

\* The ranges that come back to the channel are the halves of m.
LEMMA ReceiveSplit ==
  ASSUME ProverInv, NEW m \in results, Receive(m), m.outcome \in {"WitnessSizeError", "ExecutionError"},
         Blocks(m.range) # 1
  PROVE  ProverInv'
<1>1. PICK r, a, b, N, S : /\ r = m.range /\ a = Halves(r)[1] /\ b = Halves(r)[2] /\ N = {a, b}
                           /\ S = Open \cup proofs
  OBVIOUS
<1>2. /\ pc = "wait" /\ pending = <<>> /\ results' = results \ {m} /\ proofs' = proofs
      /\ pending' = [i \in 1..2 |-> [range |-> Halves(r)[i], split |-> TRUE]]
      /\ need' = need + 1 /\ pc' = "wait" /\ UNCHANGED <<request, taskVars, diskVars, errors>>
  BY <1>1 DEF Receive
<1>3. WaitInv /\ StaleInv /\ request \in Requests /\ HeldOnce
  BY <1>2 DEF ProverInv, WaitInv
<1>4. /\ Whole \in Nat \X Nat /\ Disjoint(S, Whole) /\ r \in Open /\ r \in S /\ r \in Parts(Whole)
      /\ request.lo \in Nat /\ request.hi \in Nat
  <2>1. r \in Open
    BY <1>1 DEF Open, ResultRanges
  <2> QED
    BY <1>1, <1>3, <2>1, RequestFacts DEF WaitInv, Disjoint
<1>5. Blocks(r) > 1 /\ r \in Nat \X Nat
  BY <1>1, <1>4, PartFacts DEF Blocks
<1>6. PICK T : T = (S \ {r}) \cup {Halves(r)[1], Halves(r)[2]}
  OBVIOUS
<1>7. /\ a \in Parts(r) /\ b \in Parts(r) /\ a \in Parts(Whole) /\ b \in Parts(Whole)
      /\ a # b /\ a \notin S /\ b \notin S
      /\ ~(a[1] <= r[1] /\ r[2] <= a[2]) /\ ~(b[1] <= r[1] /\ r[2] <= b[2])
      /\ Disjoint(T, Whole) /\ (Covers(S, Whole) => Covers(T, Whole))
  <2>1. /\ Halves(r)[1] \in Parts(r) /\ Halves(r)[2] \in Parts(r)
        /\ Halves(r)[1] \in Parts(Whole) /\ Halves(r)[2] \in Parts(Whole)
        /\ Halves(r)[1] # Halves(r)[2] /\ Halves(r)[1] \notin S /\ Halves(r)[2] \notin S
        /\ ~(Halves(r)[1][1] <= r[1] /\ r[2] <= Halves(r)[1][2])
        /\ ~(Halves(r)[2][1] <= r[1] /\ r[2] <= Halves(r)[2][2])
        /\ Disjoint(T, Whole) /\ (Covers(S, Whole) => Covers(T, Whole))
    BY <1>4, <1>5, <1>6, SplitDisjoint
  <2> QED
    BY <1>1, <2>1
<1>8. r \notin proofs
  BY <1>3, <1>4 DEF HeldOnce
<1>9. T = (Open \ {r}) \cup N \cup proofs'
  BY <1>1, <1>2, <1>6, <1>8
<1>10. /\ DOMAIN pending' = 1..2 /\ Len(pending') = 2
       /\ pending'[1] = [range |-> a, split |-> TRUE] /\ pending'[2] = [range |-> b, split |-> TRUE]
  BY <1>1, <1>2
<1>11. pending' \in Seq([range : Nat \X Nat, split : BOOLEAN])
  <2>1. a \in Nat \X Nat /\ b \in Nat \X Nat
    BY <1>4, <1>7, PartFacts
  <2>2. PICK R : R = [range : Nat \X Nat, split : BOOLEAN]
    OBVIOUS
  <2>3. pending'[1] \in R /\ pending'[2] \in R
    <3>1. \A x \in Nat \X Nat : [range |-> x, split |-> TRUE] \in R
      BY <2>2
    <3> QED
      BY <1>10, <2>1, <3>1
  <2>4. \A i \in 1..2 : pending'[i] \in R
    <3>1. \A i \in 1..2 : i = 1 \/ i = 2
      OBVIOUS
    <3> QED
      BY <2>3, <3>1
  <2>5. PICK p : p = pending'
    OBVIOUS
  <2>6. p = [i \in 1..2 |-> p[i]] /\ \A i \in 1..2 : p[i] \in R
    BY <1>2, <2>4, <2>5
  <2>7. p \in Seq(R)
    BY <2>6
  <2> QED
    BY <2>2, <2>5, <2>7
<1>12. IsInjective(Outstanding') /\ PendingRanges' = N
  <2>1. Outstanding' = [i \in 1..2 |-> pending'[i].range]
    BY <1>10 DEF Outstanding
  <2>2. PICK o : o = Outstanding'
    OBVIOUS
  <2>3. DOMAIN o = 1..2 /\ o[1] = a /\ o[2] = b
    BY <1>10, <2>1, <2>2
  <2>4. \A i : i \in 1..2 <=> i = 1 \/ i = 2
    OBVIOUS
  <2>5. IsInjective(o)
    BY <1>7, <2>3, <2>4 DEF IsInjective
  <2>6. Range(o) = N
    BY <1>1, <2>3, <2>4 DEF Range
  <2> QED
    BY <2>2, <2>5, <2>6 DEF PendingRanges
<1>13. ASSUME NEW i \in DOMAIN pending' PROVE pending'[i].range # Whole
  <2>1. i = 1 \/ i = 2
    BY <1>10
  <2>2. pending'[i].range \in N
    BY <1>1, <1>10, <2>1
  <2>3. Whole[1] <= r[1] /\ r[2] <= Whole[2]
    BY <1>4, PartFacts
  <2> QED
    BY <1>1, <1>7, <2>2, <2>3
<1>14. ASSUME NEW t \in Tasks, NEW x \in N, x[1] <= t.job[1] /\ t.job[2] <= x[2] PROVE FALSE
  <2>1. x \in Parts(r) /\ ~(x[1] <= r[1] /\ r[2] <= x[2])
    BY <1>1, <1>7
  <2>2. /\ r[1] <= x[1] /\ x[2] <= r[2] /\ x[1] \in Nat /\ x[2] \in Nat /\ r[1] \in Nat /\ r[2] \in Nat
    BY <1>5, <2>1, PartFacts
  <2>3. t.job \in Nat \X Nat
    BY <1>2 DEF ProverInv, Running, TasksInv, IsTask, TaskRecords
  <2>4. t.job[1] \in Nat /\ t.job[2] \in Nat
    BY <2>3
  <2>5. r[1] <= t.job[1] /\ t.job[2] <= r[2]
    BY <1>14, <2>2, <2>4
  <2>6. r = t.job
    BY <1>3, <1>4, <2>5 DEF StaleInv
  <2> QED
    BY <1>14, <2>1, <2>6
<1>15. Received(m, N, {})
  <2>1. {} \in {{}, {m.range}} /\ proofs' = proofs \cup {}
    BY <1>2
  <2>2. need' = need + Cardinality({}) + Len(pending') - 1
    <3>1. need \in Int
      <4>1. Cardinality(jobs) \in Nat /\ Cardinality(results) \in Nat /\ Cardinality(proofs) \in Nat
        BY <1>3, FS_CardinalityType DEF HeldOnce
      <4>2. need = Cardinality(proofs) + Len(pending) + Cardinality(jobs) + Cardinality(results)
        BY <1>3 DEF WaitInv
      <4> QED
        BY <1>2, <4>1, <4>2
    <3>2. Cardinality({}) = 0
      BY FS_EmptySet
    <3> QED
      BY <1>2, <1>10, <3>1, <3>2
  <2>3. N \cap Open = {} /\ N \cap proofs = {}
    BY <1>1, <1>7
  <2>4. /\ Disjoint((Open \ {m.range}) \cup N \cup proofs', Whole)
        /\ ~(request.skipAwait \/ request.skipDerivation) =>
             Covers((Open \ {m.range}) \cup N \cup proofs', Whole)
    BY <1>1, <1>3, <1>7, <1>9 DEF WaitInv
  <2>5. ASSUME NEW c \in (request.lo + 1)..request.hi, Has(m.range, c)
        PROVE  \E x \in N : Has(x, c)
    <3>1. c \in Int /\ Has(r, c)
      BY <1>1, <1>4, <2>5
    <3>2. Has(Halves(r)[1], c) \/ Has(Halves(r)[2], c)
      BY <1>5, <3>1, HalvesHave
    <3> QED
      BY <1>1, <3>2
  <2> QED
    BY <1>2, <1>11, <1>12, <1>13, <1>14, <2>1, <2>2, <2>3, <2>4, <2>5 DEF Received
<1>16. WaitInv'
  BY <1>2, <1>15, ReceiveWait
<1> QED
  BY <1>2, <1>16, ReceiveFrame

\* A result that does not go back to the channel.
LEMMA ReceiveDone ==
  ASSUME ProverInv, NEW m \in results, Receive(m),
         \/ m.outcome = "Ok" /\ Proven(m.range) /\ ~request.skipDerivation
         \/ m.outcome = "NotAwaitingProof" /\ request.skipAwait
         \/ /\ m.outcome = "DerivationProofError" /\ request.skipDerivation /\ ~request.skipAwait
            /\ \A b \in (m.range[1] + 1)..m.range[2] : BlockExecuted(b)
  PROVE  ProverInv'
<1>1. PICK r, V : r = m.range /\ V = IF m.outcome = "Ok" THEN {r} ELSE {}
  OBVIOUS
<1>2. /\ pc = "wait" /\ pending = <<>> /\ results' = results \ {m} /\ proofs' = proofs \cup V
      /\ pending' = <<>> /\ pc' = "wait" /\ UNCHANGED <<request, taskVars, diskVars, errors>>
      /\ need' = IF m.outcome = "Ok" THEN need ELSE need - 1
  BY <1>1 DEF Receive
<1>3. WaitInv /\ request \in Requests /\ HeldOnce
  BY <1>2 DEF ProverInv, WaitInv
<1>4. /\ Whole \in Nat \X Nat /\ Disjoint(Open \cup proofs, Whole) /\ r \in Open /\ r \in Parts(Whole)
      /\ request.lo \in Nat /\ request.hi \in Nat
  <2>1. r \in Open
    BY <1>1 DEF Open, ResultRanges
  <2> QED
    BY <1>3, <2>1, RequestFacts DEF WaitInv, Disjoint
<1>5. need \in Int
  <2>1. Cardinality(jobs) \in Nat /\ Cardinality(results) \in Nat /\ Cardinality(proofs) \in Nat
    BY <1>3, FS_CardinalityType DEF HeldOnce
  <2>2. need = Cardinality(proofs) + Len(pending) + Cardinality(jobs) + Cardinality(results)
    BY <1>3 DEF WaitInv
  <2> QED
    BY <1>2, <2>1, <2>2
<1>6. need' = need + Cardinality(V) + Len(pending') - 1
  <2>1. Cardinality({}) = 0 /\ Cardinality({r}) = 1
    BY FS_EmptySet, FS_Singleton
  <2>2. CASE m.outcome = "Ok"
    <3>1. Cardinality(V) = 1 /\ need' = need /\ Len(pending') = 0
      BY <1>1, <1>2, <2>1, <2>2
    <3> QED
      BY <1>5, <3>1
  <2>3. CASE m.outcome # "Ok"
    <3>1. Cardinality(V) = 0 /\ need' = need - 1 /\ Len(pending') = 0
      BY <1>1, <1>2, <2>1, <2>3
    <3> QED
      BY <1>5, <3>1
  <2> QED
    BY <2>2, <2>3
<1>7. /\ pending' \in Seq([range : Nat \X Nat, split : BOOLEAN]) /\ IsInjective(Outstanding')
      /\ PendingRanges' = {} /\ DOMAIN pending' = {}
  <2>1. DOMAIN pending' = {} /\ pending' \in Seq([range : Nat \X Nat, split : BOOLEAN])
    BY <1>2
  <2>2. PICK o : o = Outstanding'
    OBVIOUS
  <2>3. DOMAIN o = {}
    BY <2>1, <2>2 DEF Outstanding
  <2>4. IsInjective(o) /\ Range(o) = {}
    BY <2>3 DEF IsInjective, Range
  <2> QED
    BY <2>1, <2>2, <2>4 DEF PendingRanges
<1>8. PICK U : U = (Open \ {r}) \cup {} \cup proofs'
  OBVIOUS
<1>9. Disjoint(U, Whole)
  <2>1. U \subseteq Open \cup proofs
    BY <1>1, <1>2, <1>4, <1>8
  <2> QED
    BY <1>4, <2>1, SubsetDisjoint
<1>10. ~(request.skipAwait \/ request.skipDerivation) => Covers(U, Whole)
  <2>1. SUFFICES ASSUME ~(request.skipAwait \/ request.skipDerivation) PROVE Covers(U, Whole)
    OBVIOUS
  <2>2. V = {r}
    BY <1>1, <2>1
  <2>3. U = Open \cup proofs
    BY <1>2, <1>4, <1>8, <2>2
  <2> QED
    BY <1>3, <2>1, <2>3 DEF WaitInv
<1>11. ASSUME request.skipDerivation, ~request.skipAwait,
              NEW b \in (request.lo + 1)..request.hi, Has(m.range, b)
       PROVE  BlockExecuted(b)
  <2>1. r[1] \in Nat /\ r[2] \in Nat /\ b \in Int
    BY <1>4, PartFacts
  <2>2. b \in (r[1] + 1)..r[2]
    BY <1>1, <1>11, <2>1 DEF Has
  <2> QED
    BY <1>1, <1>11, <2>2
<1>12. Received(m, {}, V)
  <2>1. V \in {{}, {m.range}} /\ (V # {} => Proven(m.range) /\ ~request.skipDerivation)
    BY <1>1
  <2> QED
    BY <1>1, <1>2, <1>6, <1>7, <1>8, <1>9, <1>10, <1>11, <2>1 DEF Received
<1>13. WaitInv'
  BY <1>2, <1>12, ReceiveWait
<1> QED
  BY <1>2, <1>13, ReceiveFrame

LEMMA ReceiveKeeps ==
  ASSUME ProverInv, NEW m \in results, Receive(m)
  PROVE  ProverInv'
<1>1. pc = "wait" /\ request' = request /\ files' = files /\ errors' = errors
  BY DEF Receive, diskVars
<1>2. ResultInv(m) /\ Kept
  BY <1>1 DEF ProverInv, Running, Kept
<1>3. CASE \/ m.outcome = "Ok" /\ Proven(m.range) /\ ~request.skipDerivation
           \/ m.outcome = "NotAwaitingProof" /\ request.skipAwait
           \/ /\ m.outcome = "DerivationProofError" /\ request.skipDerivation /\ ~request.skipAwait
              /\ \A b \in (m.range[1] + 1)..m.range[2] : BlockExecuted(b)
  BY <1>3, ReceiveDone
<1>4. CASE m.outcome \in {"WitnessSizeError", "ExecutionError"} /\ Blocks(m.range) # 1
  BY <1>4, ReceiveSplit
<1>5. CASE /\ m.outcome = "OtherError" \/ (m.outcome \in {"WitnessSizeError", "ExecutionError"} /\ Blocks(m.range) = 1)
           /\ Cause
  <2>1. pc' = "failed"
    BY <1>5 DEF Receive
  <2>2. Cause'
    BY <1>2, <1>5, CauseKept
  <2>3. DoneIsProven' /\ FailureInv'
    BY <2>1, <2>2 DEF DoneIsProven, FailureInv
  <2> QED
    BY <1>1, <2>1, <2>3, EndStep
<1>6. Blocks(m.range) = 1 => Blocks(m.range) <= 1
  OBVIOUS
<1> QED
  BY <1>2, <1>3, <1>4, <1>5, <1>6 DEF ResultInv

\* The file that Proven speaks of is the SNARK of the request.
LEMMA WholeProven ==
  ASSUME request \in Requests, FilesInv, Proven(Whole) \/ Proven(Final)
  PROVE  [name |-> [execution |-> FALSE, range |-> Whole], snark |-> TRUE] \in files
<1>1. PICK n : n = [execution |-> FALSE, range |-> Whole]
  OBVIOUS
<1>2. IsFile(n)
  BY <1>1 DEF Proven
<1>3. PICK f \in files : f.name = n
  BY <1>2 DEF IsFile
<1>4. f.name.execution = FALSE /\ f.name.range = Whole
  BY <1>1, <1>3
<1>5. f.snark = TRUE /\ f = [name |-> [execution |-> f.name.execution, range |-> f.name.range], snark |-> f.snark]
  BY <1>4 DEF FilesInv
<1>6. f = [name |-> n, snark |-> TRUE]
  BY <1>1, <1>4, <1>5
<1> QED
  BY <1>1, <1>6

\* One proof that covers the request is the proof of the request.
LEMMA SingleProof ==
  ASSUME request \in Requests, Covers(proofs, Whole), IsFiniteSet(proofs), Cardinality(proofs) <= 1
  PROVE  Whole \in proofs
<1>1. /\ Whole \in Nat \X Nat /\ Whole = <<request.lo, request.hi>> /\ Whole[1] = request.lo
      /\ Whole[2] = request.hi /\ request.lo \in Nat /\ request.hi \in Nat /\ request.lo < request.hi
  BY RequestFacts
<1>2. PICK b, c : b = request.lo + 1 /\ c = request.hi
  OBVIOUS
<1>3. b \in (Whole[1] + 1)..Whole[2] /\ c \in (Whole[1] + 1)..Whole[2]
  BY <1>1, <1>2
<1>4. PICK x \in proofs : Has(x, b)
  BY <1>3 DEF Covers
<1>5. PICK y \in proofs : Has(y, c)
  BY <1>3 DEF Covers
<1>6. y = x
  <2>1. Cardinality(proofs) \in Nat
    BY FS_CardinalityType
  <2>2. IsFiniteSet(proofs \ {x}) /\ Cardinality(proofs \ {x}) = Cardinality(proofs) - 1
    BY FS_RemoveElement
  <2>3. Cardinality(proofs \ {x}) \in Nat
    BY <2>2, FS_CardinalityType
  <2>4. Cardinality(proofs \ {x}) = 0
    BY <2>1, <2>2, <2>3
  <2>5. proofs \ {x} = {}
    BY <2>2, <2>4, FS_EmptySet
  <2> QED
    BY <2>5
<1>7. x \in Parts(Whole)
  BY DEF Covers, Disjoint
<1>8. /\ x \in Nat \X Nat /\ x[1] \in Nat /\ x[2] \in Nat /\ request.lo <= x[1] /\ x[2] <= request.hi
  BY <1>1, <1>7, PartFacts
<1>9. x[1] = request.lo /\ x[2] = request.hi
  BY <1>1, <1>2, <1>4, <1>5, <1>6, <1>8 DEF Has
<1>10. x = <<x[1], x[2]>>
  BY <1>8
<1> QED
  BY <1>1, <1>9, <1>10

LEMMA StitchKeeps ==
  ASSUME ProverInv, Stitch
  PROVE  ProverInv'
<1>1. /\ pc = "wait" /\ Cardinality(proofs) = need /\ request' = request /\ files' = files
      /\ UNCHANGED <<request, pending, results, need, proofs, busy, inbox, files, errors>>
  BY DEF Stitch, diskVars
<1>2. WaitInv /\ HeldOnce /\ TasksInv /\ FilesInv /\ request \in Requests /\ Running
  BY <1>1 DEF ProverInv, WaitInv, Running
<1>3. pending = <<>> /\ jobs = {} /\ results = {}
  <2>1. Cardinality(jobs) \in Nat /\ Cardinality(results) \in Nat /\ Cardinality(proofs) \in Nat
        /\ IsFiniteSet(jobs) /\ IsFiniteSet(results) /\ Len(pending) \in Nat
    BY <1>2, FS_CardinalityType DEF HeldOnce
  <2>2. need = Cardinality(proofs) + Len(pending) + Cardinality(jobs) + Cardinality(results)
    BY <1>2 DEF WaitInv
  <2>3. Len(pending) = 0 /\ Cardinality(jobs) = 0 /\ Cardinality(results) = 0
    <3>1. \A a, b, c, d \in Nat : a = a + b + c + d => b = 0 /\ c = 0 /\ d = 0
      OBVIOUS
    <3>2. Cardinality(proofs) = Cardinality(proofs) + Len(pending) + Cardinality(jobs) + Cardinality(results)
      BY <1>1, <2>2
    <3> QED
      BY <2>1, <3>1, <3>2
  <2>4. PICK R : R = [range : Nat \X Nat, split : BOOLEAN]
    OBVIOUS
  <2>5. pending \in Seq(R)
    BY <1>2, <2>4 DEF HeldOnce
  <2>6. pending = <<>>
    BY <2>3, <2>5
  <2> QED
    BY <2>1, <2>3, <2>6, FS_EmptySet
<1>4. Open = {}
  BY <1>3 DEF Open, PendingRanges, JobRanges, ResultRanges, Outstanding, Range
<1>5. /\ ~(request.skipAwait \/ request.skipDerivation) => Covers(proofs, Whole)
      /\ IsFiniteSet(proofs)
  <2>1. Open \cup proofs = proofs
    BY <1>4
  <2> QED
    BY <1>2, <2>1 DEF WaitInv, HeldOnce
<1>6. CASE request.skipAwait \/ request.skipDerivation \/ Cardinality(proofs) <= 1
  <2>1. pc' = "done"
    BY <1>6 DEF Stitch
  <2>2. ASSUME ~request.skipAwait, request.skipDerivation, NEW b \in (request.lo + 1)..request.hi
        PROVE  \E f \in files : f.name.execution /\ f.name.range[1] < b /\ b <= f.name.range[2]
    <3>1. BlockExecuted(b)
      BY <1>2, <1>4, <2>2 DEF WaitInv
    <3> QED
      BY <3>1 DEF BlockExecuted, Has
  <2>3. ASSUME ~request.skipAwait, ~request.skipDerivation
        PROVE  [name |-> [execution |-> FALSE, range |-> Whole], snark |-> TRUE] \in files
    <3>1. Whole \in proofs
      BY <1>2, <1>5, <1>6, <2>3, SingleProof
    <3>2. Proven(Whole)
      BY <1>2, <3>1 DEF WaitInv
    <3> QED
      BY <1>2, <3>2, WholeProven
  <2>4. Whole' = Whole
    BY <1>1, WholeKept
  <2>5. DoneIsProven'
    BY <1>1, <2>2, <2>3, <2>4 DEF DoneIsProven
  <2>6. FailureInv'
    BY <2>1 DEF FailureInv
  <2> QED
    BY <1>1, <2>1, <2>5, <2>6, EndStep
<1>7. CASE ~(request.skipAwait \/ request.skipDerivation \/ Cardinality(proofs) <= 1)
  <2>1. PICK k, t : k = NewJob(<<request.hi, request.hi>>, TRUE) /\ t = Complete(k)
    OBVIOUS
  <2>2. pc' = "stitch" /\ jobs' = {k} /\ channel' = Append(channel, t)
    BY <1>3, <1>5, <1>7, <2>1 DEF Stitch, Spawn
  <2>3. /\ Final \in Nat \X Nat /\ Final = <<request.hi, request.hi>> /\ Final \notin Parts(Whole)
        /\ Whole \in Parts(Whole)
    BY <1>2, RequestFacts DEF Final
  <2>4. k.range = Final /\ k.snark = TRUE /\ k.pc = "complete" /\ k.done = {} /\ k \in JobRecords
    <3>1. PICK s \in BOOLEAN : s = TRUE
      OBVIOUS
    <3>2. k = NewJob(Final, s)
      BY <2>1, <2>3, <3>1
    <3>3. k.range = Final /\ k.snark = s /\ k.pc = "complete" /\ k.done = {} /\ k \in JobRecords
      BY <2>3, <3>2, NewJobFields
    <3> QED
      BY <3>1, <3>3
  <2>5. \A u \in Tasks : u.job # Final
    BY <1>1, <1>2, <2>3 DEF TasksInv, IsTask
  <2>6. t.job = Final /\ t.snark = TRUE /\ t \in TaskRecords
    <3>1. request.skipDerivation \in BOOLEAN
      BY <1>2, RequestFacts
    <3> QED
      BY <2>1, <2>3, <2>4, <3>1 DEF Complete, Task, TaskRecords
  <2>7. IsTask(t)'
    <3>1. PICK g : g = [range |-> t.job, snark |-> t.snark]
      OBVIOUS
    <3>2. g.range = k.range /\ g.snark = k.snark
      BY <2>4, <2>6, <3>1
    <3>3. t = Complete(g)'
      BY <1>1, <2>1, <3>2 DEF Complete, Task
    <3>4. Final' = Final
      BY <1>1, WholeKept
    <3> QED
      BY <2>2, <2>6, <3>1, <3>3, <3>4 DEF IsTask
  <2>8. TasksInv' /\ Tasks' = Tasks \cup {t} /\ Kept
    BY <1>1, <1>2, <2>2, <2>5, <2>6, <2>7, SpawnTasks
  <2>9. JobInv(k)'
    BY <1>1, <2>1, <2>4, <2>5, <2>8, NewJobInv
  <2>10. StitchInv'
    <3>1. Final' = Final
      BY <1>1, WholeKept
    <3> QED
      BY <1>1, <1>3, <1>7, <2>2, <2>4, <3>1 DEF StitchInv
  <2>11. FilesInv' /\ DoneIsProven' /\ FailureInv'
    BY <1>1, <1>2, <2>2, FilesSame DEF DoneIsProven, FailureInv
  <2> QED
    BY <1>1, <1>2, <1>3, <2>2, <2>8, <2>9, <2>10, <2>11 DEF ProverInv
<1> QED
  BY <1>6, <1>7

LEMMA StitchedKeeps ==
  ASSUME ProverInv, NEW m \in results, Stitched(m)
  PROVE  ProverInv'
<1>1. /\ pc = "stitch" /\ pc' = (IF m.outcome = "Ok" THEN "done" ELSE "failed")
      /\ request' = request /\ files' = files /\ errors' = errors
  BY DEF Stitched, diskVars
<1>2. /\ request \in Requests /\ FilesInv /\ ResultInv(m) /\ m.range = Final
      /\ ~request.skipAwait /\ ~request.skipDerivation
  BY <1>1 DEF ProverInv, Running, StitchInv
<1>3. Whole' = Whole /\ Kept /\ Blocks(Final) <= 1
  BY <1>1, <1>2, WholeKept, RequestFacts DEF Kept
<1>4. CASE m.outcome = "Ok"
  <2>1. Proven(Final)
    BY <1>2, <1>4 DEF ResultInv
  <2>2. [name |-> [execution |-> FALSE, range |-> Whole], snark |-> TRUE] \in files
    BY <1>2, <2>1, WholeProven
  <2>3. DoneIsProven' /\ FailureInv'
    BY <1>1, <1>2, <1>3, <1>4, <2>2 DEF DoneIsProven, FailureInv
  <2> QED
    BY <1>1, <1>4, <2>3, EndStep
<1>5. CASE m.outcome # "Ok"
  <2>1. Cause
    BY <1>2, <1>3, <1>5 DEF ResultInv
  <2>2. Cause'
    BY <1>3, <2>1, CauseKept
  <2>3. DoneIsProven' /\ FailureInv'
    BY <1>1, <1>5, <2>2 DEF DoneIsProven, FailureInv
  <2> QED
    BY <1>1, <1>5, <2>3, EndStep
<1> QED
  BY <1>4, <1>5

-----------------------------------------------------------------------------
(***************************************************************************)
(* The theorems.                                                           *)
(***************************************************************************)

LEMMA ProverInitInv ==
  ASSUME ProverInit
  PROVE  ProverInv
<1>1. /\ request \in Requests /\ pc = "start" /\ pending = <<>> /\ jobs = {} /\ channel = <<>>
      /\ busy = {} /\ inbox = {} /\ results = {} /\ need = 0 /\ proofs = {} /\ files = {}
  BY DEF ProverInit
<1>2. FilesInv /\ DoneIsProven /\ FailureInv /\ ~Running
  BY <1>1 DEF FilesInv, DoneIsProven, FailureInv, Running
<1> QED
  BY <1>1, <1>2 DEF ProverInv

LEMMA ProverNextInv ==
  ASSUME ProverInv, [ProverNext]_proverVars
  PROVE  ProverInv'
<1>1. CASE UNCHANGED proverVars
  BY <1>1, StutterKeeps
<1>2. CASE Preflight
  BY <1>2, PreflightKeeps
<1>3. CASE PreflightFails
  BY <1>3, PreflightFailsKeeps
<1>4. CASE Start
  BY <1>4, BeginKeeps
<1>5. CASE Dispatch
  BY <1>5, DispatchKeeps
<1>6. CASE Stitch
  BY <1>6, StitchKeeps
<1>7. CASE Running /\ Take
  BY <1>7, TakeKeeps
<1>8. CASE Running /\ Work
  <2>1. PICK w \in busy : UseFile(w) \/ Refuse(w) \/ Leave(w) \/ Create(w) \/ Write(w)
    BY <1>8 DEF Work
  <2> QED
    BY <1>8, <2>1, UseFileKeeps, RefuseKeeps, LeaveKeeps, CreateKeeps, WriteKeeps
<1>9. CASE Running /\ Failure
  <2>1. PICK w \in busy, o \in {"ExecutionError", "OtherError"} : Fail(w, o)
    BY <1>9 DEF Failure
  <2> QED
    BY <1>9, <2>1, FailKeeps
<1>10. CASE Running /\ \E m \in inbox : JobStep(m)
  BY <1>10, JobStepKeeps
<1>11. CASE \E m \in results : Receive(m) \/ Stitched(m)
  BY <1>11, ReceiveKeeps, StitchedKeeps
<1>12. CASE Restart
  BY <1>12, RestartKeeps
<1> QED
  BY <1>1, <1>2, <1>3, <1>4, <1>5, <1>6, <1>7, <1>8, <1>9, <1>10, <1>11, <1>12
     DEF ProverNext, ProverStep

LEMMA ProverInvariant == ProverSpec => []ProverInv
<1>1. ProverInit => ProverInv
  BY ProverInitInv
<1>2. ProverInv /\ [ProverNext]_proverVars => ProverInv'
  BY ProverNextInv
<1> QED
  BY <1>1, <1>2, PTL DEF ProverSpec

LEMMA UnionCount ==
  ASSUME NEW S, IsFiniteSet(S), NEW T, IsFiniteSet(T), S \cap T = {}
  PROVE  IsFiniteSet(S \cup T) /\ Cardinality(S \cup T) = Cardinality(S) + Cardinality(T)
<1>1. Cardinality(S) \in Nat /\ Cardinality(T) \in Nat /\ Cardinality(S \cap T) = 0
  BY FS_CardinalityType, FS_EmptySet
<1>2. /\ IsFiniteSet(S \cup T)
      /\ Cardinality(S \cup T) = Cardinality(S) + Cardinality(T) - Cardinality(S \cap T)
  BY FS_Union
<1> QED
  BY <1>1, <1>2

\* Ranges held once are counted once.
LEMMA OpenCount ==
  ASSUME HeldOnce, \A j, k \in jobs : j.range = k.range => j = k
  PROVE  /\ IsFiniteSet(proofs \cup Open)
         /\ Cardinality(proofs \cup Open)
              = Cardinality(proofs) + Len(pending) + Cardinality(jobs) + Cardinality(results)
<1>1. IsFiniteSet(PendingRanges) /\ Cardinality(PendingRanges) = Len(pending) /\ Len(pending) \in Nat
  <2>1. PICK R : R = [range : Nat \X Nat, split : BOOLEAN]
    OBVIOUS
  <2>2. pending \in Seq(R)
    BY <2>1 DEF HeldOnce
  <2>3. PICK n \in Nat : n = Len(pending) /\ DOMAIN pending = 1..n
    BY <2>2
  <2>4. PICK o : o = Outstanding
    OBVIOUS
  <2>5. o = [i \in 1..n |-> pending[i].range]
    BY <2>3, <2>4 DEF Outstanding
  <2>6. DOMAIN o = 1..n /\ o = [i \in 1..n |-> o[i]] /\ \A i, k \in 1..n : o[i] = o[k] => i = k
    BY <2>4, <2>5 DEF HeldOnce, IsInjective
  <2>7. PendingRanges = {o[i] : i \in 1..n}
    BY <2>4, <2>6 DEF PendingRanges, Range
  <2>8. IsFiniteSet(1..n) /\ Cardinality(1..n) = n
    BY FS_Interval
  <2> QED
    BY <2>3, <2>6, <2>7, <2>8, ImageSize
<1>2. IsFiniteSet(JobRanges) /\ Cardinality(JobRanges) = Cardinality(jobs)
  <2>1. PICK f : f = [j \in jobs |-> j.range]
    OBVIOUS
  <2>2. DOMAIN f = jobs /\ f = [j \in jobs |-> f[j]] /\ JobRanges = {f[j] : j \in jobs}
    BY <2>1 DEF JobRanges
  <2>3. \A j, k \in jobs : f[j] = f[k] => j = k
    BY <2>1
  <2>4. IsFiniteSet(jobs)
    BY DEF HeldOnce
  <2> QED
    BY <2>2, <2>3, <2>4, ImageSize
<1>3. IsFiniteSet(ResultRanges) /\ Cardinality(ResultRanges) = Cardinality(results)
  <2>1. PICK f : f = [m \in results |-> m.range]
    OBVIOUS
  <2>2. DOMAIN f = results /\ f = [m \in results |-> f[m]] /\ ResultRanges = {f[m] : m \in results}
    BY <2>1 DEF ResultRanges
  <2>3. \A m, n \in results : f[m] = f[n] => m = n
    BY <2>1 DEF HeldOnce
  <2>4. IsFiniteSet(results)
    BY DEF HeldOnce
  <2> QED
    BY <2>2, <2>3, <2>4, ImageSize
<1>4. PICK A, B : A = PendingRanges \cup JobRanges /\ B = A \cup ResultRanges
  OBVIOUS
<1>5. IsFiniteSet(A) /\ Cardinality(A) = Cardinality(PendingRanges) + Cardinality(JobRanges)
  <2>1. PendingRanges \cap JobRanges = {}
    BY DEF HeldOnce
  <2> QED
    BY <1>1, <1>2, <1>4, <2>1, UnionCount
<1>6. IsFiniteSet(B) /\ Cardinality(B) = Cardinality(A) + Cardinality(ResultRanges)
  <2>1. A \cap ResultRanges = {}
    BY <1>4 DEF HeldOnce
  <2> QED
    BY <1>3, <1>4, <1>5, <2>1, UnionCount
<1>7. B = Open
  BY <1>4 DEF Open
<1>8. IsFiniteSet(proofs \cup B) /\ Cardinality(proofs \cup B) = Cardinality(proofs) + Cardinality(B)
  <2>1. IsFiniteSet(proofs) /\ proofs \cap B = {}
    BY <1>7 DEF HeldOnce
  <2> QED
    BY <1>6, <2>1, UnionCount
<1>9. Cardinality(proofs) \in Nat /\ Cardinality(jobs) \in Nat /\ Cardinality(results) \in Nat
  BY FS_CardinalityType DEF HeldOnce
<1> QED
  BY <1>1, <1>2, <1>3, <1>5, <1>6, <1>7, <1>8, <1>9

LEMMA TilesFollow ==
  ASSUME ProverInv
  PROVE  PartsTile
<1>1. ASSUME pc = "cut", request.preflights > 0
      PROVE  Covers(Range(Preflights(Whole, request.preflights)), Whole)
  <2>1. /\ Whole \in Nat \X Nat /\ Whole[1] < Whole[2] /\ request.preflights \in Nat \ {0}
    BY <1>1, RequestFacts DEF ProverInv
  <2> QED
    BY <2>1, PreflightsTile
<1>2. ASSUME pc = "wait"
      PROVE  /\ need = Cardinality(proofs) + Len(pending) + Cardinality(jobs) + Cardinality(results)
             /\ ~(request.skipAwait \/ request.skipDerivation) =>
                  Covers(proofs \cup Open, Whole) /\ Cardinality(proofs \cup Open) = need
  <2>1. WaitInv /\ HeldOnce /\ \A j, k \in jobs : j.range = k.range => j = k
    BY <1>2 DEF ProverInv, WaitInv, Running
  <2>2. need = Cardinality(proofs) + Len(pending) + Cardinality(jobs) + Cardinality(results)
    BY <2>1 DEF WaitInv
  <2>3. Cardinality(proofs \cup Open) = need
    BY <2>1, <2>2, OpenCount
  <2>4. proofs \cup Open = Open \cup proofs
    OBVIOUS
  <2> QED
    BY <2>1, <2>2, <2>3, <2>4 DEF WaitInv
<1>3. ASSUME pc = "wait", NEW j \in jobs, j.pc \in {"executions", "combined"}
      PROVE  /\ j.need = Cardinality(j.done) + Cardinality(PartsOf(j))
             /\ ~request.skipAwait => Covers(j.done \cup PartsOf(j), j.range)
  <2>1. JobInv(j)
    BY <1>3 DEF ProverInv, Running
  <2>2. Counted(j)
    BY <1>3, <2>1 DEF JobInv
  <2> QED
    BY <2>2 DEF Counted
<1>4. Open = Range(Outstanding) \cup {j.range : j \in jobs} \cup {m.range : m \in results}
  BY DEF Open, PendingRanges, JobRanges, ResultRanges
<1> QED
  BY <1>1, <1>2, <1>3, <1>4 DEF PartsTile

\* However often jobs and their parts are split, in whichever order their halves come back,
\* and wherever the process restarts: num_proofs in prove(), and the count in every
\* compute_fpvm_proof, is what was proven and what is under way, and the ranges meet end to
\* end.  For every request and every number of workers.
THEOREM CutsTile == ProverSpec => []PartsTile
<1>1. ProverInv => PartsTile
  BY TilesFollow
<1> QED
  BY <1>1, ProverInvariant, PTL

\* The unreachable!(), the panics and the assertions on contiguous proofs of prove() and
\* compute_fpvm_proof are never reached.
THEOREM NoPanic == ProverSpec => []NeverPanics
<1>1. ProverInv => NeverPanics
  BY DEF ProverInv, NeverPanics
<1> QED
  BY <1>1, ProverInvariant, PTL

\* A prover that ends well has left what it was asked for on disk: the SNARK of the whole
\* request, or execution proofs of every block.
THEOREM DoneMeansProven == ProverSpec => []DoneIsProven
<1>1. ProverInv => DoneIsProven
  BY DEF ProverInv
<1> QED
  BY <1>1, ProverInvariant, PTL

\* If the derivation of every single block fits, prove() gives up only over an error other
\* than the size of the work, an error of a job of one block, or a setting that forbids
\* execution-only proofs: for any request, any number of workers and any order of results.
THEOREM FailureHasCause == ProverSpec => []FailsForCause
<1>1. ProverInv => FailsForCause
  BY DEF ProverInv, FailureInv, Cause, FailsForCause, BlocksFit, Obstacle
<1> QED
  BY <1>1, ProverInvariant, PTL
=============================================================================
