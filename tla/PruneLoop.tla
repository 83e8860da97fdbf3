------------------------------ MODULE PruneLoop ------------------------------
(***************************************************************************)
(* The body of KailuaTournament.pruneChildren, one loop iteration per      *)
(* step: local variables, the order of the checks and the step accounting  *)
(* are the source's.  Every call starts from a stored tournament the       *)
(* contracts can be in (WellFormed) and runs alone, as an EVM call does.   *)
(***************************************************************************)
EXTENDS PruneChildren, Sequences, SequencesExt

CONSTANTS
  MaxChildren,  \* bound on children.length
  MaxCreated,   \* bound on the children's createdAt
  MaxLimit,     \* bound on stepLimit
  Signatures    \* the signatures proposals can have

ASSUME LoopAssumption ==
  /\ MaxChildren \in Nat \ {0} /\ MaxCreated \in Nat /\ MaxLimit \in Nat

VARIABLES
  T,                   \* the tournament as stored when the call starts
  limit,               \* the argument stepLimit
  pc,                  \* the statement the call is at
  u, v, k,             \* locals u, v, stepLimit
  contender,           \* local contender, as a position
  contenderSignature,  \* local contenderSignature
  out,                 \* isChildEliminated, as eliminate() calls change it
  dups,                \* contenderDuplicates, the stored array
  ci, oi,              \* contenderIndex, opponentIndex
  ret                  \* the child returned

callVars == <<T, limit, pc, u, v, k, contender, contenderSignature, out, dups, ci, oi, ret>>

(***************************************************************************)
(* The stored tournaments.  Children are appended in time order, a         *)
(* signature is viable or not for all who proposed it, and earlier calls   *)
(* left progress that this one can resume from.  KailuaSafety has this as  *)
(* an invariant of every reachable tournament.  The contender may have won *)
(* already: proofs and eliminations that came after leave it where it is.  *)
(***************************************************************************)
Stored(m, sig, good, gone, created, won, c, o) ==
  [n |-> m, sig |-> sig, viable |-> [i \in 0..(m - 1) |-> sig[i] \in good],
   out |-> [i \in 0..(m - 1) |-> i \in gone], created |-> created, settled |-> won,
   ci |-> c, oi |-> o, dups |-> ((c + 1)..(o - 1)) \ gone]

\* The array that stores the positions S: each once, in increasing order.
Arrays(S) ==
  {s \in [1..Cardinality(S) -> S] :
     /\ ToSet(s) = S
     /\ \A i, j \in DOMAIN s : i < j => s[i] < s[j]}

WellFormed(t) ==
  /\ \A i, j \in 0..(t.n - 1) : i < j => t.created[i] <= t.created[j]
  /\ Resumable(t)

PruneInit ==
  /\ \E m \in 1..MaxChildren :
       \E sig \in [0..(m - 1) -> Signatures], good \in SUBSET Signatures,
          gone \in SUBSET (0..(m - 1)), created \in [0..(m - 1) -> 0..MaxCreated],
          won \in BOOLEAN, c \in 0..m, o \in 0..m :
         /\ won => c < m
         /\ T = Stored(m, sig, good, gone, created, won, c, o)
  /\ WellFormed(T)
  /\ limit \in 0..MaxLimit
  /\ pc = "enter"
  /\ u = 0 /\ v = 0 /\ k = limit
  /\ contender = NoChild /\ contenderSignature = NoChild
  /\ out = T.out
  /\ dups \in Arrays(T.dups)
  /\ ci = T.ci /\ oi = T.oi
  /\ ret = NoChild

\* The call returns child r, or reverts: the EVM then discards all it changed.
Return(r) == pc' = "done" /\ ret' = r
Revert == pc' = "reverted" /\ ret' = NoChild

\* KAILUA_TREASURY.eliminate(child): each child of a tournament has its own proposer.
EliminateChild(i) == out' = [out EXCEPT ![i] = TRUE]

\* Mutant: the contender's elimination is not looked at, only its signature.
EnterWithEliminated ==
  /\ pc = "enter"
  /\ IF ci = T.n
     THEN Return(NoChild) /\ UNCHANGED <<u, v, contender, contenderSignature>>
     ELSE /\ u' = ci
          /\ v' = IF oi <= ci THEN ci + 1 ELSE oi
          /\ contender' = ci
          /\ contenderSignature' = T.sig[ci]
          /\ IF T.settled THEN Return(ci)
             ELSE /\ pc' = IF ~T.viable[ci] THEN "duplicates" ELSE "opponents?"
                  /\ ret' = ret
  /\ UNCHANGED <<T, limit, k, out, dups, ci, oi>>

\* Statements before the first branch; the survivor of a resolved tournament is final.
Enter ==
  /\ pc = "enter"
  /\ IF ci = T.n
     THEN Return(NoChild) /\ UNCHANGED <<u, v, contender, contenderSignature>>
     ELSE /\ u' = ci
          /\ v' = IF oi <= ci THEN ci + 1 ELSE oi
          /\ contender' = ci
          /\ contenderSignature' = T.sig[ci]
          /\ IF T.settled THEN Return(ci)
             ELSE /\ pc' = IF ~T.viable[ci] \/ out[ci] THEN "duplicates" ELSE "opponents?"
                  /\ ret' = ret
  /\ UNCHANGED <<T, limit, k, out, dups, ci, oi>>

\* One iteration of the loop over contenderDuplicates, or its end.
EliminateDuplicate ==
  /\ pc = "duplicates"
  /\ IF dups # <<>> /\ k > 0
     THEN /\ IF out[Last(dups)] THEN out' = out ELSE EliminateChild(Last(dups))
          /\ dups' = Front(dups)
          /\ k' = k - 1
          /\ UNCHANGED <<pc, ret>>
     ELSE /\ IF k = 0 THEN Return(NoChild) ELSE pc' = "contender" /\ ret' = ret
          /\ UNCHANGED <<out, dups, k>>
  /\ UNCHANGED <<T, limit, u, v, contender, contenderSignature, ci, oi>>

EliminateContender ==
  /\ pc = "contender"
  /\ IF out[contender] THEN out' = out ELSE EliminateChild(contender)
  /\ k' = k - 1
  /\ u' = v
  /\ pc' = "search"
  /\ UNCHANGED <<T, limit, v, contender, contenderSignature, dups, ci, oi, ret>>

\* Mutant: the loop continues at an eliminated child without moving on.
SearchWithoutAdvance ==
  /\ pc = "search"
  /\ IF u < T.n /\ k > 0
     THEN /\ contender' = u
          /\ contenderSignature' = IF out[u] THEN contenderSignature ELSE T.sig[u]
          /\ IF out[u] \/ ~T.viable[u]
             THEN /\ IF out[u] THEN UNCHANGED <<out, u, k>>
                     ELSE EliminateChild(u) /\ u' = u + 1 /\ k' = k - 1
                  /\ pc' = pc
             ELSE pc' = "selected" /\ UNCHANGED <<out, u, k>>
     ELSE pc' = "selected" /\ UNCHANGED <<out, u, k, contender, contenderSignature>>
  /\ UNCHANGED <<T, limit, v, dups, ci, oi, ret>>

\* One iteration of the search for the next viable contender, or its end.
SearchContender ==
  /\ pc = "search"
  /\ IF u < T.n /\ k > 0
     THEN /\ contender' = u
          /\ contenderSignature' = IF out[u] THEN contenderSignature ELSE T.sig[u]
          /\ IF out[u] \/ ~T.viable[u]
             THEN /\ IF out[u] THEN out' = out ELSE EliminateChild(u)
                  /\ u' = u + 1 /\ k' = k - 1 /\ pc' = pc
             ELSE pc' = "selected" /\ UNCHANGED <<out, u, k>>
     ELSE pc' = "selected" /\ UNCHANGED <<out, u, k, contender, contenderSignature>>
  /\ UNCHANGED <<T, limit, v, dups, ci, oi, ret>>

StoreContender ==
  /\ pc = "selected"
  /\ ci' = u
  /\ v' = u + 1
  /\ pc' = "opponents?"
  /\ UNCHANGED <<T, limit, u, k, contender, contenderSignature, out, dups, oi, ret>>

EnterOpponents ==
  /\ pc = "opponents?"
  /\ IF u < T.n /\ T.viable[u] THEN pc' = "opponents" /\ ret' = ret ELSE Return(NoChild)
  /\ UNCHANGED <<T, limit, u, v, k, contender, contenderSignature, out, dups, ci, oi>>

\* Mutant: opponents that came after the challenge period are played as well.
MorePlayWhenLate == v < T.n /\ k > 0

\* The loop over the opponents goes on: its condition holds and it does not break.
MorePlay == v < T.n /\ k > 0 /\ ~Late(T, contender, v)

\* One iteration of the loop over the contender's opponents.
PlayOpponent ==
  /\ pc = "opponents"
  /\ MorePlay
  /\ IF ~out[v] /\ T.sig[v] # contenderSignature /\ T.viable[v]
     THEN Revert /\ UNCHANGED <<v, k, out, dups>>
     ELSE /\ IF out[v] \/ T.sig[v] = contenderSignature THEN out' = out ELSE EliminateChild(v)
          /\ dups' = IF ~out[v] /\ T.sig[v] = contenderSignature THEN Append(dups, v) ELSE dups
          /\ v' = v + 1 /\ k' = k - 1
          /\ UNCHANGED <<pc, ret>>
  /\ UNCHANGED <<T, limit, u, contender, contenderSignature, ci, oi>>

\* Mutant: opponentIndex is not stored.
FinishWithoutIndex ==
  /\ pc = "opponents"
  /\ ~MorePlay
  /\ Return(IF v = T.n \/ k > 0 THEN contender ELSE NoChild)
  /\ UNCHANGED <<T, limit, u, v, k, contender, contenderSignature, out, dups, ci, oi>>

\* The end of that loop and of the call.
FinishOpponents ==
  /\ pc = "opponents"
  /\ ~MorePlay
  /\ oi' = v
  /\ Return(IF v = T.n \/ k > 0 THEN contender ELSE NoChild)
  /\ UNCHANGED <<T, limit, u, v, k, contender, contenderSignature, out, dups, ci>>

Finished == pc \in {"done", "reverted"}

\* The call has ended; stuttering here keeps a finished call from being a deadlock.
Stop == Finished /\ UNCHANGED callVars

PruneNext ==
  \/ Enter \/ EliminateDuplicate \/ EliminateContender \/ SearchContender
  \/ StoreContender \/ EnterOpponents \/ PlayOpponent \/ FinishOpponents \/ Stop

\* An EVM call runs until it returns or reverts.
PruneSpec == PruneInit /\ [][PruneNext]_callVars /\ WF_callVars(PruneNext)

-----------------------------------------------------------------------------
\* What the call has changed so far, in the form of an outcome of PruneChildren.
Outcome ==
  [ci |-> ci, oi |-> oi, dups |-> ToSet(dups),
   elim |-> {i \in 0..(T.n - 1) : out[i] /\ ~T.out[i]}, ret |-> ret]

\* The loops compute exactly the outcome the protocol model uses for a call of
\* pruneChildren, and revert exactly when it has none.
LoopComputesOutcome ==
  /\ pc = "done" => Outcomes(T, limit) = {Outcome}
  /\ pc = "reverted" => Outcomes(T, limit) = {}

\* The progress a call stores is well formed again: the next call may resume from it.
ProgressIsResumable ==
  pc = "done" => WellFormed(After(T, Outcome))

\* KailuaGame.resolve passes stepLimit = 2 * childCount.  A call with that allowance
\* that does not revert settles a tournament without a winner: it names a surviving child, every
\* other child in play shares its signature or came too late, or no child survives.
ResolveLimitSettles ==
  pc = "done" /\ ~T.settled /\ limit >= 2 * T.n =>
    IF ret = NoChild
    THEN \A i \in 0..(T.n - 1) : out[i]
    ELSE /\ T.viable[ret] /\ ~out[ret] /\ ret = ci
         /\ \A i \in 0..(T.n - 1) :
              ~out[i] => T.sig[i] = T.sig[ret] \/ (i > ret /\ Late(T, ret, i))

\* Every call ends.
Terminates == <>Finished
=============================================================================
