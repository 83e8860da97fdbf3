---------------------------- MODULE PruneChildren ----------------------------
(***************************************************************************)
(* KailuaTournament.pruneChildren as a function from the tournament's      *)
(* stored progress to the outcome of one call.                             *)
(*                                                                         *)
(* A tournament is a record T:                                             *)
(*   n        children.length; children are named by their position 0..n-1 *)
(*   sig      the signature of each child                                  *)
(*   viable   isViableSignature(signature) of each child                   *)
(*   out      isChildEliminated(child) of each child, when the call starts *)
(*   created  createdAt of each child                                      *)
(*   settled  status() of the contender is DEFENDER_WINS                   *)
(*   ci, oi   contenderIndex, opponentIndex                                *)
(*   dups     the positions stored in contenderDuplicates.  They are       *)
(*            pushed in increasing order and popped from the end, so the   *)
(*            array is the set and the last entry is its maximum.          *)
(*                                                                         *)
(* A call with stepLimit k has the outcomes Outcomes(T, k): the single     *)
(* record the loops compute, or none when the call reverts with NotProven. *)
(* PruneLoop.tla runs the source's loops one iteration at a time and       *)
(* checks that they compute exactly this.                                  *)
(***************************************************************************)
EXTENDS Integers, FiniteSets

\* MAX_CLOCK_DURATION of KailuaGame.
CONSTANT MaxClock

ASSUME ClockAssumption == MaxClock \in Nat

\* The null tournament address.
NoChild == -1

(***************************************************************************)
(* The progress that earlier calls leave behind, as the source's comments  *)
(* state it: everything before the contender is eliminated; what lies      *)
(* between contender and opponent is eliminated or a recorded duplicate    *)
(* ("v > max(u, contenderDuplicates)"); a contender with duplicates is not *)
(* eliminated ("If branch entered through isChildEliminated condition,     *)
(* contenderDuplicates is empty").                                         *)
(***************************************************************************)
Resumable(T) ==
  /\ T.ci \in 0..T.n /\ T.oi \in 0..T.n
  /\ \A i \in 0..(T.ci - 1) : T.out[i]
  /\ T.dups \subseteq (T.ci + 1)..(T.oi - 1)
  /\ \A i \in (T.ci + 1)..(T.oi - 1) : i \in T.dups \/ T.out[i]
  /\ \A i \in T.dups : T.sig[i] = T.sig[T.ci] /\ ~T.out[T.ci]

\* A child that pruning keeps: its signature is viable and its proposer was not
\* eliminated as of this proposal.
Survives(T, i) == T.viable[i] /\ ~T.out[i]

\* Mutant: the challenge period ends one second early.
LateOneSecondEarly(T, u, i) == T.created[i] - T.created[u] >= MaxClock - 1

\* contender.getChallengerDuration(opponent.createdAt()) == 0
Late(T, u, i) == T.created[i] - T.created[u] >= MaxClock

\* Advance v if needed: the first opponent still to be played.
FirstOpponent(T) == IF T.oi <= T.ci THEN T.ci + 1 ELSE T.oi

\* The duplicates a step allowance of k reaches, from the end of the array.
Popped(T, k) == {d \in T.dups : Cardinality({e \in T.dups : e > d}) < k}

\* Where the search for the next contender stops, starting at v with k steps.
SearchStops(T, v, k) ==
  {u \in v..T.n :
     /\ u <= v + k
     /\ \A i \in v..(u - 1) : ~Survives(T, i)
     /\ u = T.n \/ u = v + k \/ Survives(T, u)}

\* Where the scan of the opponents of u stops, starting at v with k steps.
ScanStops(T, u, v, k) ==
  {w \in v..T.n :
     /\ w <= v + k
     /\ \A i \in v..(w - 1) : ~Late(T, u, i)
     /\ w = T.n \/ w = v + k \/ Late(T, u, w)}

\* Mutants: a viable duplicate aborts the call like any other viable opponent; no
\* opponent does, all with another signature are eliminated without a proof.
RivalWithAnySignature(T, u, i) == Survives(T, i)
RivalNever(T, u, i) == FALSE

\* A scanned opponent that aborts the call: viable, in play, another signature.
Rival(T, u, i) == Survives(T, i) /\ T.sig[i] # T.sig[u]

\* A scanned opponent that is recorded as a duplicate of the contender.
Duplicate(T, u, i) == ~T.out[i] /\ T.sig[i] = T.sig[u]

\* The opponents that the scan from v to w eliminates.
ScanEliminates(T, u, v, w) == {i \in v..(w - 1) : ~T.out[i] /\ T.sig[i] # T.sig[u]}

\* The second half of the call: scan the opponents of u from v with k steps.
\* elim is what the first half eliminated and held the child that the local
\* variable contender holds.
Play(T, u, v, k, dups, elim, held) ==
  IF u < T.n /\ T.viable[u]
  THEN {[ci   |-> u,
         oi   |-> w,
         dups |-> dups \cup {i \in v..(w - 1) : Duplicate(T, u, i)},
         elim |-> elim \cup ScanEliminates(T, u, v, w),
         ret  |-> IF w = T.n \/ w < v + k THEN held ELSE NoChild] :
           w \in {x \in ScanStops(T, u, v, k) : \A i \in v..(x - 1) : ~Rival(T, u, i)}}
  ELSE {[ci |-> u, oi |-> T.oi, dups |-> dups, elim |-> elim, ret |-> NoChild]}

\* The child the local variable contender holds after a search from v to u with
\* k steps: the last one the search loop looked at.
Held(T, v, u, k) ==
  IF u < T.n /\ u < v + k THEN u
  ELSE IF u > v THEN u - 1 ELSE T.ci

\* The contender must go: its duplicates first, then itself, then the search
\* for the next contender among the children not yet processed.
Replace(T, k) ==
  LET v == FirstOpponent(T)
      popped == Popped(T, k)
      fallen == {d \in popped : ~T.out[d]}
      left == k - Cardinality(T.dups) - 1
  IN IF k <= Cardinality(T.dups)
     THEN {[ci |-> T.ci, oi |-> T.oi, dups |-> T.dups \ popped, elim |-> fallen,
            ret |-> NoChild]}
     ELSE UNION {Play(T, u, u + 1, left - (u - v), {},
                      fallen \cup {i \in {T.ci} \cup v..(u - 1) : ~T.out[i]},
                      Held(T, v, u, left)) :
                 u \in SearchStops(T, v, left)}

\* pruneChildren(k) of a tournament with at least one child.
Outcomes(T, k) ==
  IF T.ci = T.n \/ T.settled
  THEN {[ci |-> T.ci, oi |-> T.oi, dups |-> T.dups, elim |-> {},
         ret |-> IF T.ci = T.n THEN NoChild ELSE T.ci]}
  ELSE IF Survives(T, T.ci)
  THEN Play(T, T.ci, FirstOpponent(T), k, T.dups, {}, T.ci)
  ELSE Replace(T, k)

\* The tournament as the outcome o of a call leaves it.
After(T, o) ==
  [n |-> T.n, sig |-> T.sig, viable |-> T.viable,
   out |-> [i \in 0..(T.n - 1) |-> T.out[i] \/ i \in o.elim],
   created |-> T.created, settled |-> T.settled,
   ci |-> o.ci, oi |-> o.oi, dups |-> o.dups]
=============================================================================
