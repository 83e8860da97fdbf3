---------------------------- MODULE PruneProofs ----------------------------
(***************************************************************************)
(* What one call of pruneChildren can and cannot do, for tournaments of    *)
(* any size and any step limit.                                            *)
(***************************************************************************)
EXTENDS PruneChildren, FiniteSetTheorems, TLAPS

\* A stored tournament: functions of the children, and viability by signature.
IsTournament(T) ==
  /\ T.n \in Nat
  /\ T.viable \in [0..(T.n - 1) -> BOOLEAN]
  /\ T.out \in [0..(T.n - 1) -> BOOLEAN]
  /\ T.created \in [0..(T.n - 1) -> Int]
  /\ \A i, j \in 0..(T.n - 1) : T.sig[i] = T.sig[j] => T.viable[i] = T.viable[j]

\* The stored duplicates are finitely many, fewer than the children.
LEMMA DupsFinite ==
  ASSUME NEW T, IsTournament(T), Resumable(T)
  PROVE  /\ IsFiniteSet(T.dups)
         /\ Cardinality(T.dups) \in Nat
         /\ T.ci < T.n => Cardinality(T.dups) < T.n
<1>1. T.n \in Nat /\ T.ci \in 0..T.n /\ T.oi \in 0..T.n
  BY DEF IsTournament, Resumable
<1>2. T.dups \subseteq (T.ci + 1)..(T.oi - 1)
  BY DEF Resumable
<1>3. /\ IsFiniteSet((T.ci + 1)..(T.oi - 1))
      /\ Cardinality((T.ci + 1)..(T.oi - 1)) =
           IF T.ci + 1 > T.oi - 1 THEN 0 ELSE (T.oi - 1) - (T.ci + 1) + 1
  <2>1. T.ci + 1 \in Int /\ T.oi - 1 \in Int
    BY <1>1
  <2> QED
    BY ONLY <2>1, FS_Interval, Zenon
<1>4. /\ IsFiniteSet(T.dups)
      /\ Cardinality(T.dups) <= Cardinality((T.ci + 1)..(T.oi - 1))
  BY <1>2, <1>3, FS_Subset
<1>5. Cardinality(T.dups) \in Nat
  BY <1>4, FS_CardinalityType
<1> QED
  BY <1>1, <1>3, <1>4, <1>5

\* With more steps than duplicates all of them are popped.
LEMMA AllPopped ==
  ASSUME NEW T, IsTournament(T), Resumable(T), NEW k \in Nat, k > Cardinality(T.dups)
  PROVE  Popped(T, k) = T.dups
<1> SUFFICES ASSUME NEW d \in T.dups
             PROVE  Cardinality({e \in T.dups : e > d}) < k
  BY DEF Popped
<1> DEFINE above == {e \in T.dups : e > d}
<1>1. IsFiniteSet(T.dups) /\ Cardinality(T.dups) \in Nat
  BY DupsFinite
<1>2. above \subseteq T.dups
  OBVIOUS
<1>3. IsFiniteSet(above) /\ Cardinality(above) <= Cardinality(T.dups)
  BY <1>1, <1>2, FS_Subset
<1>4. Cardinality(above) \in Nat
  BY <1>3, FS_CardinalityType
<1> QED
  BY <1>1, <1>3, <1>4

\* The children a call may eliminate: in play, and with a signature proven wrong.
Eliminable(T) == {i \in 0..(T.n - 1) : ~T.out[i] /\ ~T.viable[i]}

\* What a call leaves behind: eliminations of eliminable children only, and
\* progress that the next call can resume from.
GoodOutcome(T, o) == o.elim \subseteq Eliminable(T) /\ Resumable(After(T, o))

\* The second half of the call, from any point the first half can reach.
LEMMA PlayIsGood ==
  ASSUME NEW T, IsTournament(T), T.oi \in 0..T.n,
         NEW u \in 0..T.n, NEW v \in Nat, v > u, u < T.n => v <= T.n,
         NEW k \in Nat, NEW dups, NEW elim, NEW held,
         elim \subseteq Eliminable(T),
         \A i \in 0..(u - 1) : T.out[i] \/ i \in elim,
         dups \subseteq (u + 1)..(v - 1),
         \A i \in (u + 1)..(v - 1) : i \in dups \/ T.out[i] \/ i \in elim,
         \A i \in dups : T.sig[i] = T.sig[u] /\ ~T.out[u] /\ u \notin elim,
         u < T.n /\ T.viable[u] /\ k > 0 => ~T.out[u] /\ u \notin elim,
         ~(u < T.n /\ T.viable[u]) => dups = {} /\ T.oi <= u,
         NEW o \in Play(T, u, v, k, dups, elim, held)
  PROVE  GoodOutcome(T, o)
<1>1. CASE u < T.n /\ T.viable[u]
  <2>1. PICK w \in ScanStops(T, u, v, k) :
          /\ \A i \in v..(w - 1) : ~Rival(T, u, i)
          /\ o = [ci   |-> u,
                  oi   |-> w,
                  dups |-> dups \cup {i \in v..(w - 1) : Duplicate(T, u, i)},
                  elim |-> elim \cup ScanEliminates(T, u, v, w),
                  ret  |-> IF w = T.n \/ w < v + k THEN held ELSE NoChild]
    BY <1>1 DEF Play
  <2>2. w \in v..T.n /\ w <= v + k
    BY <2>1 DEF ScanStops
  <2>3. ScanEliminates(T, u, v, w) \subseteq Eliminable(T)
    BY <2>1, <2>2, SMTT(30) DEF ScanEliminates, Eliminable, Rival, Survives, IsTournament
  <2>4. o.elim \subseteq Eliminable(T)
    BY <2>1, <2>3
  <2>5. u \notin ScanEliminates(T, u, v, w)
    BY <2>2 DEF ScanEliminates
  <2>6. Resumable(After(T, o))
    <3> DEFINE A == After(T, o)
    <3>1. /\ A.n = T.n /\ A.sig = T.sig /\ A.ci = u /\ A.oi = w /\ A.dups = o.dups
          /\ \A i \in 0..(T.n - 1) : A.out[i] <=> (T.out[i] \/ i \in o.elim)
      BY <2>1 DEF After
    <3>2. A.ci \in 0..A.n /\ A.oi \in 0..A.n
      BY <2>2, <3>1 DEF IsTournament
    <3>3. \A i \in 0..(A.ci - 1) : A.out[i]
      BY <2>1, <3>1, SMTT(30) DEF IsTournament
    <3>4. A.dups \subseteq (A.ci + 1)..(A.oi - 1)
      <4> SUFFICES ASSUME NEW i \in o.dups
                   PROVE  i \in (u + 1)..(w - 1)
        BY <3>1
      <4>1. i \in (u + 1)..(v - 1) \/ i \in v..(w - 1)
        BY <2>1
      <4>2. u \in Int /\ v \in Int /\ w \in Int /\ v <= w /\ u < v
        BY <2>2 DEF IsTournament
      <4> QED
        BY ONLY <4>1, <4>2
    <3>5. \A i \in (A.ci + 1)..(A.oi - 1) : i \in A.dups \/ A.out[i]
      <4> SUFFICES ASSUME NEW i \in (u + 1)..(w - 1)
                   PROVE  i \in o.dups \/ A.out[i]
        BY <3>1
      <4>1. i \in 0..(T.n - 1)
        BY <2>2 DEF IsTournament
      <4>2. CASE i <= v - 1
        BY <4>1, <4>2, <2>1, <3>1
      <4>3. CASE i \in v..(w - 1)
        BY <4>1, <4>3, <2>1, <3>1 DEF Duplicate, ScanEliminates
      <4> QED
        BY <4>2, <4>3, <2>2
    <3>6. \A i \in A.dups : A.sig[i] = A.sig[A.ci] /\ ~A.out[A.ci]
      <4> SUFFICES ASSUME NEW i \in o.dups
                   PROVE  T.sig[i] = T.sig[u] /\ ~A.out[u]
        BY <3>1
      <4>1. u \in 0..(T.n - 1)
        BY <1>1 DEF IsTournament
      <4>2. CASE i \in dups
        BY <4>1, <4>2, <2>1, <2>5, <3>1
      <4>3. CASE i \in v..(w - 1) /\ Duplicate(T, u, i)
        <5>1. k > 0
          BY <4>3, <2>2
        <5> QED
          BY <4>1, <4>3, <5>1, <1>1, <2>1, <2>5, <3>1 DEF Duplicate
      <4> QED
        BY <4>2, <4>3, <2>1
    <3> QED
      BY <3>2, <3>3, <3>4, <3>5, <3>6 DEF Resumable
  <2> QED
    BY <2>4, <2>6 DEF GoodOutcome
<1>2. CASE ~(u < T.n /\ T.viable[u])
  <2>1. o = [ci |-> u, oi |-> T.oi, dups |-> dups, elim |-> elim, ret |-> NoChild]
    BY <1>2 DEF Play
  <2> DEFINE A == After(T, o)
  <2>2. /\ A.n = T.n /\ A.sig = T.sig /\ A.ci = u /\ A.oi = T.oi /\ A.dups = {}
        /\ \A i \in 0..(T.n - 1) : A.out[i] <=> (T.out[i] \/ i \in elim)
    BY <1>2, <2>1 DEF After
  <2> HIDE DEF A
  <2>3. \A i \in 0..(u - 1) : A.out[i]
    BY <2>2 DEF IsTournament
  <2>4. (u + 1)..(T.oi - 1) = {}
    BY <1>2 DEF IsTournament
  <2>5. Resumable(A)
    BY <2>2, <2>3, <2>4 DEF Resumable
  <2> QED
    BY <2>1, <2>5 DEF GoodOutcome, A
<1> QED
  BY <1>1, <1>2

\* The search ends at a child; all it passed over is eliminated or gets eliminated.
LEMMA SearchIsGood ==
  ASSUME NEW T, IsTournament(T), NEW v \in Nat, NEW k \in Nat,
         NEW u \in SearchStops(T, v, k)
  PROVE  /\ u \in v..T.n /\ u <= v + k
         /\ \A i \in v..(u - 1) : ~Survives(T, i)
         /\ u < T.n /\ u < v + k => Survives(T, u)
BY DEF SearchStops, IsTournament

\* One call of pruneChildren, with any step limit, eliminates only proposals whose
\* signature is proven wrong, and leaves progress the next call can resume from.
THEOREM PruneIsGood ==
  ASSUME NEW T, IsTournament(T), Resumable(T), NEW k \in Nat, NEW o \in Outcomes(T, k)
  PROVE  GoodOutcome(T, o)
<1>1. T.n \in Nat /\ T.ci \in 0..T.n /\ T.oi \in 0..T.n
  BY DEF IsTournament, Resumable
<1>2. CASE T.ci = T.n \/ T.settled
  <2>1. o.ci = T.ci /\ o.oi = T.oi /\ o.dups = T.dups /\ o.elim = {}
    BY <1>2 DEF Outcomes
  <2> DEFINE A == After(T, o)
  <2>2. /\ A.n = T.n /\ A.sig = T.sig /\ A.ci = T.ci /\ A.oi = T.oi /\ A.dups = T.dups
        /\ \A i \in 0..(T.n - 1) : A.out[i] <=> T.out[i]
    BY <2>1 DEF After
  <2>3. \A i \in T.dups : T.ci \in 0..(T.n - 1)
    BY <1>1 DEF Resumable
  <2>4. Resumable(A)
    BY <1>1, <2>2, <2>3 DEF Resumable
  <2> QED
    BY <2>1, <2>4 DEF GoodOutcome
<1>3. CASE ~(T.ci = T.n \/ T.settled) /\ Survives(T, T.ci)
  <2>1. o \in Play(T, T.ci, FirstOpponent(T), k, T.dups, {}, T.ci)
    BY <1>3 DEF Outcomes
  <2>2. /\ FirstOpponent(T) \in Nat /\ FirstOpponent(T) > T.ci /\ FirstOpponent(T) <= T.n
        /\ T.dups \subseteq (T.ci + 1)..(FirstOpponent(T) - 1)
        /\ \A i \in (T.ci + 1)..(FirstOpponent(T) - 1) : i \in T.dups \/ T.out[i]
    BY <1>1, <1>3 DEF FirstOpponent, Resumable
  <2>3. /\ \A i \in 0..(T.ci - 1) : T.out[i]
        /\ \A i \in T.dups : T.sig[i] = T.sig[T.ci] /\ ~T.out[T.ci]
    BY DEF Resumable
  <2>4. T.viable[T.ci] /\ ~T.out[T.ci]
    BY <1>3 DEF Survives
  <2> QED
    BY <1>1, <1>3, <2>1, <2>2, <2>3, <2>4, PlayIsGood
<1>4. CASE ~(T.ci = T.n \/ T.settled) /\ ~Survives(T, T.ci)
  <2> DEFINE v == FirstOpponent(T)
             popped == Popped(T, k)
             fallen == {d \in popped : ~T.out[d]}
             left == k - Cardinality(T.dups) - 1
  <2>1. /\ v \in Nat /\ v > T.ci /\ v <= T.n /\ T.oi <= v
        /\ T.dups \subseteq (T.ci + 1)..(v - 1)
        /\ \A i \in (T.ci + 1)..(v - 1) : i \in T.dups \/ T.out[i]
    BY <1>1, <1>4 DEF FirstOpponent, Resumable
  <2>2. T.ci \in 0..(T.n - 1)
    BY <1>1, <1>4
  <2>3. T.dups \subseteq 0..(T.n - 1)
    BY <1>1, <2>1
  <2>4. ASSUME NEW d \in T.dups PROVE ~T.viable[d] /\ ~T.viable[T.ci] /\ ~T.out[T.ci]
    <3>1. T.sig[d] = T.sig[T.ci] /\ ~T.out[T.ci]
      BY DEF Resumable
    <3>2. ~T.viable[T.ci]
      BY <1>4, <3>1 DEF Survives
    <3> QED
      BY <2>2, <2>3, <3>1, <3>2 DEF IsTournament
  <2>5. fallen \subseteq Eliminable(T) /\ popped \subseteq T.dups
    BY <2>3, <2>4 DEF Popped, Eliminable
  <2>6. o \in Replace(T, k)
    BY <1>4 DEF Outcomes
  <2>7. CASE k <= Cardinality(T.dups)
    <3>1. /\ o.ci = T.ci /\ o.oi = T.oi /\ o.dups = T.dups \ popped /\ o.elim = fallen
      BY <2>6, <2>7 DEF Replace
    <3> DEFINE A == After(T, o)
    <3>2. /\ A.n = T.n /\ A.sig = T.sig /\ A.ci = T.ci /\ A.oi = T.oi
          /\ A.dups = T.dups \ popped
          /\ \A i \in 0..(T.n - 1) : A.out[i] <=> (T.out[i] \/ i \in fallen)
      BY <3>1 DEF After
    <3>3. \A i \in 0..(A.ci - 1) : A.out[i]
      BY <1>1, <3>2 DEF Resumable
    <3>4. \A i \in (A.ci + 1)..(A.oi - 1) : i \in A.dups \/ A.out[i]
      BY <1>1, <3>2, <2>3 DEF Resumable
    <3>5. \A i \in A.dups : A.sig[i] = A.sig[A.ci] /\ ~A.out[A.ci]
      <4>1. T.ci \notin T.dups
        BY <1>1, <2>1
      <4> QED
        BY <4>1, <2>2, <2>5, <3>2 DEF Resumable
    <3>6. A.dups \subseteq (A.ci + 1)..(A.oi - 1)
      BY <3>2 DEF Resumable
    <3>7. Resumable(A)
      BY <1>1, <3>2, <3>3, <3>4, <3>5, <3>6 DEF Resumable
    <3> QED
      BY <2>5, <3>1, <3>7 DEF GoodOutcome
  <2>8. CASE k > Cardinality(T.dups)
    <3>1. left \in Nat /\ popped = T.dups
      BY <2>8, DupsFinite, AllPopped
    <3>2. PICK u \in SearchStops(T, v, left) :
            o \in Play(T, u, u + 1, left - (u - v), {},
                       fallen \cup {i \in {T.ci} \cup v..(u - 1) : ~T.out[i]},
                       Held(T, v, u, left))
      BY <2>6, <2>8, DupsFinite DEF Replace
    <3> DEFINE elim == fallen \cup {i \in {T.ci} \cup v..(u - 1) : ~T.out[i]}
    <3>3. /\ u \in v..T.n /\ u <= v + left
          /\ \A i \in v..(u - 1) : ~Survives(T, i)
          /\ u < T.n /\ u < v + left => Survives(T, u)
      BY <2>1, <3>1, <3>2, SearchIsGood
    <3>4. elim \subseteq Eliminable(T)
      <4>1. \A i \in v..(u - 1) : ~T.out[i] => i \in Eliminable(T)
        BY <1>1, <2>1, <3>3 DEF Eliminable, Survives
      <4>2. ~T.out[T.ci] => T.ci \in Eliminable(T)
        BY <1>4, <2>2 DEF Eliminable, Survives
      <4> QED
        BY <4>1, <4>2, <2>5
    <3>5. \A i \in 0..(u - 1) : T.out[i] \/ i \in elim
      <4> SUFFICES ASSUME NEW i \in 0..(u - 1), ~T.out[i]
                   PROVE  i \in elim
        OBVIOUS
      <4>1. CASE i < T.ci
        BY <1>1, <4>1, <2>1, <3>3 DEF Resumable
      <4>2. CASE i = T.ci
        BY <4>2
      <4>3. CASE i \in (T.ci + 1)..(v - 1)
        BY <4>3, <2>1, <3>1
      <4>4. CASE i \in v..(u - 1)
        BY <4>4
      <4> QED
        BY <1>1, <2>1, <3>3, <4>1, <4>2, <4>3, <4>4
    <3>6. u \notin elim
      BY <1>1, <2>1, <2>5, <3>3
    <3>7. u < T.n /\ left - (u - v) > 0 => ~T.out[u]
      BY <1>1, <2>1, <3>1, <3>3 DEF Survives
    <3>8. /\ left - (u - v) \in Nat /\ u \in 0..T.n /\ u + 1 \in Nat /\ T.oi <= u
          /\ u < T.n => u + 1 <= T.n
          /\ u + 1 > u
      BY <1>1, <2>1, <3>1, <3>3
    <3>9. (u + 1)..((u + 1) - 1) = {}
      BY <3>8
    <3> HIDE DEF elim, left, v
    <3> QED
      BY <1>1, <3>2, <3>4, <3>5, <3>6, <3>7, <3>8, <3>9, PlayIsGood DEF elim
  <2> QED
    BY <2>7, <2>8, DupsFinite
<1> QED
  BY <1>2, <1>3, <1>4

\* With the allowance that KailuaGame.resolve passes, a call that names a child of
\* an undecided tournament names the contender it stores, and that child survives.
THEOREM ResolveNamesContender ==
  ASSUME NEW T, IsTournament(T), Resumable(T), NEW k \in Nat, k >= 2 * T.n,
         ~T.settled, NEW o \in Outcomes(T, k), o.ret # NoChild
  PROVE  o.ret = o.ci /\ o.ret \in 0..(T.n - 1) /\ Survives(T, o.ret)
<1>1. T.n \in Nat /\ T.ci \in 0..T.n /\ T.oi \in 0..T.n
  BY DEF IsTournament, Resumable
<1>2. T.ci # T.n
  BY DEF Outcomes
<1>3. CASE Survives(T, T.ci)
  <2>1. o \in Play(T, T.ci, FirstOpponent(T), k, T.dups, {}, T.ci)
    BY <1>2, <1>3 DEF Outcomes
  <2>2. o.ret = T.ci /\ o.ci = T.ci
    BY <1>1, <1>2, <1>3, <2>1 DEF Play, Survives
  <2> QED
    BY <1>1, <1>2, <1>3, <2>2
<1>4. CASE ~Survives(T, T.ci)
  <2> DEFINE v == FirstOpponent(T)
             left == k - Cardinality(T.dups) - 1
  <2>1. Cardinality(T.dups) \in Nat /\ Cardinality(T.dups) < T.n
    BY <1>1, <1>2, DupsFinite
  <2>2. left \in Nat /\ left >= T.n /\ v \in Nat /\ v > 0
    BY <1>1, <2>1 DEF FirstOpponent
  <2>3. PICK u \in SearchStops(T, v, left) :
          o \in Play(T, u, u + 1, left - (u - v), {},
                     {d \in Popped(T, k) : ~T.out[d]}
                       \cup {i \in {T.ci} \cup v..(u - 1) : ~T.out[i]},
                     Held(T, v, u, left))
    <3>1. o \in Replace(T, k)
      BY <1>2, <1>4 DEF Outcomes
    <3>2. ~(k <= Cardinality(T.dups))
      BY <1>1, <2>1
    <3> QED
      BY <3>1, <3>2 DEF Replace
  <2>4. /\ u \in v..T.n /\ u <= v + left
        /\ u < T.n /\ u < v + left => Survives(T, u)
    BY <2>2, <2>3, SearchIsGood
  <2>5. u < T.n /\ o.ci = u /\ o.ret = Held(T, v, u, left)
    BY <2>3 DEF Play
  <2>6. u < v + left
    BY <1>1, <2>2, <2>4, <2>5
  <2> QED
    BY <1>1, <2>2, <2>4, <2>5, <2>6 DEF Held
<1> QED
  BY <1>3, <1>4

\* A scan that names a child has stopped at the end or at the first late opponent.
LEMMA PlayStops ==
  ASSUME NEW T, IsTournament(T), NEW u \in 0..T.n, NEW v \in Nat, NEW k \in Nat,
         NEW dups, NEW elim, NEW held,
         NEW o \in Play(T, u, v, k, dups, elim, held), o.ret # NoChild
  PROVE  o.ci = u /\ (o.oi = T.n \/ Late(T, u, o.oi))
<1>1. u < T.n /\ T.viable[u]
  BY DEF Play
<1>2. PICK w \in ScanStops(T, u, v, k) :
        o.ci = u /\ o.oi = w /\ o.ret = IF w = T.n \/ w < v + k THEN held ELSE NoChild
  BY <1>1 DEF Play
<1>3. w = T.n \/ w < v + k
  BY <1>2
<1>4. w = T.n \/ w = v + k \/ Late(T, u, w)
  BY DEF ScanStops
<1>5. w \in Int /\ v + k \in Int
  BY DEF ScanStops, IsTournament
<1> QED
  BY <1>2, <1>3, <1>4, <1>5

\* With the allowance that KailuaGame.resolve passes, the child that a call names is
\* the sole survivor: every other one is eliminated, or has its signature, or came
\* after its challenge period (children are stored in the order of their creation).
THEOREM ResolveLeavesSoleSurvivor ==
  ASSUME NEW T, IsTournament(T), Resumable(T), NEW k \in Nat, k >= 2 * T.n,
         ~T.settled, NEW o \in Outcomes(T, k), o.ret # NoChild,
         \A i, j \in 0..(T.n - 1) : i < j => T.created[i] <= T.created[j]
  PROVE  /\ o.ret \notin o.elim
         /\ \A i \in 0..(T.n - 1) :
              \/ T.out[i] \/ i \in o.elim
              \/ T.sig[i] = T.sig[o.ret]
              \/ i > o.ret /\ Late(T, o.ret, i)
<1>1. T.n \in Nat /\ T.ci \in 0..T.n /\ T.oi \in 0..T.n
  BY DEF IsTournament, Resumable
<1>2. o.ret = o.ci /\ o.ret \in 0..(T.n - 1) /\ Survives(T, o.ret)
  BY ResolveNamesContender
<1>3. GoodOutcome(T, o)
  BY PruneIsGood
<1>4. o.ret \notin o.elim
  BY <1>2, <1>3 DEF GoodOutcome, Eliminable, Survives
<1>5. o.oi = T.n \/ Late(T, o.ret, o.oi)
  <2>1. T.ci # T.n
    BY DEF Outcomes
  <2>2. CASE Survives(T, T.ci)
    <3>1. o \in Play(T, T.ci, FirstOpponent(T), k, T.dups, {}, T.ci)
      BY <2>1, <2>2 DEF Outcomes
    <3>2. FirstOpponent(T) \in Nat
      BY <1>1 DEF FirstOpponent
    <3>3. o.ci = T.ci /\ (o.oi = T.n \/ Late(T, T.ci, o.oi))
      BY <1>1, <3>1, <3>2, PlayStops
    <3> QED
      BY <1>2, <3>3
  <2>3. CASE ~Survives(T, T.ci)
    <3> DEFINE v == FirstOpponent(T)
               left == k - Cardinality(T.dups) - 1
    <3>1. Cardinality(T.dups) \in Nat /\ Cardinality(T.dups) < T.n
      BY <1>1, <2>1, DupsFinite
    <3>2. left \in Nat /\ v \in Nat
      BY <1>1, <3>1 DEF FirstOpponent
    <3>3. o \in Replace(T, k) /\ ~(k <= Cardinality(T.dups))
      BY <1>1, <2>1, <2>3, <3>1 DEF Outcomes
    <3>4. PICK u \in SearchStops(T, v, left) :
            o \in Play(T, u, u + 1, left - (u - v), {},
                       {d \in Popped(T, k) : ~T.out[d]}
                         \cup {i \in {T.ci} \cup v..(u - 1) : ~T.out[i]},
                       Held(T, v, u, left))
      BY <3>3 DEF Replace
    <3>5. u \in v..T.n /\ u <= v + left
      BY <3>2, <3>4, SearchIsGood
    <3>6. u \in 0..T.n /\ u + 1 \in Nat /\ left - (u - v) \in Nat
      BY <1>1, <3>2, <3>5
    <3>7. o.ci = u /\ (o.oi = T.n \/ Late(T, u, o.oi))
      BY <3>4, <3>6, PlayStops
    <3> QED
      BY <1>2, <3>7
  <2> QED
    BY <2>2, <2>3
<1>6. ASSUME NEW i \in 0..(T.n - 1)
      PROVE  \/ T.out[i] \/ i \in o.elim
             \/ T.sig[i] = T.sig[o.ret]
             \/ i > o.ret /\ Late(T, o.ret, i)
  <2> DEFINE A == After(T, o)
  <2>1. /\ Resumable(A) /\ A.n = T.n /\ A.sig = T.sig
        /\ A.ci = o.ci /\ A.oi = o.oi /\ A.dups = o.dups
        /\ A.out[i] <=> (T.out[i] \/ i \in o.elim)
    BY <1>3 DEF GoodOutcome, After
  <2>2. /\ o.oi \in 0..T.n
        /\ \A j \in 0..(o.ci - 1) : A.out[j]
        /\ \A j \in (o.ci + 1)..(o.oi - 1) : j \in o.dups \/ A.out[j]
        /\ \A j \in o.dups : T.sig[j] = T.sig[o.ci]
    BY <2>1 DEF Resumable
  <2> HIDE DEF A
  <2>3. CASE i < o.ci
    BY <1>2, <2>1, <2>2, <2>3
  <2>4. CASE i = o.ci
    BY <1>2, <2>4
  <2>5. CASE i \in (o.ci + 1)..(o.oi - 1)
    BY <1>2, <2>1, <2>2, <2>5
  <2>6. CASE i > o.ci /\ i >= o.oi
    <3>1. o.oi \in 0..(T.n - 1) /\ Late(T, o.ret, o.oi)
      BY <1>1, <1>5, <2>2, <2>6
    <3>2. T.created[o.oi] <= T.created[i]
      <4>1. CASE o.oi = i
        BY <3>1, <4>1 DEF IsTournament
      <4>2. CASE o.oi < i
        BY <3>1, <4>2
      <4> QED
        BY <2>6, <3>1, <4>1, <4>2
    <3>3. T.created[o.oi] \in Int /\ T.created[i] \in Int /\ T.created[o.ret] \in Int
      BY <1>2, <3>1 DEF IsTournament
    <3>4. T.created[i] - T.created[o.ret] >= MaxClock
      <4>1. T.created[o.oi] - T.created[o.ret] >= MaxClock
        BY <3>1 DEF Late
      <4> QED
        BY <3>2, <3>3, <4>1, ClockAssumption
    <3> QED
      BY <1>2, <2>6, <3>4 DEF Late
  <2> QED
    BY <1>1, <1>2, <2>2, <2>3, <2>4, <2>5, <2>6
<1> QED
  BY <1>4, <1>6

\* Stored progress survives what can happen between two calls: children are appended,
\* and children are eliminated elsewhere, but not a contender with duplicates.
LEMMA ResumableKept ==
  ASSUME NEW T, NEW S, T.n \in Nat, S.n \in Nat, S.n >= T.n,
         S.ci = T.ci, S.oi = T.oi, S.dups = T.dups, Resumable(T),
         \A i \in 0..(T.n - 1) : S.sig[i] = T.sig[i] /\ (T.out[i] => S.out[i]),
         T.dups # {} => ~S.out[T.ci]
  PROVE  Resumable(S)
<1>1. T.ci \in 0..T.n /\ T.oi \in 0..T.n /\ T.dups \subseteq (T.ci + 1)..(T.oi - 1)
  BY DEF Resumable
<1>2. \A i \in 0..(T.ci - 1) : S.out[i]
  BY <1>1 DEF Resumable
<1>3. \A i \in (T.ci + 1)..(T.oi - 1) : i \in T.dups \/ S.out[i]
  BY <1>1 DEF Resumable
<1>4. \A i \in T.dups : S.sig[i] = S.sig[T.ci] /\ ~S.out[T.ci]
  <2> SUFFICES ASSUME NEW i \in T.dups PROVE S.sig[i] = S.sig[T.ci]
    OBVIOUS
  <2>1. i \in 0..(T.n - 1) /\ T.ci \in 0..(T.n - 1)
    BY <1>1
  <2> QED
    BY <2>1 DEF Resumable
<1> QED
  BY <1>1, <1>2, <1>3, <1>4 DEF Resumable

-----------------------------------------------------------------------------
(***************************************************************************)
(* The same function one step at a time, as the source's loops take them   *)
(* (PruneLoopProofs), and what a call without a survivor means.            *)
(***************************************************************************)

\* The scan stops: at the end, without steps, or at a late opponent.
LEMMA PlayEnds ==
  ASSUME NEW T, IsTournament(T), NEW u \in 0..(T.n - 1), T.viable[u],
         NEW v \in Nat, v <= T.n, NEW k \in Nat, NEW dups, NEW elim, NEW held,
         v = T.n \/ k = 0 \/ Late(T, u, v)
  PROVE  Play(T, u, v, k, dups, elim, held) =
           {[ci |-> u, oi |-> v, dups |-> dups, elim |-> elim,
             ret |-> IF v = T.n \/ k > 0 THEN held ELSE NoChild]}
<1>1. T.n \in Nat /\ u < T.n
  BY DEF IsTournament
<1>2. v..(v - 1) = {}
  OBVIOUS
<1>3. {x \in ScanStops(T, u, v, k) : \A i \in v..(x - 1) : ~Rival(T, u, i)} = {v}
  <2>1. ASSUME NEW w \in ScanStops(T, u, v, k) PROVE w = v
    <3>1. w \in v..T.n /\ w <= v + k /\ (\A i \in v..(w - 1) : ~Late(T, u, i))
      BY <2>1 DEF ScanStops
    <3>2. w > v => v \in v..(w - 1)
      BY <1>1, <3>1
    <3> QED
      BY <1>1, <3>1, <3>2
  <2>2. v \in ScanStops(T, u, v, k)
    BY <1>1, <1>2 DEF ScanStops
  <2> QED
    BY <1>2, <2>1, <2>2
<1>4. ScanEliminates(T, u, v, v) = {}
  BY <1>2 DEF ScanEliminates
<1>5. v < v + k <=> k > 0
  OBVIOUS
<1>6. {i \in v..(v - 1) : Duplicate(T, u, i)} = {}
  BY <1>2
<1> QED
  BY <1>1, <1>3, <1>4, <1>5, <1>6, ZenonT(30) DEF Play

\* A viable opponent in play with another signature aborts the call.
LEMMA PlayAborts ==
  ASSUME NEW T, IsTournament(T), NEW u \in 0..(T.n - 1), T.viable[u],
         NEW v \in Nat, v < T.n, NEW k \in Nat, k > 0, NEW dups, NEW elim, NEW held,
         ~Late(T, u, v), Rival(T, u, v)
  PROVE  Play(T, u, v, k, dups, elim, held) = {}
<1>1. T.n \in Nat /\ u < T.n
  BY DEF IsTournament
<1>2. ASSUME NEW w \in ScanStops(T, u, v, k) PROVE v \in v..(w - 1)
  BY <1>1 DEF ScanStops
<1>3. {x \in ScanStops(T, u, v, k) : \A i \in v..(x - 1) : ~Rival(T, u, i)} = {}
  BY <1>2
<1> QED
  BY <1>1, <1>3 DEF Play

\* Any other opponent is recorded as a duplicate, eliminated, or skipped.
LEMMA PlayAdvances ==
  ASSUME NEW T, IsTournament(T), NEW u \in 0..(T.n - 1), T.viable[u],
         NEW v \in Nat, v < T.n, NEW k \in Nat, k > 0, NEW dups, NEW elim, NEW held,
         ~Late(T, u, v), ~Rival(T, u, v)
  PROVE  Play(T, u, v, k, dups, elim, held) =
           Play(T, u, v + 1, k - 1,
                dups \cup {i \in {v} : Duplicate(T, u, i)},
                elim \cup {i \in {v} : ~T.out[i] /\ T.sig[i] # T.sig[u]}, held)
<1>1. T.n \in Nat /\ u < T.n /\ (v + 1) + (k - 1) = v + k
  BY DEF IsTournament
<1>2. ASSUME NEW w \in (v + 1)..T.n PROVE v..(w - 1) = {v} \cup (v + 1)..(w - 1)
  BY <1>1
<1>3. ScanStops(T, u, v, k) = ScanStops(T, u, v + 1, k - 1)
  <2>1. ASSUME NEW w \in ScanStops(T, u, v, k) PROVE w \in ScanStops(T, u, v + 1, k - 1)
    <3>1. w \in (v + 1)..T.n
      BY <1>1 DEF ScanStops
    <3> QED
      BY <1>1, <1>2, <3>1 DEF ScanStops
  <2>2. ASSUME NEW w \in ScanStops(T, u, v + 1, k - 1) PROVE w \in ScanStops(T, u, v, k)
    <3>1. w \in (v + 1)..T.n /\ w \in v..T.n
      BY <1>1 DEF ScanStops
    <3> QED
      BY <1>1, <1>2, <3>1 DEF ScanStops
  <2> QED
    BY <2>1, <2>2
<1> DEFINE W == {x \in ScanStops(T, u, v, k) : \A i \in v..(x - 1) : ~Rival(T, u, i)}
           d == dups \cup {i \in {v} : Duplicate(T, u, i)}
           e == elim \cup {i \in {v} : ~T.out[i] /\ T.sig[i] # T.sig[u]}
           Old(w) == [ci   |-> u,
                      oi   |-> w,
                      dups |-> dups \cup {i \in v..(w - 1) : Duplicate(T, u, i)},
                      elim |-> elim \cup ScanEliminates(T, u, v, w),
                      ret  |-> IF w = T.n \/ w < v + k THEN held ELSE NoChild]
           New(w) == [ci   |-> u,
                      oi   |-> w,
                      dups |-> d \cup {i \in (v + 1)..(w - 1) : Duplicate(T, u, i)},
                      elim |-> e \cup ScanEliminates(T, u, v + 1, w),
                      ret  |-> IF w = T.n \/ w < (v + 1) + (k - 1) THEN held ELSE NoChild]
<1>4. \A w \in ScanStops(T, u, v, k) : w \in (v + 1)..T.n
  BY <1>1, <1>3 DEF ScanStops
<1>5. W = {x \in ScanStops(T, u, v + 1, k - 1) : \A i \in (v + 1)..(x - 1) : ~Rival(T, u, i)}
  BY <1>2, <1>3, <1>4
<1>6. ASSUME NEW w \in W PROVE Old(w) = New(w)
  <2>0. v..(w - 1) = {v} \cup (v + 1)..(w - 1)
    BY <1>2, <1>4
  <2>1. dups \cup {i \in v..(w - 1) : Duplicate(T, u, i)}
          = d \cup {i \in (v + 1)..(w - 1) : Duplicate(T, u, i)}
    BY <2>0
  <2>2. elim \cup ScanEliminates(T, u, v, w) = e \cup ScanEliminates(T, u, v + 1, w)
    BY <2>0 DEF ScanEliminates
  <2> QED
    BY <1>1, <2>1, <2>2
<1>7. Play(T, u, v, k, dups, elim, held) = {Old(w) : w \in W}
  BY <1>1 DEF Play
<1>8. Play(T, u, v + 1, k - 1, d, e, held) = {New(w) : w \in W}
  <2> HIDE DEF d, e
  <2>1. Play(T, u, v + 1, k - 1, d, e, held) =
          {New(w) : w \in {x \in ScanStops(T, u, v + 1, k - 1) :
                             \A i \in (v + 1)..(x - 1) : ~Rival(T, u, i)}}
    BY <1>1 DEF Play
  <2> HIDE DEF W, New
  <2> QED
    BY <1>5, <2>1
<1>9. {Old(w) : w \in W} = {New(w) : w \in W}
  <2> HIDE DEF W, Old, New
  <2> QED
    BY <1>6
<1> QED
  BY <1>7, <1>8, <1>9

\* The search stops in one place.
LEMMA SearchEndsOnce ==
  ASSUME NEW T, IsTournament(T), NEW v \in Nat, NEW k \in Nat, NEW u \in v..T.n,
         u <= v + k, \A i \in v..(u - 1) : ~Survives(T, i),
         u = T.n \/ u = v + k \/ Survives(T, u)
  PROVE  SearchStops(T, v, k) = {u}
<1>1. T.n \in Nat
  BY DEF IsTournament
<1>2. ASSUME NEW w \in SearchStops(T, v, k) PROVE w = u
  <2>1. /\ w \in v..T.n /\ w <= v + k /\ (\A i \in v..(w - 1) : ~Survives(T, i))
        /\ w = T.n \/ w = v + k \/ Survives(T, w)
    BY <1>2 DEF SearchStops
  <2>2. ~(w < u)
    BY <1>1, <2>1
  <2>3. ~(u < w)
    BY <1>1, <2>1
  <2> QED
    BY <1>1, <2>1, <2>2, <2>3
<1>3. u \in SearchStops(T, v, k)
  BY <1>1 DEF SearchStops
<1> QED
  BY <1>2, <1>3

\* Popping from the end of the array takes the largest positions first.
LEMMA PoppedLargest ==
  ASSUME NEW T, IsTournament(T), Resumable(T), NEW R \in SUBSET T.dups,
         \A d \in R, e \in T.dups \ R : d < e
  PROVE  Popped(T, Cardinality(T.dups \ R)) = T.dups \ R
<1> DEFINE P == T.dups \ R
           Above(d) == {e \in T.dups : e > d}
<1>0. IsFiniteSet(T.dups) /\ T.dups \subseteq Int
  BY DupsFinite DEF Resumable
<1>1. IsFiniteSet(P) /\ Cardinality(P) \in Nat
  BY <1>0, FS_Subset, FS_CardinalityType
<1>2. ASSUME NEW d \in P PROVE Cardinality(Above(d)) < Cardinality(P)
  <2>1. Above(d) \subseteq P \ {d}
    BY <1>0
  <2>2. IsFiniteSet(P \ {d}) /\ Cardinality(P \ {d}) = Cardinality(P) - 1
    BY <1>1, FS_RemoveElement
  <2>3. Cardinality(Above(d)) <= Cardinality(P \ {d}) /\ Cardinality(Above(d)) \in Nat
    BY <2>1, <2>2, FS_Subset, FS_CardinalityType
  <2> QED
    BY <1>1, <2>2, <2>3
<1>3. ASSUME NEW d \in R PROVE ~(Cardinality(Above(d)) < Cardinality(P))
  <2>1. P \subseteq Above(d)
    BY <1>0
  <2>2. IsFiniteSet(Above(d)) /\ Cardinality(Above(d)) \in Nat
    BY <1>0, FS_Subset, FS_CardinalityType
  <2>3. Cardinality(P) <= Cardinality(Above(d))
    BY <2>1, <2>2, FS_Subset
  <2> QED
    BY <1>1, <2>2, <2>3
<1> QED
  BY <1>2, <1>3 DEF Popped

\* With the allowance that KailuaGame.resolve passes, a call that names no child has
\* eliminated all of them: the tournament is settled either way.
THEOREM ResolveEmptiesOrNames ==
  ASSUME NEW T, IsTournament(T), Resumable(T), NEW k \in Nat, k >= 2 * T.n,
         ~T.settled, NEW o \in Outcomes(T, k), o.ret = NoChild
  PROVE  \A i \in 0..(T.n - 1) : T.out[i] \/ i \in o.elim
<1>1. T.n \in Nat /\ T.ci \in 0..T.n /\ T.oi \in 0..T.n
  BY DEF IsTournament, Resumable
<1>2. CASE T.ci = T.n
  BY <1>1, <1>2 DEF Resumable
<1>3. ASSUME NEW u \in 0..(T.n - 1), T.viable[u], NEW v \in Nat, NEW j \in Nat, v + j > T.n,
             NEW dups, NEW elim, NEW held \in Nat, o \in Play(T, u, v, j, dups, elim, held)
      PROVE  FALSE
  <2>1. PICK w \in ScanStops(T, u, v, j) :
          o.ret = IF w = T.n \/ w < v + j THEN held ELSE NoChild
    BY <1>1, <1>3 DEF Play
  <2>2. w \in v..T.n
    BY <2>1 DEF ScanStops
  <2> QED
    BY <1>1, <1>3, <2>1, <2>2 DEF NoChild
<1>4. CASE T.ci # T.n /\ Survives(T, T.ci)
  <2>1. o \in Play(T, T.ci, FirstOpponent(T), k, T.dups, {}, T.ci)
    BY <1>4 DEF Outcomes
  <2>2. /\ FirstOpponent(T) \in Nat /\ FirstOpponent(T) + k > T.n
        /\ T.ci \in 0..(T.n - 1) /\ T.viable[T.ci] /\ T.ci \in Nat
    BY <1>1, <1>4 DEF FirstOpponent, Survives
  <2> QED
    BY <1>3, <2>1, <2>2
<1>5. CASE T.ci # T.n /\ ~Survives(T, T.ci)
  <2> DEFINE v == FirstOpponent(T)
             left == k - Cardinality(T.dups) - 1
  <2>1. Cardinality(T.dups) \in Nat /\ Cardinality(T.dups) < T.n
    BY <1>1, <1>5, DupsFinite
  <2>2. left \in Nat /\ left >= T.n /\ v \in Nat /\ v > 0
    BY <1>1, <2>1 DEF FirstOpponent
  <2>3. o \in Replace(T, k) /\ ~(k <= Cardinality(T.dups))
    BY <1>1, <1>5, <2>1 DEF Outcomes
  <2>4. PICK u \in SearchStops(T, v, left) :
          o \in Play(T, u, u + 1, left - (u - v), {},
                     {d \in Popped(T, k) : ~T.out[d]}
                       \cup {i \in {T.ci} \cup v..(u - 1) : ~T.out[i]},
                     Held(T, v, u, left))
    BY <2>3 DEF Replace
  <2>5. /\ u \in v..T.n /\ u <= v + left
        /\ u < T.n /\ u < v + left => Survives(T, u)
    BY <2>2, <2>4, SearchIsGood
  <2>6. u = T.n
    <3> SUFFICES ASSUME u # T.n PROVE FALSE
      OBVIOUS
    <3>1. /\ u \in 0..(T.n - 1) /\ u < v + left /\ u + 1 \in Nat /\ left - (u - v) \in Nat
          /\ (u + 1) + (left - (u - v)) > T.n
      BY <1>1, <2>2, <2>5
    <3>2. T.viable[u] /\ Held(T, v, u, left) \in Nat
      BY <1>1, <2>5, <3>1 DEF Survives, Held
    <3> HIDE DEF left, v
    <3> QED
      BY <1>3, <2>4, <3>1, <3>2
  <2>7. o.ci = T.n
    <3> HIDE DEF left, v
    <3> QED
      BY <1>1, <2>4, <2>6 DEF Play
  <2>8. GoodOutcome(T, o)
    BY PruneIsGood
  <2>9. \A i \in 0..(T.n - 1) : After(T, o).out[i]
    BY <1>1, <2>7, <2>8 DEF GoodOutcome, Resumable, After
  <2> QED
    BY <2>9 DEF After
<1> QED
  BY <1>2, <1>4, <1>5

-----------------------------------------------------------------------------
(***************************************************************************)
(* Whom a call spares.                                                     *)
(***************************************************************************)

\* The scan of u's opponents does not reach a rival that came after the challenge
\* period of w, where w survives and nobody before it with its signature is in play.
LEMMA PlaySpares ==
  ASSUME NEW T, IsTournament(T), NEW u \in 0..T.n, NEW v \in Nat, v > u, NEW k \in Nat,
         NEW dups, NEW elim, NEW held, NEW o \in Play(T, u, v, k, dups, elim, held),
         NEW w \in 0..(T.n - 1), Survives(T, w), u <= w,
         u < w => v <= w,
         u < w /\ k > 0 /\ T.sig[u] = T.sig[w] => T.out[u],
         u < T.n /\ T.viable[u] /\ k > 0 => ~T.out[u]
  PROVE  \A i \in o.elim \ elim : i < w \/ ~Late(T, w, i)
<1>0. T.n \in Nat
  BY DEF IsTournament
<1>1. CASE u < T.n /\ T.viable[u]
  <2>1. PICK x \in ScanStops(T, u, v, k) :
          /\ \A i \in v..(x - 1) : ~Rival(T, u, i)
          /\ o.elim = elim \cup ScanEliminates(T, u, v, x)
    BY <1>1 DEF Play
  <2>2. x \in v..T.n /\ x <= v + k /\ (\A i \in v..(x - 1) : ~Late(T, u, i))
    BY <2>1 DEF ScanStops
  <2>3. ASSUME NEW i \in o.elim \ elim PROVE i < w \/ ~Late(T, w, i)
    <3>1. i \in v..(x - 1) /\ ~Late(T, u, i)
      BY <2>1, <2>2 DEF ScanEliminates
    <3>2. CASE u = w
      BY <3>1, <3>2
    <3>3. CASE u < w
      <4> SUFFICES ASSUME i >= w PROVE FALSE
        BY <3>1, <1>0
      <4>1. w \in v..(x - 1) /\ k > 0
        BY <1>0, <2>2, <3>1, <3>3
      <4>2. T.sig[w] = T.sig[u]
        BY <2>1, <4>1 DEF Rival
      <4> QED
        BY <1>1, <3>3, <4>1, <4>2
    <3> QED
      BY <1>0, <3>2, <3>3
  <2> QED
    BY <2>3
<1>2. CASE ~(u < T.n /\ T.viable[u])
  BY <1>2 DEF Play
<1> QED
  BY <1>1, <1>2

\* A call eliminates nobody who came after the challenge period of a surviving child,
\* if that is the first in play with its signature: partial prunings and duplicates do
\* not make the scan go further than it would for that child.
THEOREM PruneSparesLate ==
  ASSUME NEW T, IsTournament(T), Resumable(T), NEW k \in Nat, NEW o \in Outcomes(T, k),
         NEW w \in 0..(T.n - 1), Survives(T, w),
         \A i \in 0..(w - 1) : T.sig[i] = T.sig[w] => T.out[i]
  PROVE  \A i \in o.elim : i < w \/ ~Late(T, w, i)
<1>1. /\ T.n \in Nat /\ T.ci \in 0..T.n /\ T.oi \in 0..T.n /\ ~T.out[w] /\ T.viable[w]
      /\ w \in Nat /\ w < T.n
  BY DEF IsTournament, Resumable, Survives
<1>2. CASE T.ci = T.n \/ T.settled
  BY <1>2 DEF Outcomes
<1>3. T.ci <= w
  BY <1>1 DEF Resumable
<1>4. T.ci < w => FirstOpponent(T) <= w
  <2> SUFFICES ASSUME T.ci < w, w < FirstOpponent(T) PROVE FALSE
    BY <1>1 DEF FirstOpponent
  <2>1. w \in (T.ci + 1)..(T.oi - 1)
    BY <1>1 DEF FirstOpponent
  <2>2. T.sig[w] = T.sig[T.ci] /\ ~T.out[T.ci]
    BY <1>1, <2>1 DEF Resumable
  <2> QED
    BY <1>1, <2>2
<1>5. CASE ~(T.ci = T.n \/ T.settled) /\ Survives(T, T.ci)
  <2>1. o \in Play(T, T.ci, FirstOpponent(T), k, T.dups, {}, T.ci)
    BY <1>5 DEF Outcomes
  <2>2. FirstOpponent(T) \in Nat /\ FirstOpponent(T) > T.ci
    BY <1>1 DEF FirstOpponent
  <2>3. T.ci < w /\ T.sig[T.ci] = T.sig[w] => T.out[T.ci]
    BY <1>1
  <2>4. \A i \in o.elim \ {} : i < w \/ ~Late(T, w, i)
    BY <1>1, <1>3, <1>4, <1>5, <2>1, <2>2, <2>3, PlaySpares DEF Survives
  <2> QED
    BY <2>4
<1>6. CASE ~(T.ci = T.n \/ T.settled) /\ ~Survives(T, T.ci)
  <2> DEFINE v == FirstOpponent(T)
             left == k - Cardinality(T.dups) - 1
             fallen == {d \in Popped(T, k) : ~T.out[d]}
  <2>1. T.ci < w /\ v <= w /\ v \in Nat /\ v > T.ci /\ (\A d \in T.dups : d < v)
    BY <1>1, <1>3, <1>4, <1>6 DEF Resumable, FirstOpponent
  <2>2. o \in Replace(T, k) /\ Cardinality(T.dups) \in Nat
    BY <1>6, DupsFinite DEF Outcomes
  <2>3. \A d \in fallen : d < w
    <3>1. T.dups \subseteq Int
      BY <1>1 DEF Resumable
    <3> QED
      BY <1>1, <2>1, <3>1 DEF Popped
  <2>4. CASE k <= Cardinality(T.dups)
    BY <2>2, <2>3, <2>4 DEF Replace
  <2>5. CASE ~(k <= Cardinality(T.dups))
    <3>0. left \in Nat
      BY <2>2, <2>5
    <3>1. PICK u \in SearchStops(T, v, left) :
            o \in Play(T, u, u + 1, left - (u - v), {},
                       fallen \cup {i \in {T.ci} \cup v..(u - 1) : ~T.out[i]},
                       Held(T, v, u, left))
      BY <2>2, <2>5 DEF Replace
    <3>2. /\ u \in v..T.n /\ u <= v + left
          /\ \A i \in v..(u - 1) : ~Survives(T, i)
          /\ u < T.n /\ u < v + left => Survives(T, u)
      BY <2>1, <3>0, <3>1, SearchIsGood
    <3>3. u <= w
      BY <1>1, <2>1, <3>2
    <3> DEFINE E == fallen \cup {i \in {T.ci} \cup v..(u - 1) : ~T.out[i]}
    <3>4. \A i \in E : i < w
      BY <1>1, <2>1, <2>3, <3>2, <3>3
    <3>5. /\ u \in 0..T.n /\ u + 1 \in Nat /\ u + 1 > u /\ left - (u - v) \in Nat
          /\ u < w => u + 1 <= w
          /\ u < w /\ T.sig[u] = T.sig[w] => T.out[u]
          /\ u < T.n /\ left - (u - v) > 0 => ~T.out[u]
      BY <1>1, <2>1, <3>0, <3>2 DEF Survives
    <3> HIDE DEF E, left, v
    <3>6. \A i \in o.elim \ E : i < w \/ ~Late(T, w, i)
      BY <1>1, <3>1, <3>3, <3>5, PlaySpares DEF E
    <3> QED
      BY <3>4, <3>6
  <2> QED
    BY <2>4, <2>5
<1> QED
  BY <1>2, <1>5, <1>6
=============================================================================
