-------------------------- MODULE PruneLoopProofs --------------------------
(***************************************************************************)
(* The loops of pruneChildren compute the function of PruneChildren, for   *)
(* tournaments of any size and any step limit.                             *)
(***************************************************************************)
EXTENDS PruneLoop, PruneProofs

\* The tournament that the call started from.
Given == IsTournament(T) /\ WellFormed(T) /\ T.settled \in BOOLEAN /\ limit \in Nat

LocalsOK ==
  /\ u \in Nat /\ v \in Nat /\ k \in Nat
  /\ out \in [0..(T.n - 1) -> BOOLEAN]
  /\ dups \in Seq(Int)

\* The call has eliminated the children in E and no others.
Gone(E) == \A i \in 0..(T.n - 1) : out[i] <=> T.out[i] \/ i \in E

\* The contender must go, and the call has not stored another one yet.
Replacing ==
  /\ T.ci < T.n /\ ~T.settled /\ ~Survives(T, T.ci)
  /\ ci = T.ci /\ oi = T.oi /\ v = FirstOpponent(T)

\* The steps that are left for the search.
Left == limit - Cardinality(T.dups) - 1

\* The loop invariants, one for each place in the code.
AtEnter == pc = "enter" =>
  /\ k = limit /\ ci = T.ci /\ oi = T.oi
  /\ out = T.out /\ ToSet(dups) = T.dups

Ascending(s) == \A i, j \in 1..Len(s) : i < j => s[i] < s[j]

AtDuplicates == pc = "duplicates" =>
  /\ Replacing /\ contender = T.ci
  /\ ToSet(dups) \subseteq T.dups
  /\ \A d \in ToSet(dups), e \in T.dups \ ToSet(dups) : d < e
  /\ k = limit - Cardinality(T.dups \ ToSet(dups))
  /\ Gone(T.dups \ ToSet(dups))

AtContender == pc = "contender" =>
  /\ Replacing /\ contender = T.ci
  /\ dups = <<>>
  /\ k = limit - Cardinality(T.dups) /\ k > 0
  /\ Gone(T.dups)

AtSearch == pc \in {"search", "selected"} =>
  /\ Replacing
  /\ dups = <<>>
  /\ Left \in Nat /\ u \in v..T.n /\ k = Left - (u - v)
  /\ \A i \in v..(u - 1) : ~Survives(T, i)
  /\ Gone(T.dups \cup {T.ci} \cup v..(u - 1))
  /\ pc = "search" => contender = IF u > v THEN u - 1 ELSE T.ci
  /\ pc = "selected" =>
       /\ contender = Held(T, v, u, Left)
       /\ u = T.n \/ k = 0 \/ (Survives(T, u) /\ contenderSignature = T.sig[u])

\* What the rest of the loop has to compute is what is left of the outcome.
AtOpponents == pc \in {"opponents?", "opponents"} =>
  /\ ci = u /\ oi = T.oi
  /\ u \in 0..T.n /\ v > u /\ (u < T.n => v <= T.n)
  /\ pc = "opponents" => u < T.n /\ T.viable[u]
  /\ u < T.n /\ T.viable[u] /\ k > 0 => contender = u /\ contenderSignature = T.sig[u]
  /\ \A i \in v..(T.n - 1) : out[i] = T.out[i]
  /\ Outcomes(T, limit) = Play(T, u, v, k, ToSet(dups), Outcome.elim, contender)

LoopInv ==
  /\ Given /\ LocalsOK
  /\ pc \in {"enter", "duplicates"} => Ascending(dups)
  /\ AtEnter /\ AtDuplicates /\ AtContender /\ AtSearch /\ AtOpponents
  /\ LoopComputesOutcome

-----------------------------------------------------------------------------
\* Popping the last entry of an increasing array removes its largest element.
LEMMA PopLast ==
  ASSUME NEW s \in Seq(Int), Ascending(s), s # <<>>
  PROVE  /\ Last(s) \in ToSet(s) /\ (\A d \in ToSet(s) : d <= Last(s)) /\ ToSet(s) \subseteq Int
         /\ Front(s) \in Seq(Int) /\ Ascending(Front(s))
         /\ ToSet(Front(s)) = ToSet(s) \ {Last(s)}
<1> DEFINE n == Len(s)
           f == Front(s)
<1>1. n \in Nat \ {0} /\ DOMAIN s = 1..n /\ (\A i \in 1..n : s[i] \in Int)
  OBVIOUS
<1>2. f \in Seq(Int) /\ Len(f) = n - 1 /\ DOMAIN f = 1..(n - 1)
      /\ (\A i \in 1..(n - 1) : f[i] = s[i])
  BY <1>1 DEF Front
<1>3. Last(s) = s[n] /\ n \in 1..n
  BY <1>1 DEF Last
<1>4. \A i \in 1..(n - 1) : s[i] < s[n] /\ i \in 1..n
  BY <1>1, <1>3 DEF Ascending
<1>5. Ascending(f)
  BY <1>1, <1>2, <1>4 DEF Ascending
<1> HIDE DEF f, n
<1>6. ToSet(s) = {s[i] : i \in 1..n} /\ ToSet(f) = {f[i] : i \in 1..(n - 1)}
  BY <1>1, <1>2 DEF ToSet
<1>7. \A i \in 1..n : i = n \/ i \in 1..(n - 1)
  BY <1>1
<1>8. ToSet(f) = ToSet(s) \ {Last(s)}
  <2>1. ASSUME NEW d \in ToSet(f) PROVE d \in ToSet(s) /\ d # s[n]
    <3>1. PICK i \in 1..(n - 1) : d = s[i]
      BY <1>2, <1>6
    <3> QED
      BY <1>1, <1>3, <1>4, <1>6, <3>1
  <2>2. ASSUME NEW d \in ToSet(s), d # s[n] PROVE d \in ToSet(f)
    BY <1>2, <1>6, <1>7, <2>2
  <2> QED
    BY <1>3, <2>1, <2>2
<1>9. Last(s) \in ToSet(s) /\ (\A d \in ToSet(s) : d <= Last(s)) /\ ToSet(s) \subseteq Int
  BY <1>1, <1>3, <1>4, <1>6, <1>7
<1> QED
  BY <1>2, <1>5, <1>8, <1>9 DEF f

\* What the call knows of its tournament.
LEMMA GivenFacts ==
  ASSUME Given
  PROVE  /\ IsTournament(T) /\ Resumable(T) /\ T.n \in Nat /\ limit \in Nat
         /\ T.ci \in 0..T.n /\ T.oi \in 0..T.n /\ T.dups \subseteq 0..(T.n - 1)
         /\ IsFiniteSet(T.dups) /\ Cardinality(T.dups) \in Nat
         /\ T.ci < T.n => /\ T.ci \in 0..(T.n - 1)
                          /\ FirstOpponent(T) \in Nat /\ T.ci < FirstOpponent(T)
                          /\ FirstOpponent(T) <= T.n /\ T.oi <= FirstOpponent(T)
                          /\ \A d \in T.dups : d < FirstOpponent(T)
<1>1. IsTournament(T) /\ Resumable(T) /\ limit \in Nat
  BY DEF Given, WellFormed
<1>2. T.n \in Nat /\ T.ci \in 0..T.n /\ T.oi \in 0..T.n
      /\ T.dups \subseteq (T.ci + 1)..(T.oi - 1)
  BY <1>1 DEF IsTournament, Resumable
<1>3. IsFiniteSet(T.dups) /\ Cardinality(T.dups) \in Nat
  BY <1>1, DupsFinite
<1>4. T.dups \subseteq 0..(T.n - 1)
  BY <1>2
<1>5. ASSUME T.ci < T.n
      PROVE  /\ T.ci \in 0..(T.n - 1)
             /\ FirstOpponent(T) \in Nat /\ T.ci < FirstOpponent(T)
             /\ FirstOpponent(T) <= T.n /\ T.oi <= FirstOpponent(T)
             /\ \A d \in T.dups : d < FirstOpponent(T)
  BY <1>2, <1>5 DEF FirstOpponent
<1> QED
  BY <1>1, <1>2, <1>3, <1>4, <1>5

LEMMA LoopInit ==
  PruneInit => LoopInv
<1> SUFFICES ASSUME PruneInit PROVE LoopInv
  OBVIOUS
<1>1. PICK m \in 1..MaxChildren :
        \E sig \in [0..(m - 1) -> Signatures], good \in SUBSET Signatures, gone \in SUBSET (0..(m - 1)),
           created \in [0..(m - 1) -> 0..MaxCreated], won \in BOOLEAN, c \in 0..m, o \in 0..m :
          T = Stored(m, sig, good, gone, created, won, c, o)
  BY DEF PruneInit
<1>2. PICK sig \in [0..(m - 1) -> Signatures], good \in SUBSET Signatures, gone \in SUBSET (0..(m - 1)),
           created \in [0..(m - 1) -> 0..MaxCreated], won \in BOOLEAN, c \in 0..m, o \in 0..m :
          T = Stored(m, sig, good, gone, created, won, c, o)
  BY <1>1
<1>3. /\ T.n = m /\ T.sig = sig /\ T.created = created /\ T.settled \in BOOLEAN
      /\ T.viable = [i \in 0..(m - 1) |-> sig[i] \in good]
      /\ T.out = [i \in 0..(m - 1) |-> i \in gone]
  BY <1>2 DEF Stored
<1>4. m \in Nat /\ limit \in Nat
  BY LoopAssumption DEF PruneInit
<1>5. IsTournament(T)
  BY <1>3, <1>4 DEF IsTournament
<1>6. Given
  BY <1>3, <1>4, <1>5 DEF Given, PruneInit
<1>7. dups \in Seq(Int) /\ Ascending(dups) /\ ToSet(dups) = T.dups
  <2>1. dups \in [1..Cardinality(T.dups) -> T.dups] /\ ToSet(dups) = T.dups
        /\ (\A i, j \in DOMAIN dups : i < j => dups[i] < dups[j])
    BY DEF PruneInit, Arrays
  <2>2. dups \in Seq(Int) /\ DOMAIN dups = 1..Len(dups)
    <3>1. PICK n \in Nat : n = Cardinality(T.dups)
      BY <1>6, GivenFacts
    <3>2. T.dups \subseteq Int
      BY <1>6, GivenFacts
    <3>3. dups \in [1..n -> Int]
      BY <2>1, <3>1, <3>2
    <3>4. dups \in Seq(Int)
      BY <3>3
    <3> QED
      BY <3>4
  <2> QED
    BY <2>1, <2>2 DEF Ascending
<1>8. LocalsOK
  BY <1>4, <1>5, <1>7 DEF LocalsOK, PruneInit, IsTournament
<1> QED
  BY <1>6, <1>7, <1>8 DEF PruneInit, LoopInv, AtEnter, AtDuplicates, AtContender, AtSearch,
       AtOpponents, LoopComputesOutcome

\* Statements before the first branch.
LEMMA EnterKeeps ==
  ASSUME LoopInv, Enter
  PROVE  LoopInv'
<1>0. /\ pc = "enter" /\ k = limit /\ ci = T.ci /\ oi = T.oi /\ out = T.out
      /\ ToSet(dups) = T.dups /\ Ascending(dups)
      /\ UNCHANGED <<T, limit, k, out, dups, ci, oi>>
  BY DEF LoopInv, AtEnter, Enter
<1>1. /\ Given /\ Given' /\ LocalsOK
      /\ IsTournament(T) /\ Resumable(T) /\ T.n \in Nat /\ T.ci \in 0..T.n
  BY <1>0, GivenFacts DEF LoopInv, Given
<1>2. CASE ci = T.n
  <2>1. pc' = "done" /\ ret' = NoChild /\ UNCHANGED <<u, v>>
    BY <1>2 DEF Enter, Return
  <2>2. Outcome'.elim = {}
    BY <1>0 DEF Outcome
  <2>3. Outcome' = [ci |-> T.ci, oi |-> T.oi, dups |-> T.dups, elim |-> {}, ret |-> NoChild]
    BY <1>0, <2>1, <2>2 DEF Outcome
  <2>4. Outcomes(T, limit) = {Outcome'}
    BY <1>0, <1>2, <2>3 DEF Outcomes
  <2>5. LoopComputesOutcome'
    BY <1>0, <2>1, <2>4 DEF LoopComputesOutcome
  <2>6. LocalsOK'
    BY <1>0, <1>1, <2>1 DEF LocalsOK
  <2> QED
    BY <1>1, <2>1, <2>5, <2>6 DEF LoopInv, AtEnter, AtDuplicates, AtContender, AtSearch, AtOpponents
<1>3. CASE ci # T.n
  <2>1. /\ u' = T.ci /\ v' = FirstOpponent(T) /\ contender' = T.ci
        /\ contenderSignature' = T.sig[T.ci]
        /\ IF T.settled THEN pc' = "done" /\ ret' = T.ci
           ELSE pc' = IF ~T.viable[ci] \/ out[ci] THEN "duplicates" ELSE "opponents?"
    BY <1>0, <1>3 DEF Enter, Return, FirstOpponent
  <2>2. /\ T.ci \in 0..(T.n - 1) /\ T.ci < T.n
        /\ FirstOpponent(T) \in Nat /\ T.ci < FirstOpponent(T) /\ FirstOpponent(T) <= T.n
    BY <1>0, <1>1, <1>3, GivenFacts
  <2>3. LocalsOK'
    BY <1>0, <1>1, <2>1, <2>2 DEF LocalsOK
  <2>4. ~T.settled => LoopComputesOutcome'
    BY <2>1 DEF LoopComputesOutcome
  <2>5. Ascending(dups)'
    BY <1>0 DEF Ascending
  <2>s. CASE T.settled
    <3>1. Outcome'.elim = {}
      BY <1>0 DEF Outcome
    <3>2. Outcome' = [ci |-> T.ci, oi |-> T.oi, dups |-> T.dups, elim |-> {}, ret |-> T.ci]
      BY <1>0, <2>1, <2>s, <3>1 DEF Outcome
    <3>3. Outcomes(T, limit) = {Outcome'}
      BY <1>0, <1>3, <2>s, <3>2 DEF Outcomes
    <3>4. LoopComputesOutcome'
      BY <1>0, <2>1, <2>s, <3>3 DEF LoopComputesOutcome
    <3> QED
      BY <1>1, <2>1, <2>3, <2>s, <3>4
         DEF LoopInv, AtEnter, AtDuplicates, AtContender, AtSearch, AtOpponents
  <2>6. CASE ~T.settled /\ Survives(T, T.ci)
    <3>1. pc' = "opponents?"
      BY <1>0, <2>1, <2>6 DEF Survives
    <3>2. Outcome'.elim = {}
      BY <1>0 DEF Outcome
    <3>3. Outcomes(T, limit) = Play(T, T.ci, FirstOpponent(T), limit, T.dups, {}, T.ci)
      BY <1>0, <1>1, <1>3, <2>6 DEF Outcomes
    <3>4. Outcomes(T', limit') = Play(T', u', v', k', ToSet(dups'), Outcome'.elim, contender')
      BY <1>0, <2>1, <3>2, <3>3
    <3>5. AtOpponents'
      BY <1>0, <1>1, <2>1, <2>2, <3>1, <3>4 DEF AtOpponents
    <3> QED
      BY <1>1, <2>3, <2>4, <2>6, <3>1, <3>5 DEF LoopInv, AtEnter, AtDuplicates, AtContender, AtSearch
  <2>7. CASE ~T.settled /\ ~Survives(T, T.ci)
    <3>1. pc' = "duplicates"
      BY <1>0, <2>1, <2>7 DEF Survives
    <3>2. T.dups \ ToSet(dups) = {}
      BY <1>0
    <3>3. Cardinality({}) = 0 /\ limit \in Nat
      BY <1>1, FS_EmptySet DEF Given
    <3>4. Gone({})'
      BY <1>0 DEF Gone
    <3>5. Replacing'
      BY <1>0, <2>1, <2>2, <2>7 DEF Replacing
    <3>6. (ToSet(dups) \subseteq T.dups)'
      BY <1>0
    <3>7. (T.dups \ ToSet(dups))' = {}
      BY <1>0
    <3>8. AtDuplicates'
      BY <1>0, <2>1, <3>1, <3>3, <3>4, <3>5, <3>6, <3>7 DEF AtDuplicates
    <3> QED
      BY <1>1, <2>3, <2>4, <2>5, <2>7, <3>1, <3>8 DEF LoopInv, AtEnter, AtContender, AtSearch, AtOpponents
  <2> QED
    BY <2>s, <2>6, <2>7
<1> QED
  BY <1>2, <1>3

\* One duplicate is popped; or there are no steps left; or no duplicates.
LEMMA EliminateDuplicateKeeps ==
  ASSUME LoopInv, EliminateDuplicate
  PROVE  LoopInv'
<1>0. /\ pc = "duplicates" /\ Replacing /\ contender = T.ci
      /\ ToSet(dups) \subseteq T.dups
      /\ \A d \in ToSet(dups), e \in T.dups \ ToSet(dups) : d < e
      /\ k = limit - Cardinality(T.dups \ ToSet(dups))
      /\ Gone(T.dups \ ToSet(dups)) /\ Ascending(dups)
      /\ UNCHANGED <<T, limit, u, v, contender, contenderSignature, ci, oi>>
  BY DEF LoopInv, AtDuplicates, EliminateDuplicate
<1>1. /\ Given /\ Given' /\ LocalsOK /\ Replacing' /\ dups \in Seq(Int)
      /\ IsTournament(T) /\ Resumable(T) /\ T.n \in Nat /\ ~T.settled /\ T.ci \in 0..T.n
      /\ limit \in Nat /\ IsFiniteSet(T.dups) /\ Cardinality(T.dups) \in Nat
      /\ k \in Nat /\ T.dups \subseteq 0..(T.n - 1)
  BY <1>0, GivenFacts DEF LoopInv, Given, Replacing, LocalsOK
<1>a. PICK R, P : R = ToSet(dups) /\ P = T.dups \ R
  OBVIOUS
<1>2. IsFiniteSet(P) /\ Cardinality(P) \in Nat /\ Cardinality(P) <= Cardinality(T.dups)
  BY <1>1, <1>a, FS_Subset, FS_CardinalityType
<1>3. CASE dups # <<>> /\ k > 0
  <2>a. PICK m : m = Last(dups)
    OBVIOUS
  <2>1. /\ out' = [out EXCEPT ![m] = TRUE] \/ (out[m] /\ out' = out)
        /\ dups' = Front(dups) /\ k' = k - 1 /\ pc' = "duplicates"
    BY <1>0, <1>3, <2>a DEF EliminateDuplicate, EliminateChild
  <2>2. /\ m \in R /\ (\A d \in R : d <= m) /\ R \subseteq Int
        /\ dups' \in Seq(Int) /\ Ascending(dups)' /\ ToSet(dups') = R \ {m}
    BY <1>0, <1>1, <1>3, <1>a, <2>1, <2>a, PopLast DEF Ascending
  <2>3. m \in 0..(T.n - 1) /\ m \notin P /\ T.dups \ ToSet(dups') = P \cup {m}
    BY <1>0, <1>1, <1>a, <2>2
  <2>4. Cardinality(P \cup {m}) = Cardinality(P) + 1
    BY <1>2, <2>3, FS_AddElement
  <2>5. /\ out' \in [0..(T.n - 1) -> BOOLEAN]
        /\ \A i \in 0..(T.n - 1) : out'[i] <=> out[i] \/ i = m
    BY <1>1, <2>1, <2>3 DEF LocalsOK
  <2>6. Gone(P \cup {m})'
    BY <1>0, <1>a, <2>5 DEF Gone
  <2>7. \A d \in R \ {m}, e \in P \cup {m} : d < e
    BY <1>0, <1>a, <2>2
  <2>8. k' = limit - Cardinality(P \cup {m}) /\ k' \in Nat
    BY <1>0, <1>1, <1>2, <1>3, <1>a, <2>1, <2>4, SMTT(30)
  <2>9. LocalsOK'
    BY <1>0, <1>1, <2>2, <2>5, <2>8 DEF LocalsOK
  <2>10. AtDuplicates'
    <3>1. (ToSet(dups) \subseteq T.dups)' /\ T' = T /\ limit' = limit
      BY <1>0, <1>a, <2>2
    <3>2. ToSet(dups)' = R \ {m} /\ (T.dups \ ToSet(dups))' = P \cup {m}
      BY <1>0, <2>2, <2>3
    <3> QED
      BY <1>0, <1>1, <2>1, <2>6, <2>7, <2>8, <3>1, <3>2 DEF AtDuplicates
  <2> QED
    BY <1>1, <2>1, <2>2, <2>9, <2>10
       DEF LoopInv, AtEnter, AtContender, AtSearch, AtOpponents, LoopComputesOutcome
<1>4. CASE ~(dups # <<>> /\ k > 0)
  <2>1. UNCHANGED <<out, dups, k>>
        /\ IF k = 0 THEN pc' = "done" /\ ret' = NoChild ELSE pc' = "contender" /\ ret' = ret
    BY <1>4 DEF EliminateDuplicate, Return
  <2>2. LocalsOK'
    BY <1>0, <1>1, <2>1 DEF LocalsOK
  <2>3. CASE k = 0
    <3>1. limit = Cardinality(P) /\ limit <= Cardinality(T.dups)
      BY <1>0, <1>1, <1>2, <1>a, <2>3
    <3>2. Popped(T, limit) = P /\ T.dups \ P = R
      BY <1>0, <1>1, <1>a, <3>1, PoppedLargest
    <3>3. Outcomes(T, limit) =
            {[ci |-> T.ci, oi |-> T.oi, dups |-> R, elim |-> {d \in P : ~T.out[d]},
              ret |-> NoChild]}
      <4>1. T.ci # T.n /\ ~T.settled /\ ~Survives(T, T.ci)
        BY <1>0, <1>1 DEF Replacing
      <4>2. Outcomes(T, limit) = Replace(T, limit)
        BY <4>1 DEF Outcomes
      <4> QED
        BY <3>1, <3>2, <4>2 DEF Replace
    <3>4. Outcome'.elim = {d \in P : ~T.out[d]}
      BY <1>0, <1>1, <1>a, <2>1 DEF Outcome, Gone
    <3>5. Outcome' = [ci |-> T.ci, oi |-> T.oi, dups |-> R, elim |-> {d \in P : ~T.out[d]},
                      ret |-> NoChild]
      BY <1>0, <1>a, <2>1, <2>3, <3>4 DEF Outcome, Replacing
    <3>6. LoopComputesOutcome'
      BY <1>0, <2>1, <2>3, <3>3, <3>5 DEF LoopComputesOutcome
    <3> QED
      BY <1>1, <2>1, <2>2, <2>3, <3>6
         DEF LoopInv, AtEnter, AtDuplicates, AtContender, AtSearch, AtOpponents
  <2>4. CASE k # 0
    <3>1. dups = <<>> /\ R = {} /\ P = T.dups /\ k > 0
      BY <1>1, <1>4, <1>a, <2>4 DEF ToSet
    <3>2. AtContender'
      BY <1>0, <1>1, <1>a, <2>1, <2>4, <3>1 DEF AtContender, Gone
    <3> QED
      BY <1>1, <2>1, <2>2, <2>4, <3>2
         DEF LoopInv, AtEnter, AtDuplicates, AtSearch, AtOpponents, LoopComputesOutcome
  <2> QED
    BY <2>3, <2>4
<1> QED
  BY <1>3, <1>4

\* The contender falls and the search starts.
LEMMA EliminateContenderKeeps ==
  ASSUME LoopInv, EliminateContender
  PROVE  LoopInv'
<1>0. /\ pc = "contender" /\ Replacing /\ contender = T.ci /\ dups = <<>>
      /\ k = limit - Cardinality(T.dups) /\ k > 0 /\ Gone(T.dups)
      /\ pc' = "search" /\ k' = k - 1 /\ u' = v
      /\ UNCHANGED <<T, limit, v, contender, contenderSignature, dups, ci, oi, ret>>
  BY DEF LoopInv, AtContender, EliminateContender
<1>1. /\ Given /\ Given' /\ LocalsOK /\ Replacing' /\ T.ci < T.n
      /\ T.n \in Nat /\ T.ci \in 0..(T.n - 1) /\ limit \in Nat /\ Cardinality(T.dups) \in Nat
      /\ v \in Nat /\ v <= T.n /\ k \in Nat
  BY <1>0, GivenFacts DEF LoopInv, Given, Replacing, LocalsOK
<1>2. /\ out' \in [0..(T.n - 1) -> BOOLEAN]
      /\ \A i \in 0..(T.n - 1) : out'[i] <=> out[i] \/ i = T.ci
  <2>1. out' = [out EXCEPT ![T.ci] = TRUE] \/ (out[T.ci] /\ out' = out)
    BY <1>0 DEF EliminateContender, EliminateChild
  <2> QED
    BY <1>1, <2>1 DEF LocalsOK
<1>3. v..(v - 1) = {} /\ u' - v' = 0 /\ Left' \in Nat /\ k' = Left' - (u' - v')
  BY <1>0, <1>1 DEF Left
<1>4. Gone(T.dups \cup {T.ci} \cup v..(u - 1))'
  BY <1>0, <1>2, <1>3 DEF Gone
<1>5. AtSearch'
  <2>1. u' \in v'..T'.n /\ ~(u' > v')
    BY <1>0, <1>1
  <2>2. \A i \in v'..(u' - 1) : ~Survives(T', i)
    BY <1>0, <1>3
  <2> QED
    BY <1>0, <1>1, <1>3, <1>4, <2>1, <2>2 DEF AtSearch
<1>6. LocalsOK'
  BY <1>0, <1>1, <1>2 DEF LocalsOK
<1> QED
  BY <1>0, <1>1, <1>5, <1>6
     DEF LoopInv, AtEnter, AtDuplicates, AtContender, AtOpponents, LoopComputesOutcome

\* One child is passed over, or the search stops.
LEMMA SearchContenderKeeps ==
  ASSUME LoopInv, SearchContender
  PROVE  LoopInv'
<1>0. /\ pc = "search" /\ Replacing /\ dups = <<>>
      /\ Left \in Nat /\ u \in v..T.n /\ k = Left - (u - v)
      /\ \A i \in v..(u - 1) : ~Survives(T, i)
      /\ Gone(T.dups \cup {T.ci} \cup v..(u - 1))
      /\ contender = IF u > v THEN u - 1 ELSE T.ci
      /\ UNCHANGED <<T, limit, v, dups, ci, oi, ret>>
  BY DEF LoopInv, AtSearch, SearchContender
<1>1. /\ Given /\ Given' /\ LocalsOK /\ Replacing' /\ T.ci < T.n
      /\ IsTournament(T) /\ T.n \in Nat /\ T.ci \in 0..(T.n - 1) /\ Left' = Left
      /\ v \in Nat /\ u \in Nat /\ v <= T.n /\ k \in Nat /\ T.ci < v
      /\ \A d \in T.dups : d < v
  BY <1>0, GivenFacts DEF LoopInv, Given, Replacing, LocalsOK, Left
<1>2. u < T.n => (out[u] <=> T.out[u])
  <2> SUFFICES ASSUME u < T.n PROVE out[u] <=> T.out[u]
    OBVIOUS
  <2>1. u \in 0..(T.n - 1) /\ u \notin T.dups \cup {T.ci} \cup v..(u - 1)
    BY <1>0, <1>1
  <2> QED
    BY <1>0, <2>1 DEF Gone
<1>3. CASE u < T.n /\ k > 0 /\ ~Survives(T, u)
  <2>0. u \in 0..(T.n - 1)
    BY <1>1, <1>3
  <2>1. /\ contender' = u /\ u' = u + 1 /\ k' = k - 1 /\ pc' = "search"
        /\ out' = [out EXCEPT ![u] = TRUE] \/ (out[u] /\ out' = out)
    BY <1>0, <1>2, <1>3 DEF SearchContender, EliminateChild, Survives
  <2>2. /\ out' \in [0..(T.n - 1) -> BOOLEAN]
        /\ \A i \in 0..(T.n - 1) : out'[i] <=> out[i] \/ i = u
    BY <1>1, <2>0, <2>1 DEF LocalsOK
  <2>3. v..(u' - 1) = v..(u - 1) \cup {u} /\ u' \in v..T.n /\ u' > v /\ u' - 1 = u
        /\ k' = Left - (u' - v) /\ k' \in Nat /\ u' \in Nat
    BY <1>0, <1>1, <1>3, <2>1
  <2>4. Gone(T.dups \cup {T.ci} \cup v..(u - 1))'
    BY <1>0, <2>2, <2>3 DEF Gone
  <2>5. \A i \in v..(u' - 1) : ~Survives(T, i)
    BY <1>0, <1>3, <2>3
  <2>6. AtSearch'
    BY <1>0, <1>1, <2>1, <2>3, <2>4, <2>5 DEF AtSearch
  <2>7. LocalsOK'
    BY <1>0, <1>1, <2>2, <2>3 DEF LocalsOK
  <2> QED
    BY <1>1, <2>1, <2>6, <2>7
       DEF LoopInv, AtEnter, AtDuplicates, AtContender, AtOpponents, LoopComputesOutcome
<1>4. CASE ~(u < T.n /\ k > 0 /\ ~Survives(T, u))
  <2>1. pc' = "selected" /\ UNCHANGED <<out, u, k>>
    BY <1>2, <1>4 DEF SearchContender, Survives
  <2>2. /\ contender' = Held(T, v, u, Left)
        /\ u = T.n \/ k = 0 \/ (Survives(T, u) /\ contenderSignature' = T.sig[u])
    <3>1. CASE u < T.n /\ k > 0
      <4>1. Survives(T, u) /\ contender' = u /\ contenderSignature' = T.sig[u]
        BY <1>2, <1>4, <3>1 DEF SearchContender, Survives
      <4>2. u < v + Left
        BY <1>0, <1>1, <3>1
      <4> QED
        BY <3>1, <4>1, <4>2 DEF Held
    <3>2. CASE ~(u < T.n /\ k > 0)
      <4>1. contender' = contender
        BY <3>2 DEF SearchContender
      <4>2. (u = T.n \/ k = 0) /\ ~(u < T.n /\ u < v + Left)
        BY <1>0, <1>1, <3>2
      <4> QED
        BY <1>0, <4>1, <4>2 DEF Held
    <3> QED
      BY <3>1, <3>2
  <2>3. Gone(T.dups \cup {T.ci} \cup v..(u - 1))'
    BY <1>0, <2>1 DEF Gone
  <2>4. AtSearch'
    BY <1>0, <1>1, <2>1, <2>2, <2>3 DEF AtSearch
  <2>5. LocalsOK'
    BY <1>0, <1>1, <2>1 DEF LocalsOK
  <2> QED
    BY <1>1, <2>1, <2>4, <2>5
       DEF LoopInv, AtEnter, AtDuplicates, AtContender, AtOpponents, LoopComputesOutcome
<1> QED
  BY <1>3, <1>4

\* The search is over: what is left of the outcome is the play from here.
LEMMA StoreContenderKeeps ==
  ASSUME LoopInv, StoreContender
  PROVE  LoopInv'
<1>0. /\ pc = "selected" /\ Replacing /\ dups = <<>>
      /\ Left \in Nat /\ u \in v..T.n /\ k = Left - (u - v)
      /\ \A i \in v..(u - 1) : ~Survives(T, i)
      /\ Gone(T.dups \cup {T.ci} \cup v..(u - 1))
      /\ contender = Held(T, v, u, Left)
      /\ u = T.n \/ k = 0 \/ (Survives(T, u) /\ contenderSignature = T.sig[u])
      /\ ci' = u /\ v' = u + 1 /\ pc' = "opponents?"
      /\ UNCHANGED <<T, limit, u, k, contender, contenderSignature, out, dups, oi, ret>>
  BY DEF LoopInv, AtSearch, StoreContender
<1>1. /\ Given /\ Given' /\ LocalsOK /\ T.ci < T.n /\ ~T.settled /\ ~Survives(T, T.ci)
      /\ IsTournament(T) /\ Resumable(T) /\ T.n \in Nat /\ T.ci \in 0..(T.n - 1)
      /\ limit \in Nat /\ Cardinality(T.dups) \in Nat /\ T.dups \subseteq 0..(T.n - 1)
      /\ v \in Nat /\ u \in Nat /\ v <= T.n /\ k \in Nat /\ T.ci < v
      /\ v = FirstOpponent(T) /\ oi = T.oi /\ (\A d \in T.dups : d < v)
  BY <1>0, GivenFacts DEF LoopInv, Given, Replacing, LocalsOK
<1>2. SearchStops(T, v, Left) = {u}
  <2>1. u <= v + Left /\ (u = T.n \/ u = v + Left \/ Survives(T, u))
    BY <1>0, <1>1, SMTT(30)
  <2> QED
    BY <1>0, <1>1, <2>1, SearchEndsOnce
<1>3. limit > Cardinality(T.dups) /\ Popped(T, limit) = T.dups
  BY <1>0, <1>1, AllPopped, SMTT(30) DEF Left
<1>4. PICK E : /\ E = {d \in T.dups : ~T.out[d]} \cup {i \in {T.ci} \cup v..(u - 1) : ~T.out[i]}
  OBVIOUS
<1>5. Outcomes(T, limit) = Play(T, u, u + 1, k, {}, E, contender)
  <2>1. Outcomes(T, limit) = Replace(T, limit)
    BY <1>1 DEF Outcomes
  <2>2. PICK f, l : f = FirstOpponent(T) /\ l = limit - Cardinality(T.dups) - 1
    OBVIOUS
  <2>3. f = v /\ l = Left /\ SearchStops(T, f, l) = {u} /\ ~(limit <= Cardinality(T.dups))
    BY <1>1, <1>2, <1>3, <2>2 DEF Left
  <2>4. Replace(T, limit) =
          UNION {Play(T, w, w + 1, l - (w - f), {},
                      {d \in Popped(T, limit) : ~T.out[d]}
                        \cup {i \in {T.ci} \cup f..(w - 1) : ~T.out[i]},
                      Held(T, f, w, l)) : w \in SearchStops(T, f, l)}
    BY <2>2, <2>3 DEF Replace
  <2>5. Replace(T, limit) =
          Play(T, u, u + 1, l - (u - f), {},
               {d \in Popped(T, limit) : ~T.out[d]}
                 \cup {i \in {T.ci} \cup f..(u - 1) : ~T.out[i]},
               Held(T, f, u, l))
    BY <2>3, <2>4
  <2> QED
    BY <1>0, <1>3, <1>4, <2>1, <2>3, <2>5
<1>6. Outcome'.elim = E
  <2>1. v..(u - 1) \subseteq 0..(T.n - 1)
    BY <1>0, <1>1, SMTT(30)
  <2>2. Outcome'.elim = {i \in 0..(T.n - 1) : out[i] /\ ~T.out[i]}
    BY <1>0 DEF Outcome
  <2> QED
    BY <1>0, <1>1, <1>4, <2>1, <2>2 DEF Gone
<1>7. ToSet(dups') = {}
  BY <1>0 DEF ToSet
<1>8. \A i \in (u + 1)..(T.n - 1) : out[i] = T.out[i]
  <2> SUFFICES ASSUME NEW i \in (u + 1)..(T.n - 1) PROVE out[i] = T.out[i]
    OBVIOUS
  <2>1. i \in 0..(T.n - 1) /\ i \notin T.dups \cup {T.ci} \cup v..(u - 1)
    BY <1>0, <1>1
  <2>2. out[i] <=> T.out[i]
    BY <1>0, <2>1 DEF Gone
  <2>3. out[i] \in BOOLEAN /\ T.out[i] \in BOOLEAN
    BY <1>1, <2>1 DEF LocalsOK, IsTournament
  <2> QED
    BY <2>2, <2>3
<1>9. u < T.n /\ k > 0 => contender = u /\ contenderSignature = T.sig[u]
  <2>1. u < T.n /\ k > 0 => u < v + Left
    BY <1>0, <1>1
  <2> QED
    BY <1>0, <1>1, <2>1 DEF Held
<1>10. AtOpponents'
  <2>1. Outcomes(T', limit') = Play(T', u', v', k', ToSet(dups'), Outcome'.elim, contender')
    BY <1>0, <1>5, <1>6, <1>7
  <2>2. u' \in 0..T'.n /\ v' > u' /\ (u' < T'.n => v' <= T'.n)
    BY <1>0, <1>1
  <2>3. \A i \in v'..(T'.n - 1) : out'[i] = T'.out[i]
    BY <1>0, <1>8
  <2> QED
    BY <1>0, <1>1, <1>9, <2>1, <2>2, <2>3 DEF AtOpponents
<1>11. LocalsOK'
  BY <1>0, <1>1 DEF LocalsOK
<1> QED
  BY <1>0, <1>1, <1>10, <1>11
     DEF LoopInv, AtEnter, AtDuplicates, AtContender, AtSearch, LoopComputesOutcome

\* What the three steps at the end of the call start from.
LEMMA AtOpponentsFacts ==
  ASSUME LoopInv, pc \in {"opponents?", "opponents"}
  PROVE  /\ Given /\ LocalsOK /\ IsTournament(T) /\ T.n \in Nat
         /\ ci = u /\ oi = T.oi
         /\ u \in 0..T.n /\ v > u /\ (u < T.n => v <= T.n)
         /\ pc = "opponents" => u < T.n /\ T.viable[u]
         /\ u < T.n /\ T.viable[u] /\ k > 0 => contender = u /\ contenderSignature = T.sig[u]
         /\ \A i \in v..(T.n - 1) : out[i] = T.out[i]
         /\ Outcomes(T, limit) = Play(T, u, v, k, ToSet(dups), Outcome.elim, contender)
         /\ u \in Nat /\ v \in Nat /\ k \in Nat /\ dups \in Seq(Int)
         /\ out \in [0..(T.n - 1) -> BOOLEAN]
BY GivenFacts DEF LoopInv, AtOpponents, LocalsOK

LEMMA EnterOpponentsKeeps ==
  ASSUME LoopInv, EnterOpponents
  PROVE  LoopInv'
<1>0. pc = "opponents?"
      /\ UNCHANGED <<T, limit, u, v, k, contender, contenderSignature, out, dups, ci, oi>>
  BY DEF EnterOpponents
<1>1. LocalsOK' /\ Given' /\ Outcome'.elim = Outcome.elim
  BY <1>0, AtOpponentsFacts DEF LocalsOK, Given, Outcome
<1>2. CASE u < T.n /\ T.viable[u]
  <2>1. pc' = "opponents"
    BY <1>2 DEF EnterOpponents
  <2>2. Outcomes(T', limit') = Play(T', u', v', k', ToSet(dups'), Outcome'.elim, contender')
    BY <1>0, <1>1, AtOpponentsFacts
  <2>3. AtOpponents'
    BY <1>0, <1>2, <2>1, <2>2, AtOpponentsFacts DEF AtOpponents
  <2> QED
    BY <1>1, <2>1, <2>3
       DEF LoopInv, AtEnter, AtDuplicates, AtContender, AtSearch, LoopComputesOutcome
<1>3. CASE ~(u < T.n /\ T.viable[u])
  <2>1. pc' = "done" /\ ret' = NoChild
    BY <1>3 DEF EnterOpponents, Return
  <2>2. Outcomes(T, limit) =
          {[ci |-> u, oi |-> T.oi, dups |-> ToSet(dups), elim |-> Outcome.elim,
            ret |-> NoChild]}
    <3>1. Outcomes(T, limit) = Play(T, u, v, k, ToSet(dups), Outcome.elim, contender)
      BY <1>0, AtOpponentsFacts
    <3> QED
      BY <1>3, <3>1 DEF Play
  <2>3. Outcome' = [ci |-> u, oi |-> T.oi, dups |-> ToSet(dups), elim |-> Outcome'.elim,
                    ret |-> NoChild]
    BY <1>0, <2>1, AtOpponentsFacts DEF Outcome
  <2>4. LoopComputesOutcome'
    BY <1>0, <1>1, <2>1, <2>2, <2>3 DEF LoopComputesOutcome
  <2> QED
    BY <1>1, <2>1, <2>4
       DEF LoopInv, AtEnter, AtDuplicates, AtContender, AtSearch, AtOpponents
<1> QED
  BY <1>2, <1>3

\* One opponent is played.
LEMMA PlayOpponentKeeps ==
  ASSUME LoopInv, PlayOpponent
  PROVE  LoopInv'
<1>0. /\ pc = "opponents" /\ v < T.n /\ k > 0 /\ ~Late(T, contender, v)
      /\ UNCHANGED <<T, limit, u, contender, contenderSignature, ci, oi>>
  BY DEF PlayOpponent, MorePlay
<1>1. /\ Given /\ LocalsOK /\ IsTournament(T) /\ T.n \in Nat /\ Given'
      /\ ci = u /\ oi = T.oi /\ u \in 0..(T.n - 1) /\ T.viable[u] /\ v > u
      /\ contender = u /\ contenderSignature = T.sig[u]
      /\ v \in Nat /\ v \in 0..(T.n - 1) /\ k \in Nat /\ dups \in Seq(Int)
      /\ out \in [0..(T.n - 1) -> BOOLEAN] /\ out[v] = T.out[v]
      /\ \A i \in v..(T.n - 1) : out[i] = T.out[i]
  BY <1>0, AtOpponentsFacts, SMTT(30) DEF Given
<1>2. Outcomes(T, limit) = Play(T, u, v, k, ToSet(dups), Outcome.elim, contender)
  BY <1>0, AtOpponentsFacts
<1>3. CASE Rival(T, u, v)
  <2>1. pc' = "reverted" /\ UNCHANGED <<v, k, out, dups>>
    BY <1>1, <1>3 DEF PlayOpponent, Revert, Rival, Survives
  <2>2. Outcomes(T, limit) = {}
    BY <1>0, <1>1, <1>2, <1>3, PlayAborts
  <2>3. LocalsOK'
    BY <1>0, <1>1, <2>1 DEF LocalsOK
  <2> QED
    BY <1>0, <1>1, <2>1, <2>2, <2>3
       DEF LoopInv, AtEnter, AtDuplicates, AtContender, AtSearch, AtOpponents, LoopComputesOutcome
<1>4. CASE ~Rival(T, u, v)
  <2>1. /\ out' = IF out[v] \/ T.sig[v] = T.sig[u] THEN out ELSE [out EXCEPT ![v] = TRUE]
        /\ dups' = IF ~out[v] /\ T.sig[v] = T.sig[u] THEN Append(dups, v) ELSE dups
        /\ v' = v + 1 /\ k' = k - 1 /\ pc' = "opponents"
    BY <1>0, <1>1, <1>4 DEF PlayOpponent, EliminateChild, Rival, Survives
  <2>2. dups' \in Seq(Int) /\ ToSet(dups') = ToSet(dups) \cup {i \in {v} : Duplicate(T, u, i)}
    <3>1. CASE ~out[v] /\ T.sig[v] = T.sig[u]
      <4>1. ToSet(Append(dups, v)) = ToSet(dups) \cup {v}
        <5>1. /\ DOMAIN Append(dups, v) = 1..(Len(dups) + 1)
              /\ \A i \in 1..Len(dups) : Append(dups, v)[i] = dups[i]
              /\ Append(dups, v)[Len(dups) + 1] = v
          BY <1>1
        <5>2. Len(dups) \in Nat /\ DOMAIN dups = 1..Len(dups)
          BY <1>1
        <5>3. 1..(Len(dups) + 1) = 1..Len(dups) \cup {Len(dups) + 1}
          BY <5>2
        <5> QED
          BY <5>1, <5>2, <5>3 DEF ToSet
      <4>2. Append(dups, v) \in Seq(Int)
        BY <1>1
      <4> QED
        BY <1>1, <2>1, <3>1, <4>1, <4>2 DEF Duplicate
    <3>2. CASE ~(~out[v] /\ T.sig[v] = T.sig[u])
      BY <1>1, <2>1, <3>2 DEF Duplicate
    <3> QED
      BY <3>1, <3>2
  <2>3. /\ out' \in [0..(T.n - 1) -> BOOLEAN]
        /\ \A i \in 0..(T.n - 1) :
             out'[i] <=> out[i] \/ (i = v /\ ~T.out[v] /\ T.sig[v] # T.sig[u])
    BY <1>1, <2>1
  <2>4. Outcome'.elim = Outcome.elim \cup {i \in {v} : ~T.out[i] /\ T.sig[i] # T.sig[u]}
    <3>1. /\ Outcome.elim = {i \in 0..(T.n - 1) : out[i] /\ ~T.out[i]}
          /\ Outcome'.elim = {i \in 0..(T.n - 1) : out'[i] /\ ~T.out[i]}
      BY <1>0 DEF Outcome
    <3> QED
      BY <1>1, <2>3, <3>1
  <2>5. Outcomes(T', limit') = Play(T', u', v', k', ToSet(dups'), Outcome'.elim, contender')
    <3>1. Play(T, u, v, k, ToSet(dups), Outcome.elim, contender) =
            Play(T, u, v + 1, k - 1,
                 ToSet(dups) \cup {i \in {v} : Duplicate(T, u, i)},
                 Outcome.elim \cup {i \in {v} : ~T.out[i] /\ T.sig[i] # T.sig[u]}, contender)
      <4>1. ~Late(T, u, v)
        BY <1>0, <1>1
      <4>2. PICK d, e : d = ToSet(dups) /\ e = Outcome.elim
        OBVIOUS
      <4>3. Play(T, u, v, k, d, e, contender) =
              Play(T, u, v + 1, k - 1,
                   d \cup {i \in {v} : Duplicate(T, u, i)},
                   e \cup {i \in {v} : ~T.out[i] /\ T.sig[i] # T.sig[u]}, contender)
        BY <1>0, <1>1, <1>4, <4>1, PlayAdvances
      <4> QED
        BY <4>2, <4>3
    <3> QED
      BY <1>0, <1>2, <2>1, <2>2, <2>4, <3>1
  <2>6. \A i \in v'..(T.n - 1) : out'[i] = T.out[i]
    <3> SUFFICES ASSUME NEW i \in v'..(T.n - 1) PROVE out'[i] = T.out[i]
      OBVIOUS
    <3>1. i \in 0..(T.n - 1) /\ i # v /\ i \in v..(T.n - 1)
      BY <1>1, <2>1
    <3>2. out'[i] = out[i]
      BY <1>1, <2>1, <3>1
    <3> QED
      BY <1>1, <3>1, <3>2
  <2>7. LocalsOK'
    BY <1>0, <1>1, <2>1, <2>2, <2>3 DEF LocalsOK
  <2>8. AtOpponents'
    <3>1. u \in 0..T.n /\ u < T.n /\ v' > u /\ v' <= T.n
      BY <1>0, <1>1, <2>1
    <3> QED
      BY <1>0, <1>1, <2>1, <2>5, <2>6, <3>1 DEF AtOpponents
  <2> QED
    BY <1>1, <2>1, <2>7, <2>8
       DEF LoopInv, AtEnter, AtDuplicates, AtContender, AtSearch, LoopComputesOutcome
<1> QED
  BY <1>3, <1>4

LEMMA FinishOpponentsKeeps ==
  ASSUME LoopInv, FinishOpponents
  PROVE  LoopInv'
<1>0. /\ pc = "opponents" /\ ~(v < T.n /\ k > 0 /\ ~Late(T, contender, v))
      /\ oi' = v /\ pc' = "done"
      /\ ret' = IF v = T.n \/ k > 0 THEN contender ELSE NoChild
      /\ UNCHANGED <<T, limit, u, v, k, contender, contenderSignature, out, dups, ci>>
  BY DEF FinishOpponents, MorePlay, Return
<1>1. /\ Given' /\ LocalsOK' /\ IsTournament(T) /\ T.n \in Nat
      /\ ci = u /\ u \in 0..(T.n - 1) /\ T.viable[u] /\ v \in Nat /\ v <= T.n /\ k \in Nat
      /\ k > 0 => contender = u
      /\ Outcomes(T, limit) = Play(T, u, v, k, ToSet(dups), Outcome.elim, contender)
  BY <1>0, AtOpponentsFacts DEF Given, LocalsOK
<1>2. v = T.n \/ k = 0 \/ Late(T, u, v)
  BY <1>0, <1>1
<1>3. Outcomes(T, limit) =
        {[ci |-> u, oi |-> v, dups |-> ToSet(dups), elim |-> Outcome.elim,
          ret |-> IF v = T.n \/ k > 0 THEN contender ELSE NoChild]}
  BY <1>1, <1>2, PlayEnds
<1>4. Outcome' = [ci |-> u, oi |-> v, dups |-> ToSet(dups), elim |-> Outcome.elim,
                  ret |-> IF v = T.n \/ k > 0 THEN contender ELSE NoChild]
  BY <1>0, <1>1 DEF Outcome
<1>5. LoopComputesOutcome'
  BY <1>0, <1>3, <1>4 DEF LoopComputesOutcome
<1> QED
  BY <1>0, <1>1, <1>5 DEF LoopInv, AtEnter, AtDuplicates, AtContender, AtSearch, AtOpponents

LEMMA LoopInvKept ==
  LoopInv /\ [PruneNext]_callVars => LoopInv'
<1> SUFFICES ASSUME LoopInv, [PruneNext]_callVars PROVE LoopInv'
  OBVIOUS
<1>1. CASE UNCHANGED callVars
  BY <1>1 DEF callVars, LoopInv, Given, LocalsOK, Ascending, AtEnter, AtDuplicates, AtContender,
       AtSearch, AtOpponents, LoopComputesOutcome, Gone, Replacing, Left, Outcome
<1> QED
  BY <1>1, EnterKeeps, EliminateDuplicateKeeps, EliminateContenderKeeps, SearchContenderKeeps,
     StoreContenderKeeps, EnterOpponentsKeeps, PlayOpponentKeeps, FinishOpponentsKeeps
     DEF PruneNext, Stop

\* The loops of pruneChildren, iteration by iteration, compute exactly the function that
\* the protocol model and its proofs use, and revert exactly where it has no outcome:
\* for any number of children, any stored progress, and any step limit.
THEOREM LoopsMatchFunction ==
  PruneSpec => []LoopComputesOutcome
<1>1. LoopInv => LoopComputesOutcome
  BY DEF LoopInv
<1> QED
  BY <1>1, LoopInit, LoopInvKept, PTL DEF PruneSpec

\* A call that returns stores progress from which the next one may resume.
THEOREM LoopsLeaveProgress ==
  PruneSpec => []ProgressIsResumable
<1>1. ASSUME LoopInv PROVE ProgressIsResumable
  <2> SUFFICES ASSUME pc = "done" PROVE WellFormed(After(T, Outcome))
    BY DEF ProgressIsResumable
  <2>1. Outcome \in Outcomes(T, limit) /\ Given
    BY <1>1 DEF LoopInv, LoopComputesOutcome
  <2>2. Resumable(After(T, Outcome))
    BY <2>1, GivenFacts, PruneIsGood DEF GoodOutcome
  <2>3. After(T, Outcome).n = T.n /\ After(T, Outcome).created = T.created
    BY DEF After
  <2> QED
    BY <2>1, <2>2, <2>3 DEF WellFormed, Given
<1> QED
  BY <1>1, LoopInit, LoopInvKept, PTL DEF PruneSpec

\* Nobody is reinstated.
StaysOut == \A i \in 0..(T.n - 1) : T.out[i] => out[i]

LEMMA StaysOutKept ==
  LoopInv /\ StaysOut /\ [PruneNext]_callVars => StaysOut'
<1> SUFFICES ASSUME LoopInv, StaysOut, [PruneNext]_callVars PROVE StaysOut'
  OBVIOUS
<1>1. T' = T /\ ((out' = out) \/ (\E i : out' = [out EXCEPT ![i] = TRUE]))
  BY DEF PruneNext, callVars, Stop, Enter, EliminateDuplicate, EliminateContender, SearchContender,
     StoreContender, EnterOpponents, PlayOpponent, FinishOpponents, EliminateChild, Revert
<1>2. out \in [0..(T.n - 1) -> BOOLEAN]
  BY DEF LoopInv, LocalsOK
<1> QED
  BY <1>1, <1>2 DEF StaysOut

\* With the step limit that resolve passes, a call that returns has settled a
\* tournament without a winner: the child it names is the sole survivor, or none survives.
THEOREM LoopsSettle ==
  PruneSpec => []ResolveLimitSettles
<1>1. ASSUME LoopInv, StaysOut PROVE ResolveLimitSettles
  <2> SUFFICES ASSUME pc = "done", ~T.settled, limit >= 2 * T.n
               PROVE  IF ret = NoChild
                      THEN \A i \in 0..(T.n - 1) : out[i]
                      ELSE /\ T.viable[ret] /\ ~out[ret] /\ ret = ci
                           /\ \A i \in 0..(T.n - 1) :
                                ~out[i] => \/ T.sig[i] = T.sig[ret]
                                           \/ i > ret /\ Late(T, ret, i)
    BY DEF ResolveLimitSettles
  <2>1. Outcome \in Outcomes(T, limit) /\ Given
    BY <1>1 DEF LoopInv, LoopComputesOutcome
  <2>2. PICK o \in Outcomes(T, limit) : o = Outcome
    BY <2>1
  <2>3. /\ o.ret = ret /\ o.ci = ci /\ o.elim = {i \in 0..(T.n - 1) : out[i] /\ ~T.out[i]}
    BY <2>2 DEF Outcome
  <2>4. /\ IsTournament(T) /\ Resumable(T) /\ ~T.settled /\ limit \in Nat
        /\ \A i, j \in 0..(T.n - 1) : i < j => T.created[i] <= T.created[j]
    BY <2>1, GivenFacts DEF Given, WellFormed
  <2>5. CASE ret = NoChild
    <3>1. \A i \in 0..(T.n - 1) : T.out[i] \/ i \in o.elim
      BY <2>3, <2>4, <2>5, ResolveEmptiesOrNames
    <3> QED
      BY <1>1, <2>3, <2>5, <3>1 DEF StaysOut
  <2>6. CASE ret # NoChild
    <3>1. o.ret = o.ci /\ o.ret \in 0..(T.n - 1) /\ Survives(T, o.ret)
      BY <2>3, <2>4, <2>6, ResolveNamesContender
    <3>2. /\ o.ret \notin o.elim
          /\ \A i \in 0..(T.n - 1) :
               \/ T.out[i] \/ i \in o.elim
               \/ T.sig[i] = T.sig[o.ret]
               \/ i > o.ret /\ Late(T, o.ret, i)
      BY <2>3, <2>4, <2>6, ResolveLeavesSoleSurvivor
    <3> QED
      BY <1>1, <2>3, <2>6, <3>1, <3>2 DEF Survives, StaysOut
  <2> QED
    BY <2>5, <2>6
<1>2. PruneInit => StaysOut
  BY DEF PruneInit, StaysOut
<1> QED
  BY <1>1, <1>2, LoopInit, LoopInvKept, StaysOutKept, PTL DEF PruneSpec
=============================================================================
