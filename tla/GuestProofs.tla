----------------------------- MODULE GuestProofs -----------------------------
(***************************************************************************)
(* What the proving program proves is derived, for whatever its hosts      *)
(* supply, however many proofs they stitch and in whichever order; the     *)
(* precondition that it proves holds, and that of a well formed proposal   *)
(* can be proven; what its oracle answers is what the keys commit to, and  *)
(* it serves every run that makes the recorded reads; and what the         *)
(* tournament makes of these proofs is true of the proposal.               *)
(***************************************************************************)
EXTENDS FaultProof, WitnessOracle, FiniteSetTheorems, WellFoundedInduction, TLAPS

(***************************************************************************)
(* Hashes and chains.                                                      *)
(***************************************************************************)

\* A hash that is accepted names the attributes, or the configuration, it is of.
LEMMA HashIsInjective ==
  ASSUME NEW a \in Attributes, NEW b \in Attributes, SafeDefault(a) # Unsafe,
         SafeDefault(a) = SafeDefault(b)
  PROVE  a = b
BY DEF SafeDefault, Attributes, Absent, Sentinel, Given, Unsafe

\* The next block of a chain.
LEMMA BuildExtends ==
  ASSUME NEW o \in AgreedRoots, NEW c \in Attributes, NEW k \in Nat
  PROVE  Build(ChainFrom(o, c, k), Derived(c)) = ChainFrom(o, c, k + 1)
<1>1. o.n \in Nat /\ Derived(c) \in {Absent, Given} /\ Derived(c) # "mix"
  BY DEF AgreedRoots, Derived, Absent, Given
<1>2. CASE k = 0
  BY <1>1, <1>2 DEF Build, ChainFrom, Root
<1>3. CASE k # 0
  <2>1. PICK a : a = Derived(c)
    OBVIOUS
  <2>2. PICK t : t = IF o.n = 0 \/ o.tag = a THEN a ELSE "mix"
    OBVIOUS
  <2>3. ChainFrom(o, c, k) = Root(o.n + k, t) /\ ChainFrom(o, c, k + 1) = Root(o.n + (k + 1), t)
    BY <1>3, <2>1, <2>2 DEF ChainFrom
  <2>4. o.n + k # 0 /\ (o.n + k) + 1 = o.n + (k + 1)
    BY <1>1, <1>3
  <2>5. Build(Root(o.n + k, t), a) = Root((o.n + k) + 1, IF t = a THEN a ELSE "mix")
    BY <2>4 DEF Build, Root
  <2>6. (IF t = a THEN a ELSE "mix") = t
    BY <2>2
  <2> QED
    BY <2>1, <2>3, <2>4, <2>5, <2>6
<1> QED
  BY <1>2, <1>3

\* Two stretches of a chain are one.
LEMMA ChainsCompose ==
  ASSUME NEW o \in AgreedRoots, NEW c \in Attributes, NEW k \in Nat, NEW m \in Nat
  PROVE  ChainFrom(ChainFrom(o, c, k), c, m) = ChainFrom(o, c, k + m)
<1>1. o.n \in Nat /\ Derived(c) # "mix"
  BY DEF AgreedRoots, Derived, Absent, Given
<1>2. CASE k = 0 \/ m = 0
  BY <1>2 DEF ChainFrom
<1>3. CASE k # 0 /\ m # 0
  <2>1. PICK a : a = Derived(c)
    OBVIOUS
  <2>2. PICK t : t = IF o.n = 0 \/ o.tag = a THEN a ELSE "mix"
    OBVIOUS
  <2>3. /\ ChainFrom(o, c, k) = Root(o.n + k, t)
        /\ ChainFrom(o, c, k + m) = Root(o.n + (k + m), t)
    BY <1>3, <2>1, <2>2 DEF ChainFrom
  <2>4. o.n + k # 0 /\ (o.n + k) + m = o.n + (k + m)
    BY <1>1, <1>3
  <2>5. ChainFrom(Root(o.n + k, t), c, m) = Root((o.n + k) + m, IF t = a THEN a ELSE "mix")
    BY <1>3, <2>1, <2>4 DEF ChainFrom, Root
  <2>6. (IF t = a THEN a ELSE "mix") = t
    BY <2>2
  <2> QED
    BY <2>3, <2>4, <2>5, <2>6
<1> QED
  BY <1>2, <1>3

\* A chain stays among the roots that can be agreed on, and counts its blocks.
LEMMA ChainType ==
  ASSUME NEW o \in AgreedRoots, NEW c \in Attributes, NEW k \in Nat
  PROVE  ChainFrom(o, c, k) \in AgreedRoots /\ ChainFrom(o, c, k).n = o.n + k
<1>1. o.n \in Nat /\ Derived(c) \in Tags
  BY DEF AgreedRoots, Derived, Tags, Attributes, Absent, Given
<1> QED
  BY <1>1 DEF ChainFrom, Root, AgreedRoots, Tags, Attributes

-----------------------------------------------------------------------------
(***************************************************************************)
(* Stitching.                                                              *)
(***************************************************************************)

LEMMA StitchBefore ==
  ASSUME NEW j, NEW b, IsDerived(j), IsDerived(b), b.config = j.config, b.l1 = j.l1, b.l1 \in Nat,
         b.agreed # b.claimed, b.claimed = j.agreed,
         NEW s, s.agreed = b.agreed, s.claimed = j.claimed, s.number = j.number,
         s.config = j.config, s.l1 = j.l1
  PROVE  IsDerived(s)
<1>1. /\ b.agreed \in AgreedRoots /\ j.agreed \in AgreedRoots /\ j.claimed \in AgreedRoots
      /\ b.agreed.n \in Nat /\ j.agreed.n \in Nat /\ j.claimed.n \in Nat
      /\ b.agreed.n <= j.agreed.n /\ j.agreed.n <= j.claimed.n
      /\ b.number = j.agreed.n /\ j.number = j.claimed.n
  BY DEF IsDerived, AgreedRoots
<1>2. ASSUME NEW c \in Attributes, ConfigHash(c) = j.config
      PROVE  j.claimed = ChainFrom(b.agreed, c, j.number - b.agreed.n)
  <2>1. PICK k \in Nat : k = j.agreed.n - b.agreed.n
    BY <1>1
  <2>2. PICK m \in Nat : m = j.number - j.agreed.n
    BY <1>1
  <2>3. j.claimed = ChainFrom(j.agreed, c, m) /\ j.agreed = ChainFrom(b.agreed, c, k)
    BY <1>1, <1>2, <2>1, <2>2 DEF IsDerived
  <2>4. j.number - b.agreed.n = k + m
    BY <1>1, <2>1, <2>2
  <2> QED
    BY <1>1, <2>3, <2>4, ChainsCompose
<1>3. j.number <= j.l1
  BY <1>1 DEF IsDerived
<1> QED
  BY <1>1, <1>2, <1>3 DEF IsDerived

LEMMA StitchAfter ==
  ASSUME NEW j, NEW b, IsDerived(j), IsDerived(b), b.config = j.config, b.l1 = j.l1,
         b.agreed # b.claimed, b.agreed = j.claimed,
         NEW s, s.agreed = j.agreed, s.claimed = b.claimed, s.number = b.number,
         s.config = j.config, s.l1 = j.l1
  PROVE  IsDerived(s)
<1>1. /\ b.agreed \in AgreedRoots /\ j.agreed \in AgreedRoots /\ b.claimed \in AgreedRoots
      /\ b.agreed.n \in Nat /\ j.agreed.n \in Nat /\ b.claimed.n \in Nat
      /\ j.agreed.n <= b.agreed.n /\ b.agreed.n <= b.claimed.n
      /\ j.number = b.agreed.n /\ b.number = b.claimed.n
  BY DEF IsDerived, AgreedRoots
<1>2. ASSUME NEW c \in Attributes, ConfigHash(c) = j.config
      PROVE  b.claimed = ChainFrom(j.agreed, c, b.number - j.agreed.n)
  <2>1. PICK k \in Nat : k = j.number - j.agreed.n
    BY <1>1
  <2>2. PICK m \in Nat : m = b.number - b.agreed.n
    BY <1>1
  <2>3. b.claimed = ChainFrom(b.agreed, c, m) /\ b.agreed = ChainFrom(j.agreed, c, k)
    BY <1>1, <1>2, <2>1, <2>2 DEF IsDerived
  <2>4. b.number - j.agreed.n = k + m
    BY <1>1, <2>1, <2>2
  <2> QED
    BY <1>1, <2>3, <2>4, ChainsCompose
<1>3. b.number <= b.l1
  BY <1>1 DEF IsDerived
<1> QED
  BY <1>1, <1>2, <1>3 DEF IsDerived

-----------------------------------------------------------------------------
(***************************************************************************)
(* Cached executions.                                                      *)
(***************************************************************************)

\* A trace that is proven was executed.
LEMMA TraceIsExecuted ==
  ASSUME ClientInv, NEW trace \in Seq(ExecutionRecords), TraceIsProven(trace)
  PROVE  \A i \in DOMAIN trace : trace[i].header = Build(trace[i].agreed, trace[i].attributes)
<1> TAKE i \in DOMAIN trace
<1>1. PICK j \in proven : j.l1 = NoHead /\ j.precondition = ExecPrecondition(trace)
  BY DEF TraceIsProven, IsProven, Journal
<1>2. IsReplayed(ExecPrecondition(trace))
  BY <1>1 DEF ClientInv, IsGood
<1>3. PICK e \in ExecutionRecords : e = trace[i]
  OBVIOUS
<1>4. /\ i \in DOMAIN ExecPrecondition(trace)
      /\ ExecPrecondition(trace)[i]
           = <<e.agreed, AttributesHash(e.attributes), e.header, e.claimed>>
  BY <1>3 DEF ExecPrecondition
<1>5. PICK a \in Attributes :
        LET o == ExecPrecondition(trace)[i][1] IN
        /\ AttributesHash(a) # Unsafe
        /\ ExecPrecondition(trace)[i] = <<o, AttributesHash(a), Build(o, a), Build(o, a)>>
  BY <1>2, <1>4 DEF IsReplayed
<1>6. AttributesHash(e.attributes) = AttributesHash(a) /\ e.header = Build(e.agreed, a)
  BY <1>4, <1>5
<1>7. e.attributes = a
  BY <1>3, <1>5, <1>6, HashIsInjective DEF AttributesHash, ExecutionRecords
<1> QED
  BY <1>3, <1>6, <1>7

\* The traces cover the cache.
LEMMA SplitsCover ==
  ASSUME NEW s \in Seq(ExecutionRecords), NEW traces \in Splits(s)
  PROVE  /\ \A k \in DOMAIN traces : traces[k] \in Seq(ExecutionRecords)
         /\ \A i \in DOMAIN s : \E k \in DOMAIN traces : \E m \in DOMAIN traces[k] :
              s[i] = traces[k][m]
<1>1. CASE s = <<>> /\ traces = <<>>
  BY <1>1
<1>2. CASE traces = <<s>>
  BY <1>2
<1>3. ASSUME NEW n \in 1..(Len(s) - 1), traces = <<SubSeq(s, 1, n), SubSeq(s, n + 1, Len(s))>>
      PROVE  /\ \A k \in DOMAIN traces : traces[k] \in Seq(ExecutionRecords)
             /\ \A i \in DOMAIN s : \E k \in DOMAIN traces : \E m \in DOMAIN traces[k] :
                  s[i] = traces[k][m]
  <2>1. Len(s) \in Nat /\ DOMAIN s = 1..Len(s) /\ n \in Nat /\ n + 1 <= Len(s)
    BY <1>3
  <2>2. PICK u, v : u = SubSeq(s, 1, n) /\ v = SubSeq(s, n + 1, Len(s))
    OBVIOUS
  <2>3. /\ u \in Seq(ExecutionRecords) /\ Len(u) = n /\ \A m \in 1..n : u[m] = s[m]
    BY <2>1, <2>2
  <2>4. /\ v \in Seq(ExecutionRecords) /\ Len(v) = Len(s) - n
        /\ \A m \in 1..(Len(s) - n) : v[m] = s[n + m]
    BY <2>1, <2>2
  <2>5. traces[1] = u /\ traces[2] = v /\ DOMAIN traces = {1, 2}
    BY <1>3, <2>2
  <2>6. ASSUME NEW i \in DOMAIN s
        PROVE  \E k \in DOMAIN traces : \E m \in DOMAIN traces[k] : s[i] = traces[k][m]
    <3>1. CASE i <= n
      <4>1. i \in 1..n /\ i \in DOMAIN u /\ u[i] = s[i]
        BY <2>1, <2>3, <2>6, <3>1
      <4> QED
        BY <2>5, <4>1
    <3>2. CASE i > n
      <4>1. PICK m \in 1..(Len(s) - n) : n + m = i
        <5>1. i - n \in 1..(Len(s) - n) /\ n + (i - n) = i
          BY <2>1, <2>6, <3>2
        <5> QED
          BY <5>1
      <4>2. m \in DOMAIN v /\ v[m] = s[i]
        BY <2>4, <4>1
      <4> QED
        BY <2>5, <4>2
    <3> QED
      BY <2>1, <2>6, <3>1, <3>2
  <2> QED
    BY <2>3, <2>4, <2>5, <2>6
<1> QED
  BY <1>1, <1>2, <1>3 DEF Splits

LEMMA ProvenTracesAreTrusted ==
  ASSUME ClientInv, run.cache \in Seq(ExecutionRecords), NEW traces \in Splits(run.cache),
         \A k \in DOMAIN traces : TraceIsProven(traces[k])
  PROVE  Trusted(run)
<1>1. \A k \in DOMAIN traces : traces[k] \in Seq(ExecutionRecords)
  BY SplitsCover
<1>2. \A i \in DOMAIN run.cache : \E k \in DOMAIN traces : \E m \in DOMAIN traces[k] :
        run.cache[i] = traces[k][m]
  BY SplitsCover
<1>3. \A k \in DOMAIN traces : \A m \in DOMAIN traces[k] :
        traces[k][m].header = Build(traces[k][m].agreed, traces[k][m].attributes)
  BY <1>1, TraceIsExecuted
<1> QED
  BY <1>2, <1>3 DEF Trusted

-----------------------------------------------------------------------------
(***************************************************************************)
(* The steps of a run.                                                     *)
(***************************************************************************)

LEMMA BootRuns ==
  ASSUME ClientInv, NEW b \in host.boots, Boot(b)
  PROVE  run' = Idle \/ IsRun(run')
<1>1. b \in BootRecords
  BY HostsAssumption DEF ClientInv
<1>2. CASE b.number < b.agreed.n
  BY <1>2 DEF Boot, Panic
<1>3. CASE ~(b.number < b.agreed.n)
  <2>1. PICK r : r = run'
    OBVIOUS
  <2>2. r = [pc |-> IF b.l1 = NoHead THEN "execute" ELSE "load", boot |-> b,
             latest |-> b.agreed, roots |-> <<>>, cache |-> <<>>,
             precondition |-> NoProposal, journal |-> Idle]
    BY <1>3, <2>1 DEF Boot
  <2>3. b.agreed \in AgreedRoots /\ b.number \in Nat /\ b.agreed.n \in Nat
    BY <1>1 DEF BootRecords, AgreedRoots
  <2>4. b.agreed \in OutputRoots
    BY <2>3 DEF AgreedRoots, OutputRoots
  <2>5. RunTypes(r)
    BY <1>1, <1>3, <2>2, <2>3, <2>4 DEF RunTypes
  <2>6. Claiming(r)
    BY <2>2 DEF Claiming
  <2>7. b.l1 = NoHead => Executing(r)
    BY <2>2 DEF Executing
  <2>8. b.l1 # NoHead => Deriving(r)
    BY <2>2, <2>3 DEF Deriving, ChainFrom
  <2> QED
    BY <2>1, <2>2, <2>5, <2>6, <2>7, <2>8 DEF IsRun
<1> QED
  BY <1>2, <1>3

LEMMA RunFacts ==
  ASSUME ClientInv, run.pc # "idle"
  PROVE  IsRun(run) /\ RunTypes(run) /\ Claiming(run)
BY DEF ClientInv, Idle, IsRun

LEMMA ExecuteRuns ==
  ASSUME ClientInv, run.pc = "execute", NEW a \in host.attributes,
         NEW e \in Executions(run.latest, a), Execute(e)
  PROVE  run' = Idle \/ IsRun(run')
<1>1. IsRun(run) /\ RunTypes(run)
  BY RunFacts
<1>2. CASE run' = Idle
  BY <1>2
<1>3. CASE run' # Idle
  <2>1. PICK r, o : r = run' /\ o = Build(run.latest, e.attributes)
    OBVIOUS
  <2>2. /\ r = [run EXCEPT !.cache = Append(run.cache, e), !.latest = e.header]
        /\ e.agreed = run.latest /\ AttributesHash(e.attributes) # Unsafe
        /\ e.header = o /\ e.claimed = o
    BY <1>3, <2>1 DEF Execute, Panic, SameOutcome
  <2>3. a \in Attributes
    BY HostsAssumption DEF ClientInv
  <2>4. run.latest \in OutputRoots /\ run.cache \in Seq(ExecutionRecords)
    BY <1>1 DEF RunTypes
  <2>5. e \in ExecutionRecords
    <3>1. Guesses(run.latest) \subseteq OutputRoots
      BY <2>4 DEF Guesses, OutputRoots, Root
    <3> QED
      BY <2>3, <2>4, <3>1 DEF Executions, Execution, ExecutionRecords
  <2>6. r = [pc |-> "execute", boot |-> run.boot, latest |-> e.header, roots |-> run.roots,
             cache |-> Append(run.cache, e), precondition |-> run.precondition,
             journal |-> run.journal]
    BY <1>1, <2>2 DEF RunTypes
  <2>7. Append(run.cache, e) \in Seq(ExecutionRecords) /\ e.header \in OutputRoots
    BY <2>4, <2>5 DEF ExecutionRecords
  <2>8. RunTypes(r) /\ Claiming(r)
    BY <1>1, <2>6, <2>7 DEF RunTypes, Claiming
  <2>9. run.boot.l1 = NoHead /\ Executing(run)
    BY <1>1 DEF IsRun, Deriving
  <2>10. ASSUME NEW i \in DOMAIN r.cache
         PROVE  /\ AttributesHash(r.cache[i].attributes) # Unsafe
                /\ r.cache[i].header = Build(r.cache[i].agreed, r.cache[i].attributes)
                /\ r.cache[i].claimed = r.cache[i].header
    <3>1. r.cache = Append(run.cache, e)
      BY <2>6
    <3>2. CASE i = Len(run.cache) + 1
      <4>1. r.cache[i] = e
        BY <2>4, <3>1, <3>2
      <4> QED
        BY <2>1, <2>2, <4>1
    <3>3. CASE i # Len(run.cache) + 1
      <4>1. i \in DOMAIN run.cache /\ r.cache[i] = run.cache[i]
        BY <2>4, <2>5, <2>10, <3>1, <3>3
      <4> QED
        BY <2>9, <4>1 DEF Executing
    <3> QED
      BY <3>2, <3>3
  <2>11. Executing(r)
    BY <2>6, <2>10 DEF Executing
  <2> QED
    BY <2>1, <2>6, <2>8, <2>9, <2>11 DEF IsRun
<1> QED
  BY <1>2, <1>3

LEMMA ExecutedRuns ==
  ASSUME ClientInv, Executed
  PROVE  run' = Idle \/ IsRun(run')
<1>1. IsRun(run) /\ RunTypes(run) /\ run.pc = "execute"
  BY RunFacts DEF Executed
<1>2. CASE run' = Idle
  BY <1>2
<1>3. CASE run' # Idle
  <2>1. PICK r : r = run'
    OBVIOUS
  <2>2. r = [run EXCEPT !.pc = "claim", !.precondition = ExecPrecondition(run.cache)]
    BY <1>3, <2>1 DEF Executed, Panic
  <2>3. r = [pc |-> "claim", boot |-> run.boot, latest |-> run.latest, roots |-> run.roots,
             cache |-> run.cache, precondition |-> ExecPrecondition(run.cache),
             journal |-> run.journal]
    BY <1>1, <2>2 DEF RunTypes
  <2>4. RunTypes(r) /\ Claiming(r)
    BY <1>1, <2>3 DEF RunTypes, Claiming
  <2>5. run.boot.l1 = NoHead /\ Executing(run)
    BY <1>1 DEF IsRun, Deriving
  <2>6. IsReplayed(ExecPrecondition(run.cache))
    <3> SUFFICES ASSUME NEW i \in DOMAIN run.cache
                 PROVE  \E a \in Attributes : LET o == ExecPrecondition(run.cache)[i][1] IN
                          /\ AttributesHash(a) # Unsafe
                          /\ ExecPrecondition(run.cache)[i]
                               = <<o, AttributesHash(a), Build(o, a), Build(o, a)>>
      BY DEF IsReplayed, ExecPrecondition
    <3>1. PICK e \in ExecutionRecords : e = run.cache[i]
      BY <1>1 DEF RunTypes
    <3>2. /\ AttributesHash(e.attributes) # Unsafe /\ e.attributes \in Attributes
          /\ e.header = Build(e.agreed, e.attributes) /\ e.claimed = e.header
      BY <1>1, <2>5, <3>1 DEF Executing, ExecutionRecords
    <3>3. ExecPrecondition(run.cache)[i]
            = <<e.agreed, AttributesHash(e.attributes), e.header, e.claimed>>
      BY <3>1 DEF ExecPrecondition
    <3> QED
      BY <3>2, <3>3
  <2>7. Executing(r)
    BY <2>3, <2>6 DEF Executing
  <2> QED
    BY <2>1, <2>3, <2>4, <2>5, <2>7 DEF IsRun
<1> QED
  BY <1>2, <1>3

\* The steps that only move a deriving run on.
LEMMA AdvanceRuns ==
  ASSUME ClientInv, (\E blobs : LoadPrecondition(blobs)) \/ Epilogue
  PROVE  run' = Idle \/ IsRun(run')
<1>1. IsRun(run) /\ RunTypes(run) /\ run.pc \in {"load", "derive"}
  BY RunFacts DEF LoadPrecondition, Epilogue
<1>2. CASE run' = Idle
  BY <1>2
<1>3. CASE run' # Idle
  <2>1. PICK r : r = run'
    OBVIOUS
  <2>2. \/ r = [run EXCEPT !.pc = "derive", !.precondition = host.proposal]
        \/ r = [run EXCEPT !.pc = "claim"]
    BY <1>3, <2>1 DEF LoadPrecondition, Epilogue, Panic, Go
  <2>3. /\ r = [pc |-> r.pc, boot |-> run.boot, latest |-> run.latest, roots |-> run.roots,
                cache |-> run.cache, precondition |-> r.precondition, journal |-> run.journal]
        /\ r.pc = "derive" \/ r.pc = "claim"
    BY <1>1, <2>2 DEF RunTypes
  <2>4. RunTypes(r) /\ Claiming(r)
    BY <1>1, <2>3 DEF RunTypes, Claiming
  <2>5. run.boot.l1 = NoHead => Executing(r)
    BY <1>1 DEF IsRun, Executing
  <2>6. run.boot.l1 # NoHead => Deriving(r)
    BY <1>1, <2>3 DEF IsRun, Deriving, Trusted
  <2> QED
    BY <2>1, <2>3, <2>4, <2>5, <2>6 DEF IsRun
<1> QED
  BY <1>2, <1>3

\* A block is derived, and executed or taken from the cache: r has one more root.
LEMMA DerivedRuns ==
  ASSUME ClientInv, CanDerive, NEW o \in OutputRoots, o.n = run.latest.n + 1,
         NEW r, r = [pc |-> "derive", boot |-> run.boot, latest |-> o,
                     roots |-> Append(run.roots, o), cache |-> r.cache,
                     precondition |-> run.precondition, journal |-> run.journal],
         r.cache \in Seq(ExecutionRecords),
         Trusted(r) => Trusted(run) /\ o = Build(run.latest, Derived(run.boot.config))
  PROVE  IsRun(r)
<1>1. /\ IsRun(run) /\ RunTypes(run) /\ run.pc = "derive" /\ run.latest.n < run.boot.l1
      /\ run.boot.l1 # NoHead
  BY RunFacts DEF CanDerive, IsRun, Executing
<1>2. Deriving(run)
  BY <1>1 DEF IsRun
<1>3. /\ run.boot.agreed \in AgreedRoots /\ run.boot.config \in Attributes
      /\ run.boot.agreed.n \in Nat /\ run.boot.l1 \in Nat /\ run.boot.number \in Nat
  BY <1>1 DEF RunTypes, BootRecords, AgreedRoots
<1>4. PICK k \in Nat : k = Len(run.roots)
  BY <1>1, SMTT(30) DEF RunTypes
<1>5. Append(run.roots, o) \in Seq(OutputRoots) /\ Len(Append(run.roots, o)) = k + 1
  BY <1>1, <1>4 DEF RunTypes
<1>6. RunTypes(r) /\ Claiming(r)
  <2>1. /\ r.pc = "derive" /\ r.boot = run.boot /\ r.latest = o /\ r.roots = Append(run.roots, o)
        /\ r.precondition = run.precondition /\ r.journal = run.journal
    OBVIOUS
  <2> QED
    BY <1>1, <1>5, <2>1 DEF RunTypes, Claiming
<1>7. run.latest.n = run.boot.agreed.n + k
  BY <1>2, <1>4 DEF Deriving
<1>8. o.n = run.boot.agreed.n + (k + 1) /\ o.n <= run.boot.l1
  <2>1. PICK A \in Nat, L \in Nat : A = run.boot.agreed.n /\ L = run.boot.l1
    BY <1>3
  <2>2. o.n = (A + k) + 1 /\ A + k < L
    BY <1>1, <1>7, <2>1
  <2>3. (A + k) + 1 = A + (k + 1) /\ (A + k) + 1 <= L
    BY <2>2
  <2> QED
    BY <2>1, <2>2, <2>3
<1>9. Trusted(r) => o = ChainFrom(run.boot.agreed, run.boot.config, k + 1)
  <2> SUFFICES ASSUME Trusted(r) PROVE o = ChainFrom(run.boot.agreed, run.boot.config, k + 1)
    OBVIOUS
  <2>1. run.latest = ChainFrom(run.boot.agreed, run.boot.config, k)
    BY <1>2, <1>4 DEF Deriving
  <2> QED
    BY <1>3, <2>1, BuildExtends
<1>10. Deriving(r)
  <2>1. /\ r.pc = "derive" /\ r.boot = run.boot /\ r.latest = o /\ Len(r.roots) = k + 1
    BY <1>5
  <2> QED
    BY <1>8, <1>9, <2>1 DEF Deriving
<1> QED
  BY <1>1, <1>6, <1>10 DEF IsRun

LEMMA DeriveRuns ==
  ASSUME ClientInv, Derive
  PROVE  IsRun(run')
<1>1. RunTypes(run) /\ CanDerive /\ run.pc = "derive"
  BY RunFacts DEF Derive, CanDerive
<1>2. PICK r, o : r = run' /\ o = Build(run.latest, Derived(run.boot.config))
  OBVIOUS
<1>3. r = [run EXCEPT !.latest = o, !.roots = Append(run.roots, o)]
  BY <1>2 DEF Derive
<1>4. r = [pc |-> "derive", boot |-> run.boot, latest |-> o, roots |-> Append(run.roots, o),
           cache |-> run.cache, precondition |-> run.precondition, journal |-> run.journal]
  BY <1>1, <1>3 DEF RunTypes
<1>5. r.cache = run.cache
  BY <1>4
<1>6. run.latest \in OutputRoots /\ Derived(run.boot.config) \in Tags
  BY <1>1 DEF RunTypes, Derived, Tags, Attributes
<1>7. o \in OutputRoots /\ o.n = run.latest.n + 1
  BY <1>2, <1>6 DEF OutputRoots, Build, Root, Tags
<1>8. Trusted(r) => Trusted(run)
  BY <1>5 DEF Trusted
<1>9. r.cache \in Seq(ExecutionRecords)
  BY <1>1, <1>5 DEF RunTypes
<1> QED
  BY <1>1, <1>2, <1>4, <1>5, <1>7, <1>8, <1>9, DerivedRuns

LEMMA DeriveCachedRuns ==
  ASSUME ClientInv, NEW e \in Executions(run.latest, Derived(run.boot.config)), DeriveCached(e)
  PROVE  IsRun(run')
<1>1. RunTypes(run) /\ CanDerive /\ run.pc = "derive"
  BY RunFacts DEF DeriveCached, CanDerive
<1>2. PICK r : r = run'
  OBVIOUS
<1>3. /\ r = [run EXCEPT !.latest = e.header, !.roots = Append(run.roots, e.header),
                         !.cache = Append(run.cache, e)]
      /\ e.agreed = run.latest /\ e.attributes = Derived(run.boot.config)
  BY <1>2 DEF DeriveCached
<1>4. r = [pc |-> "derive", boot |-> run.boot, latest |-> e.header,
           roots |-> Append(run.roots, e.header), cache |-> Append(run.cache, e),
           precondition |-> run.precondition, journal |-> run.journal]
  BY <1>1, <1>3 DEF RunTypes
<1>5. r.cache = Append(run.cache, e)
  BY <1>4
<1>6. run.latest \in OutputRoots /\ run.cache \in Seq(ExecutionRecords)
  BY <1>1 DEF RunTypes
<1>7. e \in ExecutionRecords /\ e.header \in OutputRoots /\ e.header.n = run.latest.n + 1
  <2>1. Guesses(run.latest) \subseteq OutputRoots
    BY <1>6 DEF Guesses, OutputRoots, Root
  <2>2. e.header \in Guesses(run.latest) /\ \A g \in Guesses(run.latest) : g.n = run.latest.n + 1
    BY DEF Executions, Execution, Guesses, Root
  <2>3. Derived(run.boot.config) \in Attributes
    BY DEF Derived, Attributes
  <2> QED
    BY <1>6, <2>1, <2>2, <2>3 DEF Executions, Execution, ExecutionRecords
<1>8. r.cache \in Seq(ExecutionRecords)
  BY <1>5, <1>6, <1>7
<1>9. ASSUME Trusted(r)
      PROVE  Trusted(run) /\ e.header = Build(run.latest, Derived(run.boot.config))
  <2>1. PICK n \in Nat : n = Len(run.cache)
    BY <1>6
  <2>2. n + 1 \in DOMAIN r.cache /\ r.cache[n + 1] = e
    BY <1>5, <1>6, <1>7, <2>1
  <2>3. \A i \in DOMAIN run.cache : i \in DOMAIN r.cache /\ r.cache[i] = run.cache[i]
    BY <1>5, <1>6, <1>7
  <2> QED
    BY <1>3, <1>9, <2>2, <2>3 DEF Trusted
<1> QED
  BY <1>1, <1>2, <1>4, <1>5, <1>7, <1>8, <1>9, DerivedRuns

\* What the run computed is what derivation gives, if the cache can be relied on.
LEMMA ClaimIsDerived ==
  ASSUME RunTypes(run), Deriving(run), Trusted(run), run.latest.n = run.boot.number,
         ConfigHash(run.boot.config) # Unsafe, NEW j,
         j.l1 = run.boot.l1, j.agreed = run.boot.agreed, j.claimed = run.latest,
         j.number = run.boot.number, j.config = ConfigHash(run.boot.config)
  PROVE  IsDerived(j)
<1>1. /\ run.boot.agreed \in AgreedRoots /\ run.boot.config \in Attributes
      /\ run.boot.agreed.n \in Nat /\ run.boot.l1 \in Nat /\ run.boot.number \in Nat
  BY DEF RunTypes, BootRecords, AgreedRoots
<1>2. PICK k \in Nat : k = Len(run.roots)
  BY DEF RunTypes
<1>3. PICK A \in Nat, N \in Nat : A = run.boot.agreed.n /\ N = run.boot.number
  BY <1>1
<1>4. N = A + k /\ run.latest.n = N
  BY <1>2, <1>3 DEF Deriving
<1>5. N - A = k /\ A <= N
  BY <1>4
<1>6. run.latest = ChainFrom(run.boot.agreed, run.boot.config, k)
  BY <1>2 DEF Deriving
<1>7. run.latest \in AgreedRoots
  BY <1>1, <1>6, ChainType
<1>8. ASSUME NEW c \in Attributes, ConfigHash(c) = j.config
      PROVE  j.claimed = ChainFrom(j.agreed, c, j.number - j.agreed.n)
  <2>1. c = run.boot.config
    BY <1>1, <1>8, HashIsInjective DEF ConfigHash
  <2> QED
    BY <1>3, <1>5, <1>6, <2>1
<1>9. j.claimed # j.agreed => j.number <= j.l1
  <2>1. k = 0 => run.latest = run.boot.agreed
    BY <1>6 DEF ChainFrom
  <2>2. k # 0 => run.roots # <<>>
    BY <1>2
  <2> QED
    BY <1>3, <1>4, <2>1, <2>2 DEF Deriving
<1> QED
  BY <1>1, <1>3, <1>4, <1>5, <1>7, <1>8, <1>9 DEF IsDerived

LEMMA ClaimRuns ==
  ASSUME ClientInv, NEW claimed, Claim(claimed)
  PROVE  run' = Idle \/ IsRun(run')
<1>1. IsRun(run) /\ RunTypes(run) /\ run.pc = "claim"
  BY RunFacts DEF Claim
<1>2. CASE run' = Idle
  BY <1>2
<1>3. CASE run' # Idle
  <2>1. PICK r, j : /\ r = run'
                    /\ j = Journal(run.precondition, run.boot.l1, run.boot.agreed, claimed,
                                   run.boot.number, run.boot.config)
    OBVIOUS
  <2>2. /\ r = [run EXCEPT !.pc = "traces", !.journal = j]
        /\ claimed = IF run.latest.n = run.boot.number THEN run.latest ELSE Zero
        /\ ConfigHash(run.boot.config) # Unsafe
    BY <1>3, <2>1 DEF Claim, Panic
  <2>3. r = [pc |-> "traces", boot |-> run.boot, latest |-> run.latest, roots |-> run.roots,
             cache |-> run.cache, precondition |-> run.precondition, journal |-> j]
    BY <1>1, <2>2 DEF RunTypes
  <2>4. /\ IsJournal(j) /\ j.l1 = run.boot.l1 /\ j.agreed = run.boot.agreed
        /\ j.claimed = claimed /\ j.number = run.boot.number
        /\ j.config = ConfigHash(run.boot.config) /\ j.precondition = run.precondition
    BY <2>1 DEF Journal, IsJournal
  <2>5. RunTypes(r)
    BY <1>1, <2>3 DEF RunTypes
  <2>6. CASE run.boot.l1 = NoHead
    <3>1. IsReplayed(run.precondition)
      BY <1>1, <2>6 DEF IsRun, Executing
    <3>2. IsGood(j)
      BY <2>4, <2>6, <3>1 DEF IsGood
    <3>3. Claiming(r) /\ Executing(r)
      BY <2>3, <2>4, <3>1, <3>2 DEF Claiming, Executing
    <3> QED
      BY <2>1, <2>3, <2>5, <2>6, <3>3 DEF IsRun
  <2>7. CASE run.boot.l1 # NoHead
    <3>1. Deriving(run)
      BY <1>1, <2>7 DEF IsRun
    <3>2. Trusted(r) = Trusted(run)
      BY <2>3 DEF Trusted
    <3>3. ASSUME Trusted(run), claimed # Zero
          PROVE  IsGood(j)
      <4>1. claimed = run.latest /\ run.latest.n = run.boot.number
        BY <2>2, <3>3
      <4>2. IsDerived(j)
        BY <1>1, <2>2, <2>4, <3>1, <3>3, <4>1, ClaimIsDerived
      <4> QED
        BY <2>4, <2>7, <4>2 DEF IsGood
    <3>4. Claiming(r)
      BY <2>3, <2>4, <2>7, <3>2, <3>3 DEF Claiming
    <3>5. Deriving(r)
      BY <2>3, <3>1, <3>2 DEF Deriving
    <3> QED
      BY <2>1, <2>3, <2>5, <2>7, <3>4, <3>5 DEF IsRun
  <2> QED
    BY <2>6, <2>7
<1> QED
  BY <1>2, <1>3

\* Once all its cached executions are proven the run can rely on them.
LEMMA StitchExecutionsRuns ==
  ASSUME ClientInv, NEW traces \in Splits(run.cache), StitchExecutions(traces)
  PROVE  run' = Idle \/ IsRun(run')
<1>1. IsRun(run) /\ RunTypes(run) /\ Claiming(run) /\ run.pc = "traces"
  BY RunFacts DEF StitchExecutions
<1>2. CASE run' = Idle
  BY <1>2
<1>3. CASE run' # Idle
  <2>1. PICK r : r = run'
    OBVIOUS
  <2>2. /\ r = [run EXCEPT !.pc = "boots"]
        /\ run.boot.l1 # NoHead => \A k \in DOMAIN traces : TraceIsProven(traces[k])
    BY <1>3, <2>1 DEF StitchExecutions, Panic, Go
  <2>3. r = [pc |-> "boots", boot |-> run.boot, latest |-> run.latest, roots |-> run.roots,
             cache |-> run.cache, precondition |-> run.precondition, journal |-> run.journal]
    BY <1>1, <2>2 DEF RunTypes
  <2>4. RunTypes(r)
    BY <1>1, <2>3 DEF RunTypes
  <2>5. run.boot.l1 # NoHead => Trusted(run)
    BY <1>1, <2>2, ProvenTracesAreTrusted DEF RunTypes
  <2>6. run.boot.l1 = NoHead => IsGood(run.journal)
    BY <1>1 DEF Claiming, IsGood, IsRun, Executing
  <2>7. Claiming(r)
    BY <1>1, <2>3, <2>5, <2>6 DEF Claiming
  <2>8. run.boot.l1 = NoHead => Executing(r)
    BY <1>1, <2>3 DEF IsRun, Executing
  <2>9. run.boot.l1 # NoHead => Deriving(r)
    BY <1>1, <2>3 DEF IsRun, Deriving, Trusted
  <2> QED
    BY <2>1, <2>3, <2>4, <2>7, <2>8, <2>9 DEF IsRun
<1> QED
  BY <1>2, <1>3

\* Journal s is journal j with proven journal p stitched before or after it.
IsStitched(j, p, s) ==
  /\ p.l1 = j.l1 /\ p.config = j.config /\ p.precondition = j.precondition
  /\ p.agreed # p.claimed
  /\ IsJournal(s) /\ s.l1 = j.l1 /\ s.precondition = j.precondition /\ s.config = j.config
  /\ \/ /\ p.claimed = j.agreed /\ s.agreed = p.agreed
        /\ s.claimed = j.claimed /\ s.number = j.number
     \/ /\ p.agreed = j.claimed /\ s.agreed = j.agreed
        /\ s.claimed = p.claimed /\ s.number = p.number

WithJournal(s) ==
  [pc |-> "boots", boot |-> run.boot, latest |-> run.latest, roots |-> run.roots,
   cache |-> run.cache, precondition |-> run.precondition, journal |-> s]

LEMMA StitchBootStep ==
  ASSUME ClientInv, NEW b, StitchBoot(b), run' # Idle
  PROVE  \E p \in proven : \E s : IsStitched(run.journal, p, s) /\ run' = WithJournal(s)
<1>1. IsRun(run) /\ RunTypes(run) /\ Claiming(run) /\ run.pc = "boots"
  BY RunFacts DEF StitchBoot
<1>2. PICK r, j : r = run' /\ j = run.journal
  OBVIOUS
<1>3. IsJournal(j)
  BY <1>1, <1>2 DEF Claiming
<1>4. /\ Stitchable(j, b)
      /\ \/ b.claimed = j.agreed /\ r = [run EXCEPT !.journal.agreed = b.agreed]
         \/ /\ b.agreed = j.claimed
            /\ r = [run EXCEPT !.journal.claimed = b.claimed, !.journal.number = b.number]
  BY <1>2 DEF StitchBoot, Panic
<1>5. PICK p \in proven : p = [j EXCEPT !.l1 = b.l1, !.agreed = b.agreed, !.claimed = b.claimed,
                                       !.number = b.number]
  BY <1>4 DEF Stitchable, IsProven
<1>6. /\ p.l1 = j.l1 /\ p.agreed = b.agreed /\ p.claimed = b.claimed /\ p.number = b.number
      /\ p.config = j.config /\ p.precondition = j.precondition /\ b.agreed # b.claimed
  <2>1. p = [precondition |-> j.precondition, l1 |-> b.l1, agreed |-> b.agreed,
             claimed |-> b.claimed, number |-> b.number, config |-> j.config]
    BY <1>3, <1>5 DEF IsJournal
  <2>2. b.l1 = j.l1 /\ b.agreed # b.claimed
    BY <1>4 DEF Stitchable
  <2> QED
    BY <2>1, <2>2
<1>7. PICK s :
        /\ r = [pc |-> "boots", boot |-> run.boot, latest |-> run.latest, roots |-> run.roots,
                cache |-> run.cache, precondition |-> run.precondition, journal |-> s]
        /\ IsJournal(s) /\ s.l1 = j.l1 /\ s.precondition = j.precondition /\ s.config = j.config
        /\ \/ /\ b.claimed = j.agreed /\ s.agreed = b.agreed
              /\ s.claimed = j.claimed /\ s.number = j.number
           \/ /\ b.agreed = j.claimed /\ s.agreed = j.agreed
              /\ s.claimed = b.claimed /\ s.number = b.number
  <2>1. CASE b.claimed = j.agreed /\ r = [run EXCEPT !.journal.agreed = b.agreed]
    <3>1. PICK s : s = [precondition |-> j.precondition, l1 |-> j.l1, agreed |-> b.agreed,
                        claimed |-> j.claimed, number |-> j.number, config |-> j.config]
      OBVIOUS
    <3>2. s = [run.journal EXCEPT !.agreed = b.agreed]
      BY <1>2, <1>3, <3>1 DEF IsJournal
    <3>3. r = [pc |-> "boots", boot |-> run.boot, latest |-> run.latest, roots |-> run.roots,
               cache |-> run.cache, precondition |-> run.precondition, journal |-> s]
      BY <1>1, <2>1, <3>2 DEF RunTypes
    <3>4. /\ IsJournal(s) /\ s.l1 = j.l1 /\ s.precondition = j.precondition
          /\ s.config = j.config /\ s.agreed = b.agreed /\ s.claimed = j.claimed /\ s.number = j.number
      BY <3>1 DEF IsJournal
    <3> QED
      BY <2>1, <3>3, <3>4
  <2>2. CASE /\ b.agreed = j.claimed
             /\ r = [run EXCEPT !.journal.claimed = b.claimed, !.journal.number = b.number]
    <3>1. PICK s : s = [precondition |-> j.precondition, l1 |-> j.l1, agreed |-> j.agreed,
                        claimed |-> b.claimed, number |-> b.number, config |-> j.config]
      OBVIOUS
    <3>2. s = [[run.journal EXCEPT !.claimed = b.claimed] EXCEPT !.number = b.number]
      <4>1. PICK u : u = [precondition |-> j.precondition, l1 |-> j.l1, agreed |-> j.agreed,
                          claimed |-> b.claimed, number |-> j.number, config |-> j.config]
        OBVIOUS
      <4>2. u = [run.journal EXCEPT !.claimed = b.claimed]
        BY <1>2, <1>3, <4>1 DEF IsJournal
      <4>3. s = [u EXCEPT !.number = b.number]
        BY <3>1, <4>1
      <4> QED
        BY <4>2, <4>3
    <3>3. r = [pc |-> "boots", boot |-> run.boot, latest |-> run.latest, roots |-> run.roots,
               cache |-> run.cache, precondition |-> run.precondition, journal |-> s]
      BY <1>1, <2>2, <3>2 DEF RunTypes
    <3>4. /\ IsJournal(s) /\ s.l1 = j.l1 /\ s.precondition = j.precondition
          /\ s.config = j.config /\ s.agreed = j.agreed /\ s.claimed = b.claimed /\ s.number = b.number
      BY <3>1 DEF IsJournal
    <3> QED
      BY <2>2, <3>3, <3>4
  <2> QED
    BY <1>4, <2>1, <2>2
<1>8. IsStitched(j, p, s) /\ r = WithJournal(s)
  BY <1>6, <1>7 DEF IsStitched, WithJournal
<1> QED
  BY <1>2, <1>8

LEMMA StitchBootRuns ==
  ASSUME ClientInv, NEW b, StitchBoot(b)
  PROVE  run' = Idle \/ IsRun(run')
<1>1. IsRun(run) /\ RunTypes(run) /\ Claiming(run) /\ run.pc = "boots"
  BY RunFacts DEF StitchBoot
<1>2. CASE run' = Idle
  BY <1>2
<1>3. CASE run' # Idle
  <2>1. PICK p \in proven : \E s : IsStitched(run.journal, p, s) /\ run' = WithJournal(s)
    BY <1>3, StitchBootStep
  <2>2. PICK s : IsStitched(run.journal, p, s) /\ run' = WithJournal(s)
    BY <2>1
  <2>3. PICK r, j : r = run' /\ j = run.journal
    OBVIOUS
  <2>4. /\ IsJournal(j) /\ j.l1 = run.boot.l1 /\ (j.l1 = NoHead => j.precondition = run.precondition)
        /\ j.claimed = Zero \/ IsGood(j)
    BY <1>1, <2>3 DEF Claiming
  <2>5. r = [pc |-> "boots", boot |-> run.boot, latest |-> run.latest, roots |-> run.roots,
             cache |-> run.cache, precondition |-> run.precondition, journal |-> s]
    BY <2>2, <2>3 DEF WithJournal
  <2>6. /\ p.l1 = j.l1 /\ p.config = j.config /\ p.agreed # p.claimed
        /\ IsJournal(s) /\ s.l1 = j.l1 /\ s.precondition = j.precondition /\ s.config = j.config
        /\ \/ /\ p.claimed = j.agreed /\ s.agreed = p.agreed
              /\ s.claimed = j.claimed /\ s.number = j.number
           \/ /\ p.agreed = j.claimed /\ s.agreed = j.agreed
              /\ s.claimed = p.claimed /\ s.number = p.number
    BY <2>2, <2>3 DEF IsStitched
  <2>7. RunTypes(r)
    BY <1>1, <2>5 DEF RunTypes
  <2>8. CASE run.boot.l1 = NoHead
    <3>1. Executing(run)
      BY <1>1, <2>8 DEF IsRun
    <3>2. Executing(r) /\ IsReplayed(s.precondition)
      BY <1>1, <2>4, <2>5, <2>6, <2>8, <3>1 DEF Executing
    <3>3. Claiming(r)
      BY <2>4, <2>5, <2>6, <2>8, <3>2 DEF Claiming, IsGood
    <3> QED
      BY <2>3, <2>5, <2>7, <2>8, <3>2, <3>3 DEF IsRun
  <2>9. CASE run.boot.l1 # NoHead
    <3>1. Deriving(r)
      BY <1>1, <2>5, <2>9 DEF IsRun, Deriving, Trusted
    <3>2. IsDerived(p) /\ j.l1 \in Nat
      <4>1. IsGood(p)
        BY DEF ClientInv
      <4>2. run.boot.l1 \in Nat
        BY <1>1 DEF RunTypes, BootRecords
      <4> QED
        BY <2>4, <2>6, <2>9, <4>1, <4>2 DEF IsGood
    <3>3. s.claimed = Zero \/ IsDerived(s)
      <4>1. CASE j.claimed = Zero
        <5>1. Zero \notin AgreedRoots
          BY DEF Zero, Root, AgreedRoots
        <5>2. p.agreed # Zero
          BY <3>2, <5>1 DEF IsDerived
        <5> QED
          BY <2>6, <4>1, <5>2
      <4>2. CASE j.claimed # Zero
        <5>1. IsDerived(j)
          BY <2>4, <2>9, <4>2 DEF IsGood
        <5>2. CASE p.claimed = j.agreed /\ s.agreed = p.agreed
                   /\ s.claimed = j.claimed /\ s.number = j.number
          BY <2>6, <3>2, <5>1, <5>2, StitchBefore
        <5>3. CASE p.agreed = j.claimed /\ s.agreed = j.agreed
                   /\ s.claimed = p.claimed /\ s.number = p.number
          BY <2>6, <3>2, <5>1, <5>3, StitchAfter
        <5> QED
          BY <2>6, <5>2, <5>3
      <4> QED
        BY <4>1, <4>2
    <3>4. Claiming(r)
      BY <2>4, <2>5, <2>6, <2>9, <3>3 DEF Claiming, IsGood
    <3> QED
      BY <2>3, <2>5, <2>7, <2>9, <3>1, <3>4 DEF IsRun
  <2> QED
    BY <2>8, <2>9
<1> QED
  BY <1>2, <1>3

-----------------------------------------------------------------------------
LEMMA ClientInductive ==
  ASSUME ClientInv, [ClientNext]_clientVars
  PROVE  ClientInv'
<1>1. CASE Commit
  <2>1. run.pc = "boots"
    BY <1>1 DEF Commit
  <2>2. Claiming(run) /\ IsRun(run)
    BY <2>1, RunFacts
  <2>3. run.journal.claimed # Zero => IsJournal(run.journal) /\ IsGood(run.journal)
    BY <2>1, <2>2 DEF Claiming
  <2>4. /\ proven' = IF run.journal.claimed = Zero THEN proven ELSE proven \cup {run.journal}
        /\ run' = Idle /\ host' = host
    BY <1>1 DEF Commit
  <2>5. \A j \in proven' : IsJournal(j) /\ IsGood(j)
    BY <2>3, <2>4 DEF ClientInv
  <2> QED
    BY <2>4, <2>5 DEF ClientInv
<1>2. CASE UNCHANGED <<host, proven>> /\ (run' = Idle \/ IsRun(run'))
  BY <1>2 DEF ClientInv
<1>3. CASE UNCHANGED clientVars
  BY <1>3 DEF ClientInv, clientVars
<1>4. CASE ClientNext /\ ~Commit
  <2>1. UNCHANGED <<host, proven>>
    BY <1>4 DEF ClientNext, Boot, Execute, Executed, LoadPrecondition, Derive, DeriveCached,
                Epilogue, Claim, StitchExecutions, StitchBoot
  <2>2. run' = Idle \/ IsRun(run')
    BY <1>4, BootRuns, ExecuteRuns, ExecutedRuns, AdvanceRuns, DeriveRuns, DeriveCachedRuns,
       ClaimRuns, StitchExecutionsRuns, StitchBootRuns DEF ClientNext
  <2> QED
    BY <1>2, <2>1, <2>2
<1> QED
  BY <1>1, <1>3, <1>4

\* A journal with an L1 head claims what derivation from its agreed output gives, for any
\* boot data, any cached executions and any proofs that the hosts supply.
THEOREM JournalsAreDerived == ClientSpec => []ProvenOutputsAreDerived
<1>1. ClientInit => ClientInv
  BY DEF ClientInit, ClientInv
<1>2. ClientInv /\ [ClientNext]_clientVars => ClientInv'
  BY ClientInductive
<1>3. ClientInv => ProvenOutputsAreDerived
  BY DEF ClientInv, IsGood, IsDerived, ProvenOutputsAreDerived, Attributes
<1> QED
  BY <1>1, <1>2, <1>3, PTL DEF ClientSpec

-----------------------------------------------------------------------------
(***************************************************************************)
(* The oracle.                                                             *)
(***************************************************************************)

\* Induction over the natural numbers, with the induction predicate as a set.
LEMMA Induction ==
  ASSUME NEW G, 0 \in G, \A n \in Nat : n \in G => n + 1 \in G
  PROVE  \A n \in Nat : n \in G
<1> SUFFICES ASSUME NEW N \in Nat, N \notin G PROVE FALSE
  OBVIOUS
<1> DEFINE S == 0..N
           Bad == {0..n : n \in {m \in 0..N : m \notin G}}
<1>1. IsFiniteSet(S)
  BY FS_Interval
<1>2. IsWellFoundedOn(StrictSubsetOrdering(S), SUBSET S)
  <2>1. FiniteSubsetsOf(S) = SUBSET S
    BY <1>1, FS_FiniteSubsetsOfFinite
  <2>2. IsWellFoundedOn(StrictSubsetOrdering(S), FiniteSubsetsOf(S))
    BY FS_StrictSubsetOrderingWellFounded
  <2> QED
    BY <2>1, <2>2
<1>3. PICK X \in Bad : \A Y \in Bad : <<Y, X>> \notin StrictSubsetOrdering(S)
  <2>1. Bad \subseteq SUBSET S /\ Bad # {}
    OBVIOUS
  <2> HIDE DEF Bad, S
  <2> QED
    BY <1>2, <2>1, WFMin
<1>4. PICK n \in 0..N : n \notin G /\ X = 0..n
  OBVIOUS
<1>5. n \in Nat /\ n # 0 /\ n - 1 \in Nat /\ n - 1 \in 0..N
  BY <1>4
<1>6. n - 1 \notin G
  <2>1. PICK m \in Nat : m = n - 1
    BY <1>5
  <2>2. m + 1 = n
    BY <1>5, <2>1
  <2> QED
    BY <1>4, <2>1, <2>2
<1>7. 0..(n - 1) \in Bad
  BY <1>5, <1>6
<1>8. <<0..(n - 1), X>> \in StrictSubsetOrdering(S)
  <2>1. 0..(n - 1) \subseteq S /\ 0..n \subseteq S /\ 0..(n - 1) \subseteq 0..n
    BY <1>5
  <2>2. n \in 0..n /\ n \notin 0..(n - 1)
    BY <1>5
  <2> QED
    BY <1>4, <2>1, <2>2 DEF StrictSubsetOrdering
<1> QED
  BY <1>3, <1>7, <1>8

-----------------------------------------------------------------------------
(***************************************************************************)
(* Validation: an entry that points back has the value of an entry that    *)
(* was checked, by induction over the shards and the places in a shard.    *)
(***************************************************************************)

LEMMA ValidatedIsRight ==
  ASSUME NEW shards \in Seq(Seq(IndexedPreimages)), Validate(shards)
  PROVE  Right(shards)
<1> DEFINE Ok(e, p) == ValidatePreimage(shards[e][p].key, shards[e][p].value)
           Before(e) == \A f \in DOMAIN shards : f < e => \A p \in DOMAIN shards[f] : Ok(f, p)
           G == {e \in Nat : Before(e)}
<1>1. DOMAIN shards = 1..Len(shards) /\ Len(shards) \in Nat
  OBVIOUS
<1>2. \A e \in DOMAIN shards : /\ shards[e] \in Seq(IndexedPreimages)
                              /\ DOMAIN shards[e] = 1..Len(shards[e])
                              /\ Len(shards[e]) \in Nat
  <2> TAKE e \in DOMAIN shards
  <2>1. PICK s : s = shards[e]
    OBVIOUS
  <2>2. s \in Seq(IndexedPreimages)
    BY <2>1
  <2> QED
    BY <2>1, <2>2
<1>3. 0 \in G
  BY <1>1
<1>4. ASSUME NEW n \in Nat, n \in G PROVE n + 1 \in G
  <2>1. CASE n \notin DOMAIN shards
    <3>1. \A f \in DOMAIN shards : f < n + 1 => f < n
      BY <1>1, <2>1
    <3> QED
      BY <1>4, <3>1
  <2>2. CASE n \in DOMAIN shards
    <3> DEFINE H == {p \in Nat : \A q \in DOMAIN shards[n] : q < p => Ok(n, q)}
    <3>1. 0 \in H
      BY <1>2, <2>2
    <3>2. ASSUME NEW p \in Nat, p \in H PROVE p + 1 \in H
      <4>1. CASE p \notin DOMAIN shards[n]
        <5>1. \A q \in DOMAIN shards[n] : q < p + 1 => q < p
          BY <1>2, <2>2, <4>1
        <5> QED
          BY <3>2, <5>1
      <4>2. CASE p \in DOMAIN shards[n]
        <5>1. Ok(n, p)
          <6>1. PICK x : x = shards[n][p]
            OBVIOUS
          <6>2. CASE ~NeedsValidation(x.key)
            BY <6>1, <6>2 DEF ValidatePreimage
          <6>3. CASE NeedsValidation(x.key) /\ x.prev = NoPrev
            BY <2>2, <4>2, <6>1, <6>3 DEF Validate
          <6>4. CASE NeedsValidation(x.key) /\ x.prev # NoPrev
            <7>1. PointsBack(shards, n, p)
              BY <2>2, <4>2, <6>1, <6>4 DEF Validate
            <7>2. PICK i, j : /\ i < n \/ (i = n /\ j < p)
                              /\ i \in DOMAIN shards /\ j \in DOMAIN shards[i]
                              /\ x.key = shards[i][j].key /\ x.value = shards[i][j].value
              BY <6>1, <7>1 DEF PointsBack
            <7>3. Ok(i, j)
              BY <1>4, <3>2, <7>2
            <7> QED
              BY <6>1, <7>2, <7>3
          <6> QED
            BY <6>2, <6>3, <6>4
        <5>2. \A q \in DOMAIN shards[n] : q < p + 1 => q < p \/ q = p
          BY <1>2, <2>2
        <5> QED
          BY <3>2, <5>1, <5>2
      <4> QED
        BY <4>1, <4>2
    <3>3. \A p \in Nat : p \in H
      <4> HIDE DEF H
      <4> QED
        BY <3>1, <3>2, Induction
    <3>4. \A q \in DOMAIN shards[n] : Ok(n, q)
      <4> TAKE q \in DOMAIN shards[n]
      <4>1. q \in Nat /\ q + 1 \in Nat /\ q < q + 1
        BY <1>2, <2>2
      <4>2. q + 1 \in H
        BY <3>3, <4>1
      <4> QED
        BY <4>1, <4>2
    <3>5. \A f \in DOMAIN shards : f < n + 1 => f < n \/ f = n
      BY <1>1
    <3> QED
      BY <1>4, <3>4, <3>5
  <2> QED
    BY <2>1, <2>2
<1>5. \A n \in Nat : n \in G
  <2> HIDE DEF G
  <2> QED
    BY <1>3, <1>4, Induction
<1>6. Len(shards) + 1 \in G
  BY <1>1, <1>5
<1>7. \A e \in DOMAIN shards : e < Len(shards) + 1
  BY <1>1
<1> QED
  BY <1>6, <1>7 DEF Right, RightShard

-----------------------------------------------------------------------------
(***************************************************************************)
(* What the host encodes are shards of entries.                            *)
(***************************************************************************)

LEMMA FunctionIsSeq ==
  ASSUME NEW S, NEW n \in Nat, NEW f \in [1..n -> S]
  PROVE  f \in Seq(S) /\ Len(f) = n
OBVIOUS

LEMMA MaxExists ==
  ASSUME NEW N \in Nat, NEW S, S \subseteq 0..N, S # {}
  PROVE  \E m \in S : \A k \in S : k <= m
<1> DEFINE G == {n \in Nat : \A X \in SUBSET (0..n) :
                                X # {} => \E m \in X : \A k \in X : k <= m}
<1>1. 0 \in G
  <2>1. 0..0 = {0}
    OBVIOUS
  <2>2. ASSUME NEW X \in SUBSET (0..0), X # {} PROVE \E m \in X : \A k \in X : k <= m
    <3>1. X = {0}
      BY <2>1, <2>2
    <3> QED
      BY <3>1
  <2> QED
    BY <2>2
<1>2. ASSUME NEW n \in Nat, n \in G PROVE n + 1 \in G
  <2> SUFFICES ASSUME NEW X \in SUBSET (0..(n + 1)), X # {}
               PROVE  \E m \in X : \A k \in X : k <= m
    OBVIOUS
  <2>1. CASE n + 1 \in X
    <3>1. \A k \in X : k <= n + 1
      OBVIOUS
    <3> QED
      BY <2>1, <3>1
  <2>2. CASE n + 1 \notin X
    <3>1. X \in SUBSET (0..n)
      BY <2>2
    <3> QED
      BY <1>2, <3>1
  <2> QED
    BY <2>1, <2>2
<1>3. \A n \in Nat : n \in G
  <2> HIDE DEF G
  <2> QED
    BY <1>1, <1>2, Induction
<1> QED
  BY <1>3, ZenonT(30)

LEMMA LatestExists ==
  ASSUME NEW N \in Nat, NEW Q, Q \subseteq (0..N) \X (0..N), Q # {}
  PROVE  Latest(Q) \in Q
<1> DEFINE I == {q[1] : q \in Q}
<1>1. I \subseteq 0..N /\ I # {}
  OBVIOUS
<1>2. PICK i \in I : \A k \in I : k <= i
  <2> HIDE DEF I
  <2> QED
    BY <1>1, MaxExists
<1> DEFINE J == {q[2] : q \in {r \in Q : r[1] = i}}
<1>3. J \subseteq 0..N /\ J # {}
  OBVIOUS
<1>4. PICK j \in J : \A k \in J : k <= j
  <2> HIDE DEF J
  <2> QED
    BY <1>3, MaxExists
<1>5. PICK q \in Q : q[1] = i /\ q[2] = j
  OBVIOUS
<1>6. \A r \in Q : r[1] < q[1] \/ (r[1] = q[1] /\ r[2] <= q[2])
  <2> TAKE r \in Q
  <2>1. r[1] \in I /\ r[1] \in Nat /\ i \in Nat
    BY <1>1
  <2>2. r[1] <= i
    BY <1>2, <2>1
  <2>3. r[1] = i => r[2] \in J
    OBVIOUS
  <2> QED
    BY <1>4, <1>5, <2>1, <2>2, <2>3
<1> QED
  BY <1>5, <1>6 DEF Latest

LEMMA PointersType ==
  ASSUME NEW shards \in Seq(Seq(IndexedPreimages)), MaxReads \in Nat
  PROVE  WithPointers(shards) \in Seq(Seq(IndexedPreimages))
<1>1. DOMAIN shards = 1..Len(shards) /\ Len(shards) \in Nat
  OBVIOUS
<1>2. ASSUME NEW i \in DOMAIN shards
      PROVE  WithPointers(shards)[i] \in Seq(IndexedPreimages)
  <2>1. PICK s \in Seq(IndexedPreimages) : s = shards[i]
    OBVIOUS
  <2>2. PICK t : t = WithPointers(shards)[i]
    OBVIOUS
  <2>3. t = [j \in 1..Len(s) |->
              IF NeedsValidation(s[j].key) /\ Repeats(shards, i, j) # {}
                THEN [s[j] EXCEPT !.prev = Latest(Repeats(shards, i, j))]
                ELSE s[j]]
    BY <2>1, <2>2 DEF WithPointers
  <2>4. ASSUME NEW j \in 1..Len(s) PROVE t[j] \in IndexedPreimages
    <3>1. PICK x \in IndexedPreimages : x = s[j]
      BY <2>4
    <3>2. PICK Q : Q = Repeats(shards, i, j)
      OBVIOUS
    <3>3. CASE Q # {}
      <4>1. PICK N \in Nat : Len(shards) <= N /\ MaxReads <= N
        <5>1. Len(shards) <= Len(shards) + MaxReads /\ MaxReads <= Len(shards) + MaxReads
          BY <1>1
        <5> QED
          BY <1>1, <5>1
      <4>2. DOMAIN shards \subseteq 0..N /\ 1..MaxReads \subseteq 0..N
        BY <1>1, <4>1
      <4>3. Q \subseteq (0..N) \X (0..N)
        BY <3>2, <4>2 DEF Repeats
      <4>4. Latest(Q) \in Nat \X Nat
        BY <3>3, <4>3, LatestExists
      <4>5. [x EXCEPT !.prev = Latest(Q)] \in IndexedPreimages
        BY <4>4 DEF IndexedPreimages
      <4> QED
        BY <2>3, <2>4, <3>1, <3>2, <4>5
    <3>4. CASE Q = {}
      BY <2>3, <2>4, <3>1, <3>2, <3>4
    <3> QED
      BY <3>3, <3>4
  <2>5. t \in [1..Len(s) -> IndexedPreimages] /\ Len(s) \in Nat
    BY <2>1, <2>3, <2>4
  <2>6. t \in Seq(IndexedPreimages)
    BY <2>5, FunctionIsSeq
  <2> QED
    BY <2>2, <2>6
<1>3. PICK w : w = WithPointers(shards)
  OBVIOUS
<1>4. w \in [1..Len(shards) -> Seq(IndexedPreimages)]
  <2>1. w = [i \in 1..Len(shards) |-> w[i]]
    BY <1>1, <1>3 DEF WithPointers
  <2> QED
    BY <1>1, <1>2, <1>3, <2>1
<1>5. w \in Seq(Seq(IndexedPreimages))
  BY <1>1, <1>4, FunctionIsSeq
<1> QED
  BY <1>3, <1>5

\* What has been placed: at least one shard, and its size.
Placing == [shards : {s \in Seq(Seq(IndexedPreimages)) : Len(s) >= 1}, size : Nat]

LEMMA PlaceNextType ==
  ASSUME NEW a \in Placing, NEW x \in IndexedPreimages, NEW limit
  PROVE  PlaceNext(a, x, limit) \in Placing
<1>1. PICK s \in Seq(Seq(IndexedPreimages)) : s = a.shards /\ Len(s) >= 1
  BY DEF Placing
<1>2. a.size \in Nat /\ SizeOf[x.key] \in Nat /\ a.size + SizeOf[x.key] \in Nat
  BY OracleAssumption DEF Placing, IndexedPreimages
<1>3. PICK t : t = Append(s, <<x>>)
  OBVIOUS
<1>4. t \in Seq(Seq(IndexedPreimages)) /\ Len(t) >= 1
  <2>1. <<x>> \in Seq(IndexedPreimages)
    OBVIOUS
  <2> QED
    BY <1>1, <1>3, <2>1
<1>5. PICK u : u = [s EXCEPT ![Len(s)] = Append(@, x)]
  OBVIOUS
<1>6. u \in Seq(Seq(IndexedPreimages)) /\ Len(u) >= 1
  <2>1. PICK l \in Nat : l = Len(s)
    OBVIOUS
  <2>2. l \in 1..Len(s)
    BY <1>1, <2>1
  <2>3. PICK w \in Seq(IndexedPreimages) : w = s[l]
    BY <2>2
  <2>4. PICK v : v = Append(w, x)
    OBVIOUS
  <2>5. v \in Seq(IndexedPreimages)
    BY <2>4
  <2>6. u = [s EXCEPT ![l] = v]
    BY <1>5, <2>1, <2>3, <2>4
  <2>7. s \in [1..l -> Seq(IndexedPreimages)]
    BY <2>1
  <2>8. u \in [1..l -> Seq(IndexedPreimages)]
    BY <2>5, <2>6, <2>7
  <2> QED
    BY <1>1, <2>1, <2>8, FunctionIsSeq
<1>7. CASE a.size > 0 /\ SizeOf[x.key] + a.size > limit
  BY <1>1, <1>2, <1>3, <1>4, <1>7 DEF PlaceNext, Placing
<1>8. CASE ~(a.size > 0 /\ SizeOf[x.key] + a.size > limit)
  BY <1>1, <1>2, <1>5, <1>6, <1>8 DEF PlaceNext, Placing
<1> QED
  BY <1>7, <1>8

\* Induction over the entries that finalize_preimages places.
LEMMA PlaceInduction ==
  ASSUME recorded \in Seq(IndexedPreimages), NEW limit, NEW J,
         <<0, [shards |-> << <<>> >>, size |-> 0]>> \in J,
         \A n \in 1..Len(recorded) : \A a :
           <<n - 1, a>> \in J => <<n, PlaceNext(a, Reverse(recorded)[n], limit)>> \in J
  PROVE  \E a : <<Len(recorded), a>> \in J /\ Place(limit) = a.shards
<1>1. PICK L \in Nat : L = Len(recorded)
  OBVIOUS
<1>2. PICK base : base = [shards |-> << <<>> >>, size |-> 0]
  OBVIOUS
<1>4. PICK r : r = Reverse(recorded)
  OBVIOUS
<1> DEFINE Body(f, n) == IF n = 0 THEN base ELSE PlaceNext(f[n - 1], r[n], limit)
           Solves(f, m) == f = [n \in 0..m |-> Body(f, n)]
           G == {m \in Nat : \E f : Solves(f, m)}
<1>6. 0 \in G
  <2>1. PICK f : f = [n \in 0..0 |-> base]
    OBVIOUS
  <2>2. Solves(f, 0)
    <3>1. \A n \in 0..0 : n = 0
      OBVIOUS
    <3>2. \A n \in 0..0 : Body(f, n) = base
      BY <3>1
    <3> HIDE DEF Body
    <3> QED
      BY <2>1, <3>2
  <2> QED
    BY <2>2
<1>7. ASSUME NEW m \in Nat, m \in G PROVE m + 1 \in G
  <2>1. PICK f : Solves(f, m)
    BY <1>7
  <2>2. PICK g : g = [n \in 0..(m + 1) |-> IF n <= m THEN f[n] ELSE Body(f, n)]
    OBVIOUS
  <2>3. ASSUME NEW n \in 0..(m + 1) PROVE g[n] = Body(g, n)
    <3>1. CASE n = 0
      BY <2>1, <2>2, <3>1
    <3>2. CASE n # 0
      <4>1. PICK k \in 0..m : k = n - 1
        BY <3>2
      <4>2. g[k] = f[k]
        BY <2>2, <4>1
      <4>3. Body(g, n) = Body(f, n)
        BY <4>1, <4>2
      <4>4. g[n] = Body(f, n)
        <5>1. CASE n <= m
          <6>1. n \in 0..m
            BY <5>1
          <6>2. g[n] = f[n]
            BY <2>2, <2>3, <5>1
          <6>3. f[n] = Body(f, n)
            <7> HIDE DEF Body
            <7> QED
              BY <2>1, <6>1
          <6> QED
            BY <6>2, <6>3
        <5>2. CASE ~(n <= m)
          <6> HIDE DEF Body
          <6> QED
            BY <2>2, <2>3, <5>2
        <5> QED
          BY <5>1, <5>2
      <4> QED
        BY <4>3, <4>4
    <3> QED
      BY <3>1, <3>2
  <2>4. Solves(g, m + 1)
    <3>1. g = [n \in 0..(m + 1) |-> g[n]]
      BY <2>2
    <3> HIDE DEF Body
    <3> QED
      BY <2>3, <3>1
  <2> QED
    BY <2>4
<1>8. L \in G
  <2> HIDE DEF G
  <2> QED
    BY <1>6, <1>7, Induction
<1>9. PICK f : Solves(f, L) /\ Place(limit) = f[L].shards
  <2>1. \E f : Solves(f, L)
    BY <1>8
  <2>2. PICK f : f = CHOOSE g : Solves(g, L)
    OBVIOUS
  <2>3. Solves(f, L)
    <3> HIDE DEF Solves
    <3> QED
      BY <2>1, <2>2
  <2>4. Place(limit) = f[L].shards
    BY <1>1, <1>2, <1>4, <2>2 DEF Place
  <2> QED
    BY <2>3, <2>4
<1> DEFINE H == {n \in Nat : n <= L => <<n, f[n]>> \in J}
<1>10. 0 \in H
  BY <1>1, <1>2, <1>9
<1>11. ASSUME NEW n \in Nat, n \in H PROVE n + 1 \in H
  <2> SUFFICES ASSUME n + 1 <= L PROVE <<n + 1, f[n + 1]>> \in J
    OBVIOUS
  <2>1. PICK k \in 1..L : k = n + 1
    OBVIOUS
  <2>2. k \in 0..L /\ k # 0 /\ k - 1 = n
    BY <2>1
  <2>3. f[k] = PlaceNext(f[n], r[k], limit)
    BY <1>9, <2>2
  <2>4. <<k - 1, f[n]>> \in J
    BY <1>11, <2>2
  <2> QED
    BY <1>1, <1>4, <2>1, <2>3, <2>4
<1>12. <<L, f[L]>> \in J
  <2>1. L \in H
    <3> HIDE DEF H
    <3> QED
      BY <1>10, <1>11, Induction
  <2> QED
    BY <2>1
<1> QED
  BY <1>1, <1>9, <1>12

LEMMA PlaceType ==
  ASSUME recorded \in Seq(IndexedPreimages), NEW limit
  PROVE  Place(limit) \in Seq(Seq(IndexedPreimages))
<1>1. PICK L \in Nat : L = Len(recorded)
  OBVIOUS
<1>2. PICK r : r = Reverse(recorded)
  OBVIOUS
<1>3. \A n \in 1..L : r[n] \in IndexedPreimages
  BY <1>1, <1>2 DEF Reverse
<1> DEFINE J == (0..L) \X Placing
<1>4. <<0, [shards |-> << <<>> >>, size |-> 0]>> \in J
  <2>1. [shards |-> << <<>> >>, size |-> 0] \in Placing
    BY DEF Placing
  <2> QED
    BY <1>1, <2>1
<1>5. ASSUME NEW n \in 1..L, NEW a, <<n - 1, a>> \in J
      PROVE  <<n, PlaceNext(a, r[n], limit)>> \in J
  BY <1>3, <1>5, PlaceNextType
<1>6. PICK a : <<L, a>> \in J /\ Place(limit) = a.shards
  <2> HIDE DEF J
  <2>1. \A n \in 1..Len(recorded) : \A a :
           <<n - 1, a>> \in J => <<n, PlaceNext(a, Reverse(recorded)[n], limit)>> \in J
    BY <1>1, <1>2, <1>5
  <2>2. \E a : <<Len(recorded), a>> \in J /\ Place(limit) = a.shards
    BY <1>4, <2>1, PlaceInduction
  <2> QED
    BY <1>1, <2>2
<1> QED
  BY <1>6 DEF Placing

LEMMA ReverseType ==
  ASSUME NEW S, NEW s \in Seq(S)
  PROVE  Reverse(s) \in Seq(S)
<1>1. PICK n \in Nat : n = Len(s)
  OBVIOUS
<1>2. PICK f : f = Reverse(s)
  OBVIOUS
<1>3. f \in [1..n -> S]
  BY <1>1, <1>2 DEF Reverse
<1> QED
  BY <1>2, <1>3, FunctionIsSeq

-----------------------------------------------------------------------------
(***************************************************************************)
(* Shards stay right while entries are popped, set aside and put back.     *)
(***************************************************************************)

LEMMA FrontIsRight ==
  ASSUME NEW s \in Seq(IndexedPreimages), s # <<>>
  PROVE  /\ Last(s) \in IndexedPreimages /\ Front(s) \in Seq(IndexedPreimages)
         /\ RightShard(s) => /\ RightShard(Front(s))
                             /\ ValidatePreimage(Last(s).key, Last(s).value)
<1>1. Len(s) \in Nat \ {0} /\ Len(s) \in DOMAIN s
  OBVIOUS
<1>2. PICK f : f = Front(s)
  OBVIOUS
<1>3. /\ f \in Seq(IndexedPreimages) /\ DOMAIN f \subseteq DOMAIN s
      /\ \A p \in DOMAIN f : f[p] = s[p]
  BY <1>1, <1>2 DEF Front
<1> QED
  BY <1>1, <1>2, <1>3 DEF Last, RightShard

LEMMA ConcatIsRight ==
  ASSUME NEW s \in Seq(IndexedPreimages), NEW t \in Seq(IndexedPreimages),
         RightShard(s), RightShard(t)
  PROVE  s \o t \in Seq(IndexedPreimages) /\ RightShard(s \o t)
<1>1. PICK u : u = s \o t
  OBVIOUS
<1>2. u \in Seq(IndexedPreimages)
  BY <1>1
<1>3. ASSUME NEW p \in DOMAIN u
      PROVE  (p \in DOMAIN s /\ u[p] = s[p]) \/ (\E q \in DOMAIN t : u[p] = t[q])
  <2>1. Len(s) \in Nat /\ Len(t) \in Nat /\ DOMAIN s = 1..Len(s) /\ DOMAIN t = 1..Len(t)
    OBVIOUS
  <2>2. p \in 1..(Len(s) + Len(t))
    BY <1>1
  <2>3. CASE p <= Len(s)
    BY <1>1, <2>1, <2>2, <2>3
  <2>4. CASE p > Len(s)
    <3>1. PICK q \in 1..Len(t) : q = p - Len(s)
      BY <2>1, <2>2, <2>4
    <3>2. u[p] = t[q]
      BY <1>1, <2>1, <2>2, <2>4, <3>1
    <3> QED
      BY <2>1, <3>2
  <2> QED
    BY <2>1, <2>2, <2>3, <2>4
<1>4. RightShard(u)
  BY <1>3 DEF RightShard
<1> QED
  BY <1>1, <1>2, <1>4

LEMMA LastShardIsRight ==
  ASSUME NEW shards \in Seq(Seq(IndexedPreimages)), shards # <<>>
  PROVE  /\ shards[Len(shards)] \in Seq(IndexedPreimages)
         /\ Front(shards) \in Seq(Seq(IndexedPreimages))
         /\ Right(shards) => Right(Front(shards)) /\ RightShard(shards[Len(shards)])
<1>1. Len(shards) \in Nat \ {0} /\ Len(shards) \in DOMAIN shards
  OBVIOUS
<1>2. PICK f : f = Front(shards)
  OBVIOUS
<1>3. PICK n \in Nat : n = Len(shards) - 1
  <2>1. PICK l \in Nat \ {0} : l = Len(shards)
    BY <1>1
  <2>2. l - 1 \in Nat
    BY <2>1
  <2> QED
    BY <2>1, <2>2
<1>4. f = [i \in 1..n |-> shards[i]]
  BY <1>1, <1>2, <1>3 DEF Front
<1>5. \A i \in 1..n : i \in DOMAIN shards
  BY <1>1, <1>3
<1>6. f \in [1..n -> Seq(IndexedPreimages)]
  BY <1>4, <1>5
<1>7. f \in Seq(Seq(IndexedPreimages))
  BY <1>6, FunctionIsSeq
<1>8. Right(shards) => Right(f)
  BY <1>4, <1>5 DEF Right
<1> QED
  BY <1>1, <1>2, <1>7, <1>8 DEF Right

LEMMA NewLastIsRight ==
  ASSUME NEW shards \in Seq(Seq(IndexedPreimages)), shards # <<>>,
         NEW s \in Seq(IndexedPreimages), Right(shards), RightShard(s)
  PROVE  /\ [shards EXCEPT ![Len(shards)] = s] \in Seq(Seq(IndexedPreimages))
         /\ Right([shards EXCEPT ![Len(shards)] = s])
<1>1. PICK n \in Nat : n = Len(shards)
  OBVIOUS
<1>2. shards \in [1..n -> Seq(IndexedPreimages)]
  BY <1>1
<1>3. PICK t : t = [shards EXCEPT ![n] = s]
  OBVIOUS
<1>4. t \in [1..n -> Seq(IndexedPreimages)]
  BY <1>2, <1>3
<1>5. \A e \in 1..n : t[e] = s \/ t[e] = shards[e]
  BY <1>2, <1>3
<1>6. Right(t)
  BY <1>2, <1>4, <1>5 DEF Right
<1> QED
  BY <1>1, <1>3, <1>4, <1>6, FunctionIsSeq

-----------------------------------------------------------------------------
(***************************************************************************)
(* The steps.                                                              *)
(***************************************************************************)

LEMMA OracleStart == OInit => OracleInv
<1> SUFFICES ASSUME OInit PROVE OracleInv
  OBVIOUS
<1>1. preimages \in Seq(Seq(IndexedPreimages)) /\ frames \in Seq(Seq(IndexedPreimages))
  <2>1. <<>> \in Seq(Seq(IndexedPreimages))
    OBVIOUS
  <2> QED
    BY <2>1, OracleAssumption DEF OInit
<1>2. DOMAIN cache = {} /\ cache = [k \in DOMAIN cache |-> cache[k]]
  BY DEF OInit
<1>3. phase \in {"record", "load"} /\ want = NoKey
  BY DEF OInit
<1>4. Binding(cache, answers)
  BY <1>2 DEF OInit, Binding, Keys
<1>5. queue = <<>> /\ recorded = <<>> /\ RightShard(queue)
  BY DEF OInit, RightShard
<1> QED
  BY <1>1, <1>2, <1>3, <1>4, <1>5 DEF OracleInv, Keys

LEMMA RecordIsRight ==
  ASSUME OracleInv, NEW k \in Keys, Record(k)
  PROVE  OracleInv'
<1>1. PICK x : x = Entry(k, k, NoPrev)
  OBVIOUS
<1>2. x \in IndexedPreimages
  BY <1>1 DEF Entry, NoPrev, IndexedPreimages
<1>3. recorded' = recorded \/ recorded' = Append(recorded, x)
  BY <1>1 DEF Record
<1>4. recorded' \in Seq(IndexedPreimages)
  <2>1. PICK r \in Seq(IndexedPreimages) : r = recorded
    BY DEF OracleInv
  <2>2. Append(r, x) \in Seq(IndexedPreimages)
    BY <1>2
  <2> QED
    BY <1>3, <2>1, <2>2
<1>5. UNCHANGED <<phase, preimages, frames, queue, want, cache, answers>>
  BY DEF Record
<1> QED
  BY <1>4, <1>5 DEF OracleInv

LEMMA EncodeIsRight ==
  ASSUME OracleInv, Encode
  PROVE  OracleInv'
<1>1. PICK limit \in ShardSizes :
        \/ /\ frames' = StreamedFrames(FinalizePreimages(limit, FALSE))
           /\ UNCHANGED preimages
        \/ preimages' = FinalizePreimages(limit, TRUE) /\ UNCHANGED frames
  BY DEF Encode
<1>2. PICK s \in Seq(Seq(IndexedPreimages)) : s = Place(limit)
  BY PlaceType DEF OracleInv
<1>3. StreamedFrames(FinalizePreimages(limit, FALSE)) \in Seq(Seq(IndexedPreimages))
  BY <1>2, ReverseType DEF FinalizePreimages, StreamedFrames
<1>4. FinalizePreimages(limit, TRUE) \in Seq(Seq(IndexedPreimages))
  BY <1>2, PointersType, OracleAssumption DEF FinalizePreimages
<1>5. preimages' \in Seq(Seq(IndexedPreimages)) /\ frames' \in Seq(Seq(IndexedPreimages))
  BY <1>1, <1>3, <1>4 DEF OracleInv
<1>6. want = NoKey /\ phase' = "load" /\ UNCHANGED <<recorded, queue, want, cache, answers>>
  BY DEF Encode, OracleInv
<1> QED
  BY <1>5, <1>6 DEF OracleInv

LEMMA LoadIsRight ==
  ASSUME OracleInv, Load
  PROVE  OracleInv'
<1>1. want = NoKey /\ UNCHANGED <<recorded, preimages, frames, queue, want, cache, answers>>
  BY DEF Load, OracleInv
<1>2. phase' = "replay" => Right(preimages)
  BY ValidatedIsRight DEF Load, OracleInv
<1> QED
  BY <1>1, <1>2 DEF OracleInv

LEMMA SeekIsRight ==
  ASSUME OracleInv, NEW k \in Keys, Seek(k)
  PROVE  OracleInv'
<1>1. /\ phase = "replay" /\ k \notin DOMAIN cache /\ want' = k
      /\ UNCHANGED <<phase, recorded, preimages, frames, queue, cache, answers>>
  BY DEF Seek
<1> QED
  BY <1>1 DEF OracleInv

LEMMA CachedIsRight ==
  ASSUME OracleInv, NEW k \in Keys, GetCached(k)
  PROVE  OracleInv'
<1>1. PICK a : a = answers
  OBVIOUS
<1>2. answers' = [a EXCEPT ![k] = @ \cup {cache[k]}]
  BY <1>1 DEF GetCached, Answer
<1>3. a = [l \in Keys |-> a[l]] /\ a[k] = {cache[k]}
  BY <1>1 DEF GetCached, OracleInv, Binding
<1>4. [a EXCEPT ![k] = @ \cup {cache[k]}] = a
  BY <1>3
<1>5. answers' = answers
  BY <1>1, <1>2, <1>4
<1>6. UNCHANGED <<phase, recorded, preimages, frames, queue, want, cache>>
  BY DEF GetCached
<1> QED
  BY <1>5, <1>6 DEF OracleInv

LEMMA ReadIsRight ==
  ASSUME OracleInv, ReadShard
  PROVE  OracleInv'
<1>1. UNCHANGED <<recorded, queue, want, cache, answers>> /\ phase = "replay"
  BY DEF ReadShard
<1>2. CASE frames # <<>> /\ Validate(<<Head(frames)>>)
  <2>1. PICK s \in Seq(IndexedPreimages) : s = Head(frames)
    BY <1>2 DEF OracleInv
  <2>2. PICK t : t = <<s>>
    OBVIOUS
  <2>3. t \in Seq(Seq(IndexedPreimages))
    BY <2>2
  <2>4. Right(t)
    BY <1>2, <2>1, <2>2, <2>3, ValidatedIsRight
  <2>5. frames' \in Seq(Seq(IndexedPreimages))
    <3>1. PICK r \in Seq(Seq(IndexedPreimages)) : r = frames
      BY DEF OracleInv
    <3>2. Tail(r) \in Seq(Seq(IndexedPreimages))
      BY <1>2, <3>1
    <3> QED
      BY <1>2, <3>1, <3>2 DEF ReadShard
  <2>6. preimages' = t /\ phase' = phase
    BY <1>2, <2>1, <2>2 DEF ReadShard
  <2> QED
    BY <1>1, <2>3, <2>4, <2>5, <2>6 DEF OracleInv
<1>3. CASE ~(frames # <<>> /\ Validate(<<Head(frames)>>))
  <2>1. phase' = "panic" /\ UNCHANGED <<preimages, frames>>
    BY <1>3 DEF ReadShard
  <2> QED
    BY <1>1, <2>1 DEF OracleInv
<1> QED
  BY <1>2, <1>3

LEMMA DropIsRight ==
  ASSUME OracleInv, DropShard
  PROVE  OracleInv'
<1>1. preimages # <<>> /\ preimages \in Seq(Seq(IndexedPreimages)) /\ Right(preimages)
  BY DEF DropShard, OracleInv
<1>2. /\ preimages' = Front(preimages)
      /\ UNCHANGED <<phase, recorded, frames, queue, want, cache, answers>>
  BY DEF DropShard
<1>3. preimages' \in Seq(Seq(IndexedPreimages)) /\ Right(preimages')
  BY <1>1, <1>2, LastShardIsRight
<1> QED
  BY <1>2, <1>3 DEF OracleInv

\* What is on top.
LEMMA TopIsRight ==
  ASSUME OracleInv, want # NoKey, preimages # <<>>, LastShard # <<>>
  PROVE  /\ Last(LastShard) \in IndexedPreimages
         /\ ValidatePreimage(Last(LastShard).key, Last(LastShard).value)
         /\ Front(LastShard) \in Seq(IndexedPreimages) /\ RightShard(Front(LastShard))
<1>1. preimages \in Seq(Seq(IndexedPreimages)) /\ Right(preimages)
  BY DEF OracleInv
<1>2. LastShard \in Seq(IndexedPreimages) /\ RightShard(LastShard)
  BY <1>1, LastShardIsRight DEF LastShard
<1> QED
  BY <1>2, FrontIsRight

LEMMA OtherIsRight ==
  ASSUME OracleInv, PopOther
  PROVE  OracleInv'
<1>1. want # NoKey /\ preimages # <<>> /\ LastShard # <<>>
  BY DEF PopOther
<1>2. PICK x \in IndexedPreimages : x = Last(LastShard) /\ ValidatePreimage(x.key, x.value)
  BY <1>1, TopIsRight
<1>3. PICK f \in Seq(IndexedPreimages) : f = Front(LastShard) /\ RightShard(f)
  BY <1>1, TopIsRight
<1>4. PICK y : y = [x EXCEPT !.prev = NoPrev]
  OBVIOUS
<1>5. y \in IndexedPreimages /\ y.key = x.key /\ y.value = x.value
  BY <1>4 DEF IndexedPreimages, NoPrev
<1>6. PICK s : s = <<y>>
  OBVIOUS
<1>7. s \in Seq(IndexedPreimages) /\ RightShard(s)
  BY <1>2, <1>5, <1>6 DEF RightShard
<1>8. queue' \in Seq(IndexedPreimages) /\ RightShard(queue')
  <2>1. queue' = s \o queue
    BY <1>2, <1>4, <1>6 DEF PopOther
  <2> QED
    BY <1>7, <2>1, ConcatIsRight DEF OracleInv
<1>9. preimages' \in Seq(Seq(IndexedPreimages)) /\ Right(preimages')
  <2>1. preimages' = [preimages EXCEPT ![Len(preimages)] = f]
    BY <1>3 DEF PopOther, LastShard
  <2>2. preimages \in Seq(Seq(IndexedPreimages)) /\ Right(preimages)
    BY <1>1 DEF OracleInv
  <2> QED
    BY <1>1, <1>3, <2>1, <2>2, NewLastIsRight
<1>10. UNCHANGED <<phase, recorded, frames, want, cache, answers>>
  BY DEF PopOther
<1> QED
  BY <1>8, <1>9, <1>10 DEF OracleInv

LEMMA MatchIsRight ==
  ASSUME OracleInv, PopMatch
  PROVE  OracleInv'
<1>1. want # NoKey /\ preimages # <<>> /\ LastShard # <<>> /\ want \in Keys
  BY DEF PopMatch, OracleInv
<1>2. PICK x \in IndexedPreimages : x = Last(LastShard) /\ ValidatePreimage(x.key, x.value)
  BY <1>1, TopIsRight
<1>3. PICK f \in Seq(IndexedPreimages) : f = Front(LastShard) /\ RightShard(f)
  BY <1>1, TopIsRight
<1>4. preimages' \in Seq(Seq(IndexedPreimages)) /\ Right(preimages')
  <2>1. PICK s : s = f \o queue
    OBVIOUS
  <2>2. s \in Seq(IndexedPreimages) /\ RightShard(s)
    BY <1>3, <2>1, ConcatIsRight DEF OracleInv
  <2>3. preimages' = [preimages EXCEPT ![Len(preimages)] = s]
    BY <1>3, <2>1 DEF PopMatch, LastShard
  <2>4. preimages \in Seq(Seq(IndexedPreimages)) /\ Right(preimages)
    BY <1>1 DEF OracleInv
  <2> QED
    BY <1>1, <2>2, <2>3, <2>4, NewLastIsRight
<1>5. /\ queue' = <<>> /\ want' = NoKey /\ UNCHANGED <<phase, recorded, frames>>
      /\ x.key = want
      /\ answers' = [answers EXCEPT ![want] = @ \cup {x.value}]
      /\ cache' = IF want \in LocalKeys THEN Remembered(want, x.value) ELSE cache
  BY <1>2 DEF PopMatch, Answer
<1>6. RightShard(queue') /\ queue' \in Seq(IndexedPreimages)
  BY <1>5 DEF RightShard
<1>7. PICK a, c, k, v : k \in Keys /\ a = answers /\ c = cache /\ k = want /\ v = x.value
  BY <1>1
<1>8. Binding(c, a) /\ k \notin DOMAIN c
  BY <1>7 DEF OracleInv
<1>9. PICK b : b = [a EXCEPT ![k] = @ \cup {v}]
  OBVIOUS
<1>10. /\ b = [l \in Keys |-> b[l]] /\ b[k] = a[k] \cup {v}
       /\ \A l \in Keys : l # k => b[l] = a[l]
  BY <1>7, <1>8, <1>9 DEF Binding
<1>11. answers' = b
  BY <1>5, <1>7, <1>9
<1>12. CASE k \in HashKeys
  <2>1. v = k /\ k \notin LocalKeys /\ cache' = c
    BY <1>2, <1>5, <1>7, <1>12, OracleAssumption DEF ValidatePreimage, NeedsValidation
  <2>2. Binding(c, b)
    BY <1>8, <1>10, <1>12, <2>1 DEF Binding, Keys
  <2>3. NoKey \notin DOMAIN c
    BY <1>8, OracleAssumption DEF Binding, Keys
  <2> QED
    BY <1>4, <1>5, <1>6, <1>11, <2>1, <2>2, <2>3 DEF OracleInv
<1>13. CASE k \in LocalKeys
  <2>1. k \notin HashKeys
    BY <1>13, OracleAssumption
  <2>2. PICK d : d = [l \in DOMAIN c \cup {k} |-> IF l = k THEN v ELSE c[l]]
    OBVIOUS
  <2>3. cache' = d
    BY <1>5, <1>7, <1>13, <2>2 DEF Remembered
  <2>4. /\ DOMAIN d = DOMAIN c \cup {k} /\ d[k] = v
        /\ \A l \in DOMAIN c : d[l] = c[l]
        /\ d = [l \in DOMAIN d |-> d[l]]
    BY <1>8, <2>2
  <2>5. DOMAIN d \subseteq LocalKeys
    BY <1>8, <1>13, <2>4 DEF Binding
  <2>6. \A l \in HashKeys : b[l] \subseteq {l}
    BY <1>8, <1>10, <2>1 DEF Binding, Keys
  <2>7. b[k] = {v}
    BY <1>8, <1>10, <1>13 DEF Binding
  <2>8. \A l \in LocalKeys : b[l] = IF l \in DOMAIN d THEN {d[l]} ELSE {}
    BY <1>8, <1>10, <2>4, <2>7 DEF Binding, Keys
  <2>9. Binding(d, b)
    BY <1>10, <2>4, <2>5, <2>6, <2>8 DEF Binding
  <2>10. NoKey \notin DOMAIN d
    BY <2>5, OracleAssumption DEF Keys
  <2> QED
    BY <1>4, <1>5, <1>6, <1>11, <2>3, <2>9, <2>10 DEF OracleInv
<1> QED
  BY <1>7, <1>12, <1>13 DEF Keys

LEMMA OracleStep == OracleInv /\ [ONext]_ovars => OracleInv'
<1> SUFFICES ASSUME OracleInv, [ONext]_ovars PROVE OracleInv'
  OBVIOUS
<1>1. CASE UNCHANGED ovars
  BY <1>1 DEF ovars, OracleInv
<1> QED
  BY <1>1, RecordIsRight, EncodeIsRight, LoadIsRight, SeekIsRight, CachedIsRight, ReadIsRight,
     DropIsRight, OtherIsRight, MatchIsRight DEF ONext

LEMMA BindingFromInv == OracleInv => AnswersAreBinding
<1> SUFFICES ASSUME OracleInv, NEW k \in Keys
             PROVE  /\ k \in HashKeys => answers[k] \subseteq {k}
                    /\ Cardinality(answers[k]) <= 1
  BY DEF AnswersAreBinding
<1>1. PICK v : answers[k] \subseteq {v}
  BY DEF OracleInv, Binding, Keys
<1>2. IsFiniteSet({v}) /\ Cardinality({v}) = 1
  BY FS_Singleton
<1>3. Cardinality(answers[k]) <= 1
  BY <1>1, <1>2, FS_Subset
<1> QED
  BY <1>3 DEF OracleInv, Binding

(***************************************************************************)
(* VecOracle and LocalOnceOracle answer only what keys commit to: a read   *)
(* by hash has one answer, the committed preimage, and a local key has one *)
(* value for the whole run, for any shards that a host passes, of any      *)
(* number and size, with any pointers.                                     *)
(***************************************************************************)
THEOREM OracleIsBinding == OSpec => []AnswersAreBinding
BY OracleStart, OracleStep, BindingFromInv, PTL DEF OSpec

-----------------------------------------------------------------------------
(***************************************************************************)
(* Where a field of a proposal lies in its blobs: FlattenSeq by induction  *)
(* over the blobs.                                                         *)
(***************************************************************************)

LEMMA DivMod ==
  ASSUME NEW x \in Nat, NEW y \in Nat \ {0}
  PROVE  x = y * (x \div y) + (x % y) /\ x % y \in 0..(y - 1) /\ x \div y \in Nat
OBVIOUS

LEMMA DivModUnique ==
  ASSUME NEW x \in Nat, NEW y \in Nat \ {0}, NEW q \in Nat, NEW r \in 0..(y - 1), x = y * q + r
  PROVE  x \div y = q /\ x % y = r
<1>1. PICK u \in Nat, s \in 0..(y - 1) : u = x \div y /\ s = x % y /\ x = y * u + s
  BY DivMod
<1>2. ~(q < u)
  <2> SUFFICES ASSUME q < u PROVE FALSE
    OBVIOUS
  <2>1. PICK k \in Nat : u = q + 1 + k
    OBVIOUS
  <2>2. y * u = y * q + y + y * k
    BY <2>1
  <2>3. y * k \in Nat /\ y * q \in Nat /\ y * u \in Nat
    OBVIOUS
  <2> QED
    BY <1>1, <2>2, <2>3
<1>3. ~(u < q)
  <2> SUFFICES ASSUME u < q PROVE FALSE
    OBVIOUS
  <2>1. PICK k \in Nat : q = u + 1 + k
    OBVIOUS
  <2>2. y * q = y * u + y + y * k
    BY <2>1
  <2>3. y * k \in Nat /\ y * q \in Nat /\ y * u \in Nat
    OBVIOUS
  <2> QED
    BY <1>1, <2>2, <2>3
<1>4. q = u
  BY <1>2, <1>3
<1>5. y * u \in Nat
  OBVIOUS
<1> QED
  BY <1>1, <1>4, <1>5

LEMMA ConcatType ==
  ASSUME NEW S, NEW a \in Seq(S), NEW b \in Seq(S)
  PROVE  a \o b \in Seq(S) /\ Len(a \o b) = Len(a) + Len(b)
OBVIOUS

LEMMA SeqIsFunction ==
  ASSUME NEW S, NEW a \in Seq(S)
  PROVE  a \in [1..Len(a) -> S]
OBVIOUS

\* f[m] is what is joined of the first m sequences of q.
IsJoined(f, q) ==
  f = [m \in 1..Len(q) |-> IF m = 1 THEN q[m] ELSE f[m - 1] \o q[m]]

\* Field k of the blobs, counted over all of them.
FieldAt(q, F, k) == q[((k - 1) \div F) + 1][((k - 1) % F) + 1]
Joined(q, F, m) == [k \in 1..(F * m) |-> FieldAt(q, F, k)]

LEMMA JoinedNext ==
  ASSUME NEW F \in Nat \ {0}, NEW S, NEW q \in Seq([1..F -> S]), NEW m \in Nat, m + 1 <= Len(q)
  PROVE  Joined(q, F, m + 1) = Joined(q, F, m) \o q[m + 1]
<1>1. PICK a : a = Joined(q, F, m)
  OBVIOUS
<1>2. PICK b : b = q[m + 1]
  OBVIOUS
<1>3. PICK M \in Nat : M = F * m
  OBVIOUS
<1>4. F * (m + 1) = M + F
  BY <1>3
<1>5. b \in [1..F -> S]
  <2>1. m + 1 \in 1..Len(q)
    OBVIOUS
  <2> QED
    BY <1>2, <2>1
<1>6. b \in Seq(S) /\ Len(b) = F
  BY <1>5, FunctionIsSeq
<1>7. ASSUME NEW k \in 1..M PROVE FieldAt(q, F, k) \in S
  <2> DEFINE x == k - 1
             u == x \div F
             s == x % F
  <2>1. k \in Nat /\ x \in Nat /\ x < M
    BY <1>3, <1>7
  <2>2. x = F * u + s /\ s \in 0..(F - 1) /\ u \in Nat
    BY <2>1, DivMod
  <2> HIDE DEF u, s
  <2>3. u < m
    <3> SUFFICES ASSUME u >= m PROVE FALSE
      BY <2>2
    <3>1. PICK d \in Nat : u = m + d
      BY <2>2
    <3>2. F * u = F * m + F * d
      BY <3>1
    <3>3. F * d \in Nat
      OBVIOUS
    <3>4. x = (M + F * d) + s
      BY <1>3, <2>2, <3>2
    <3> QED
      BY <2>1, <2>2, <3>3, <3>4
  <2>4. u + 1 \in 1..Len(q) /\ s + 1 \in 1..F
    BY <2>3, <2>2
  <2>5. PICK y : y = q[u + 1]
    OBVIOUS
  <2>6. y \in [1..F -> S]
    BY <2>4, <2>5
  <2> QED
    BY <2>4, <2>5, <2>6 DEF FieldAt, u, s
<1>8. a \in [1..M -> S]
  BY <1>1, <1>3, <1>7 DEF Joined
<1>9. a \in Seq(S) /\ Len(a) = M
  BY <1>8, FunctionIsSeq
<1>10. ASSUME NEW k \in 1..(M + F) PROVE FieldAt(q, F, k) = (a \o b)[k]
  <2>1. CASE k <= M
    <3>1. k \in 1..M /\ a[k] = FieldAt(q, F, k)
      BY <1>1, <1>3, <1>10, <2>1 DEF Joined
    <3> QED
      BY <1>6, <1>9, <3>1
  <2>2. CASE k > M
    <3>1. PICK s \in 0..(F - 1) : k - 1 = F * m + s
      <4>1. (k - 1) - M \in 0..(F - 1)
        BY <1>10, <2>2
      <4> QED
        BY <1>3, <4>1
    <3>2. k - 1 \in Nat
      BY <1>10
    <3>3. (k - 1) \div F = m /\ (k - 1) % F = s
      BY <3>1, <3>2, DivModUnique
    <3>4. FieldAt(q, F, k) = b[s + 1]
      BY <1>2, <3>3 DEF FieldAt
    <3>5. k - M = s + 1 /\ k - M \in 1..F
      BY <1>3, <3>1
    <3> QED
      BY <1>6, <1>9, <1>10, <2>2, <3>4, <3>5
  <2>3. k <= M \/ k > M
    BY <1>10
  <2> QED
    BY <2>1, <2>2, <2>3
<1>11. PICK c : c = a \o b
  OBVIOUS
<1>12. c \in Seq(S) /\ Len(c) = M + F /\ DOMAIN c = 1..(M + F)
  <2>1. a \o b \in Seq(S) /\ Len(a \o b) = Len(a) + Len(b)
    BY <1>6, <1>9, ConcatType
  <2>2. c \in Seq(S) /\ Len(c) = M + F
    BY <1>6, <1>9, <1>11, <2>1
  <2>3. DOMAIN c = 1..Len(c)
    BY <2>2
  <2> QED
    BY <2>2, <2>3
<1>13. c = [k \in 1..(M + F) |-> c[k]]
  <2>1. c \in [1..(M + F) -> S]
    BY <1>12, SeqIsFunction
  <2> QED
    BY <2>1
<1> QED
  BY <1>1, <1>2, <1>4, <1>10, <1>11, <1>13 DEF Joined

LEMMA FlattenIsJoined ==
  ASSUME NEW F \in Nat \ {0}, NEW S, NEW q \in Seq([1..F -> S]), q # <<>>
  PROVE  FlattenSeq(q) = Joined(q, F, Len(q))
<1>1. PICK N \in Nat : N = Len(q) /\ N # 0
  OBVIOUS
<1>2. PICK g : g = [m \in 1..N |-> Joined(q, F, m)]
  OBVIOUS
<1>3. Joined(q, F, 1) = q[1]
  <2>1. PICK b : b = q[1]
    OBVIOUS
  <2>2. b \in [1..F -> S]
    BY <1>1, <2>1
  <2>3. ASSUME NEW k \in 1..F PROVE FieldAt(q, F, k) = b[k]
    <3>1. k - 1 \in Nat /\ k - 1 = F * 0 + (k - 1) /\ k - 1 \in 0..(F - 1)
      OBVIOUS
    <3>2. (k - 1) \div F = 0 /\ (k - 1) % F = k - 1
      BY <3>1, DivModUnique
    <3> QED
      BY <2>1, <3>1, <3>2 DEF FieldAt
  <2>4. F * 1 = F
    OBVIOUS
  <2> QED
    BY <2>1, <2>2, <2>3, <2>4 DEF Joined
<1>4. ASSUME NEW m \in 1..N PROVE g[m] = IF m = 1 THEN q[m] ELSE g[m - 1] \o q[m]
  <2>1. CASE m = 1
    BY <1>2, <1>3, <1>4, <2>1
  <2>2. CASE m # 1
    <3>1. PICK d \in Nat : m = d + 1 /\ d \in 1..N
      BY <2>2
    <3>2. d + 1 <= Len(q)
      BY <1>1, <3>1
    <3>3. Joined(q, F, d + 1) = Joined(q, F, d) \o q[d + 1]
      BY <3>2, JoinedNext
    <3>4. g[m] = Joined(q, F, d + 1) /\ g[m - 1] = Joined(q, F, d)
      BY <1>2, <3>1
    <3> QED
      BY <2>2, <3>1, <3>3, <3>4
  <2> QED
    BY <2>1, <2>2
<1>5. IsJoined(g, q)
  BY <1>1, <1>2, <1>4 DEF IsJoined
<1>6. PICK f : f = CHOOSE h : IsJoined(h, q)
  OBVIOUS
<1>7. IsJoined(f, q)
  BY <1>5, <1>6
<1>8. FlattenSeq(q) = f[N]
  BY <1>1, <1>6 DEF FlattenSeq, IsJoined
<1> DEFINE G == {n \in Nat : n + 1 \in 1..N => f[n + 1] = g[n + 1]}
<1>9. 0 \in G
  BY <1>1, <1>5, <1>7 DEF IsJoined
<1>10. ASSUME NEW n \in Nat, n \in G PROVE n + 1 \in G
  <2> SUFFICES ASSUME (n + 1) + 1 \in 1..N PROVE f[(n + 1) + 1] = g[(n + 1) + 1]
    OBVIOUS
  <2>1. f[n + 1] = g[n + 1] /\ (n + 1) + 1 # 1 /\ ((n + 1) + 1) - 1 = n + 1
    BY <1>10
  <2>2. f[(n + 1) + 1] = f[n + 1] \o q[(n + 1) + 1]
    BY <1>1, <1>7, <2>1 DEF IsJoined
  <2>3. g[(n + 1) + 1] = g[n + 1] \o q[(n + 1) + 1]
    BY <1>4, <2>1
  <2> QED
    BY <2>1, <2>2, <2>3
<1> HIDE DEF G
<1>11. \A n \in Nat : n \in G
  BY <1>9, <1>10, Induction
<1>12. N - 1 \in Nat /\ (N - 1) + 1 = N /\ N \in 1..N
  BY <1>1
<1>13. f[N] = g[N]
  BY <1>11, <1>12 DEF G
<1> QED
  BY <1>1, <1>2, <1>8, <1>12, <1>13

-----------------------------------------------------------------------------
(***************************************************************************)
(* Preconditions: what validate_precondition shows of a stretch of blocks, *)
(* and of stretches that were stitched.                                    *)
(***************************************************************************)

\* What the loop of validate_precondition compares, stated of the proposal's outputs.
LEMMA ValidationShows ==
  ASSUME NEW p \in ProposalData, NEW o \in AgreedRoots, NEW c, NEW k \in Nat,
         NEW roots, DOMAIN roots = 1..k, \A i \in 1..k : roots[i] = ChainFrom(o, c, i),
         ValidatePrecondition(p, o.n, roots)
  PROVE  Validated(p, o, c, o.n + k)
<1>1. PICK head \in Nat, count \in Nat \ {0}, span \in Nat \ {0}, n \in Nat :
        head = p.head /\ count = p.count /\ span = p.span /\ n = o.n
  BY DEF ProposalData, AgreedRoots
<1>2. PICK last \in Nat : last = head + count * span /\ last = EndOf(p)
  BY <1>1 DEF EndOf
<1>3. head <= n /\ n <= last
  BY <1>1, <1>2 DEF ValidatePrecondition
<1>4. ASSUME NEW i \in 1..k
      PROVE  LET x == (n + i - head) \div span - 1 IN
             /\ n + i <= last
             /\ (n + i - head) % span = 0 => IF x < count - 1 THEN FieldMatches(p, x, roots[i])
                                                             ELSE TrailIsZero(p, x)
  BY <1>1, <1>2, <1>4 DEF ValidatePrecondition
<1>5. n + k <= last
  <2>1. CASE k = 0
    BY <1>3, <2>1
  <2>2. CASE k # 0
    <3>1. k \in 1..k
      BY <2>2
    <3> QED
      BY <1>4, <3>1
  <2> QED
    BY <2>1, <2>2
<1>6. ASSUME NEW i \in 1..count, n < head + i * span, head + i * span <= n + k
      PROVE  IF i < count THEN FieldMatches(p, i - 1, ChainFrom(o, c, head + i * span - n))
                          ELSE TrailIsZero(p, i - 1)
  <2>1. PICK w \in Nat : w = i * span /\ w = span * i + 0
    OBVIOUS
  <2>2. PICK x \in 1..k : x = head + w - n
    <3>1. head + w - n \in 1..k
      BY <1>6, <2>1
    <3> QED
      BY <3>1
  <2>3. n + x - head = w
    BY <2>2
  <2>4. w \div span = i /\ w % span = 0
    BY <2>1, DivModUnique
  <2>5. IF i - 1 < count - 1 THEN FieldMatches(p, i - 1, roots[x]) ELSE TrailIsZero(p, i - 1)
    BY <1>4, <2>3, <2>4
  <2>6. (i - 1 < count - 1) = (i < count)
    BY <1>6
  <2>7. roots[x] = ChainFrom(o, c, head + i * span - n)
    BY <2>1, <2>2
  <2> QED
    BY <2>5, <2>6, <2>7
<1>7. ASSUME NEW i \in 1..(count - 1), n < head + i * span, head + i * span <= n + k
      PROVE  FieldMatches(p, i - 1, ChainFrom(o, c, head + i * span - n))
  <2>1. i \in 1..count /\ i < count
    BY <1>7
  <2> QED
    BY <1>6, <1>7, <2>1
<1>8. n < last /\ last <= n + k => TrailIsZero(p, count - 1)
  <2>1. count \in 1..count /\ ~(count < count)
    OBVIOUS
  <2> QED
    BY <1>2, <1>6, <2>1
<1> QED
  BY <1>1, <1>2, <1>3, <1>5, <1>7, <1>8 DEF Validated

\* What is validated of two stretches of a chain is validated of both together.
LEMMA ValidatedCompose ==
  ASSUME NEW p \in ProposalData, NEW o \in AgreedRoots, NEW c \in Attributes, NEW k \in Nat,
         NEW n \in Nat, Validated(p, o, c, o.n + k), Validated(p, ChainFrom(o, c, k), c, n),
         o.n + k <= n
  PROVE  Validated(p, o, c, n)
<1>1. PICK head \in Nat, count \in Nat \ {0}, span \in Nat \ {0}, a \in Nat :
        head = p.head /\ count = p.count /\ span = p.span /\ a = o.n
  BY DEF ProposalData, AgreedRoots
<1>2. PICK last \in Nat : last = EndOf(p)
  BY <1>1 DEF EndOf
<1>3. PICK m : m = ChainFrom(o, c, k)
  OBVIOUS
<1>4. m.n = a + k
  BY <1>1, <1>3, ChainType
<1>5. head <= a /\ n <= last
  BY <1>1, <1>2 DEF Validated
<1>6. ASSUME NEW i \in 1..(count - 1), a < head + i * span, head + i * span <= n
      PROVE  FieldMatches(p, i - 1, ChainFrom(o, c, head + i * span - a))
  <2>1. PICK w \in Nat : w = head + i * span
    OBVIOUS
  <2>2. CASE w <= a + k
    BY <1>1, <1>6, <2>1, <2>2 DEF Validated
  <2>3. CASE a + k < w
    <3>1. FieldMatches(p, i - 1, ChainFrom(m, c, w - (a + k)))
      BY <1>1, <1>3, <1>4, <1>6, <2>1, <2>3 DEF Validated
    <3>2. PICK d \in Nat : d = w - (a + k)
      BY <2>3
    <3>3. ChainFrom(m, c, d) = ChainFrom(o, c, k + d)
      BY <1>3, ChainsCompose
    <3>4. k + d = w - a
      BY <3>2
    <3> QED
      BY <2>1, <3>1, <3>2, <3>3, <3>4
  <2> QED
    BY <2>2, <2>3
<1>7. a < last /\ last <= n => TrailIsZero(p, count - 1)
  <2>1. CASE last <= a + k
    BY <1>1, <1>2, <2>1 DEF Validated
  <2>2. CASE a + k < last
    BY <1>1, <1>2, <1>3, <1>4, <2>2 DEF Validated
  <2> QED
    BY <2>1, <2>2
<1> QED
  BY <1>1, <1>2, <1>5, <1>6, <1>7 DEF Validated

\* The accepted configurations.
LEMMA AcceptedConfig ==
  ASSUME NEW c \in Attributes, ConfigHash(c) # Unsafe
  PROVE  c \in {Absent, Given}
BY DEF ConfigHash, SafeDefault, Attributes, Absent, Sentinel, Given, Unsafe

LEMMA AcceptedIsSafe ==
  ASSUME NEW c \in {Absent, Given}
  PROVE  c \in Attributes /\ ConfigHash(c) # Unsafe
BY DEF ConfigHash, SafeDefault, Attributes, Absent, Sentinel, Given, Unsafe

\* Two validated journals for adjacent stretches of one chain, stitched.
LEMMA StitchValidated ==
  ASSUME NEW x, NEW y, NEW s, IsValidated(x), IsValidated(y), IsDerived(x), IsDerived(y),
         x.claimed = y.agreed, x.l1 = y.l1, x.config = y.config, x.precondition = y.precondition,
         s.l1 = x.l1, s.config = x.config, s.precondition = x.precondition,
         s.agreed = x.agreed, s.number = y.number
  PROVE  IsValidated(s)
<1> SUFFICES ASSUME s.l1 # NoHead, s.precondition # NoProposal
             PROVE  /\ s.precondition \in ProposalData
                    /\ \E c \in {Absent, Given} : ConfigHash(c) = s.config
                         /\ Validated(s.precondition, s.agreed, c, s.number)
  BY DEF IsValidated
<1>1. PICK p : p = x.precondition /\ p = y.precondition /\ p = s.precondition
  OBVIOUS
<1>2. p \in ProposalData
  BY <1>1 DEF IsValidated
<1>3. PICK c \in {Absent, Given} : ConfigHash(c) = x.config /\ Validated(p, x.agreed, c, x.number)
  BY <1>1 DEF IsValidated
<1>4. PICK d \in {Absent, Given} : ConfigHash(d) = y.config /\ Validated(p, y.agreed, d, y.number)
  BY <1>1 DEF IsValidated
<1>5. c = d /\ c \in Attributes
  <2>1. c \in Attributes /\ d \in Attributes /\ ConfigHash(c) # Unsafe
    BY AcceptedIsSafe
  <2>2. SafeDefault(c) = SafeDefault(d) /\ SafeDefault(c) # Unsafe
    BY <1>3, <1>4, <2>1 DEF ConfigHash
  <2> QED
    BY <2>1, <2>2, HashIsInjective
<1>6. /\ x.agreed \in AgreedRoots /\ x.agreed.n \in Nat /\ y.agreed.n \in Nat /\ y.claimed.n \in Nat
      /\ x.agreed.n <= y.agreed.n /\ y.agreed.n <= y.claimed.n
      /\ x.number = y.agreed.n /\ y.number = y.claimed.n
  BY DEF IsDerived, AgreedRoots
<1>7. PICK k \in Nat : k = x.number - x.agreed.n
  BY <1>6
<1>8. y.agreed = ChainFrom(x.agreed, c, k)
  BY <1>3, <1>5, <1>7 DEF IsDerived
<1>9. x.agreed.n + k = x.number
  BY <1>6, <1>7
<1>10. PICK n \in Nat : n = y.number /\ x.agreed.n + k <= n
  BY <1>6, <1>9
<1>11. Validated(p, x.agreed, c, x.agreed.n + k) /\ Validated(p, ChainFrom(x.agreed, c, k), c, n)
  BY <1>3, <1>4, <1>5, <1>8, <1>9, <1>10
<1>12. Validated(p, x.agreed, c, n)
  BY <1>2, <1>5, <1>6, <1>10, <1>11, ValidatedCompose
<1> QED
  BY <1>1, <1>2, <1>3, <1>10, <1>12

-----------------------------------------------------------------------------
(***************************************************************************)
(* The steps of a run that validates a proposal.                           *)
(***************************************************************************)

Runs(r) == r # Idle /\ r.boot.l1 # NoHead => Validating(r)

LEMMA BootValidates ==
  ASSUME ClientInv, NEW b \in host.boots, Boot(b)
  PROVE  Runs(run')
<1>1. CASE b.number < b.agreed.n
  BY <1>1 DEF Boot, Panic, Runs
<1>2. CASE ~(b.number < b.agreed.n)
  <2>1. PICK r : r = run'
    OBVIOUS
  <2>2. r = [pc |-> IF b.l1 = NoHead THEN "execute" ELSE "load", boot |-> b,
             latest |-> b.agreed, roots |-> <<>>, cache |-> <<>>,
             precondition |-> NoProposal, journal |-> Idle]
    BY <1>2, <2>1 DEF Boot
  <2>3. Validating(r)
    BY <2>2 DEF Validating
  <2> QED
    BY <2>1, <2>3 DEF Runs
<1> QED
  BY <1>1, <1>2

\* A run that executes a trace validates no proposal.
LEMMA ExecutingValidates ==
  ASSUME ClientInv, (\E e : Execute(e)) \/ Executed
  PROVE  Runs(run')
<1>1. RunTypes(run) /\ run.boot.l1 = NoHead
  BY RunFacts DEF Execute, Executed, IsRun, Deriving
<1>2. run' = Idle \/ run'.boot = run.boot
  BY <1>1 DEF Execute, Executed, Panic, RunTypes
<1> QED
  BY <1>1, <1>2 DEF Runs

LEMMA ValidatingFacts ==
  ASSUME ClientInv, PreconditionInv, run.pc # "idle", run.boot.l1 # NoHead
  PROVE  Validating(run) /\ RunTypes(run) /\ Deriving(run) /\ Claiming(run) /\ host \in Hosts
<1>1. run # Idle
  BY DEF Idle
<1> QED
  BY <1>1, RunFacts DEF PreconditionInv, IsRun, ClientInv

LEMMA LoadValidates ==
  ASSUME ClientInv, PreconditionInv, NEW blobs, LoadPrecondition(blobs)
  PROVE  Runs(run')
<1>1. RunTypes(run) /\ run.pc = "load"
  BY RunFacts DEF LoadPrecondition
<1>2. CASE run' = Idle \/ run.boot.l1 = NoHead
  BY <1>1, <1>2 DEF Runs, LoadPrecondition, RunTypes, Panic
<1>3. CASE run' # Idle /\ run.boot.l1 # NoHead
  <2>1. PICK r : r = run'
    OBVIOUS
  <2>2. r = [run EXCEPT !.pc = "derive", !.precondition = host.proposal]
    BY <1>3, <2>1 DEF LoadPrecondition, Panic
  <2>3. /\ r.pc = "derive" /\ r.precondition = host.proposal /\ r.roots = run.roots
        /\ r.cache = run.cache /\ r.boot = run.boot
    BY <1>1, <2>2 DEF RunTypes
  <2>4. Validating(run) /\ host \in Hosts
    BY <1>1, <1>3, ValidatingFacts
  <2>5. host.proposal # NoProposal => host.proposal \in ProposalData
    BY <2>4, HostsAssumption
  <2>6. Validating(r)
    BY <2>3, <2>4, <2>5 DEF Validating, Trusted
  <2> QED
    BY <2>1, <2>6 DEF Runs
<1> QED
  BY <1>2, <1>3

\* A block is derived: run r has one more root.
LEMMA DeriveValidates ==
  ASSUME ClientInv, PreconditionInv, CanDerive, NEW r, IsRun(r), NEW o \in OutputRoots,
         r.pc = "derive", r.boot = run.boot, r.latest = o, r.roots = Append(run.roots, o),
         r.precondition = run.precondition, Trusted(r) => Trusted(run)
  PROVE  Runs(r)
<1> SUFFICES ASSUME run.boot.l1 # NoHead PROVE Validating(r)
  BY DEF Runs
<1>1. Validating(run) /\ RunTypes(run)
  BY ValidatingFacts DEF CanDerive
<1>2. PICK k \in Nat : k = Len(run.roots)
  BY <1>1 DEF RunTypes
<1>3. /\ Len(r.roots) = k + 1 /\ DOMAIN r.roots = 1..(k + 1) /\ r.roots[k + 1] = o
      /\ \A i \in 1..k : r.roots[i] = run.roots[i] /\ i \in DOMAIN run.roots
  BY <1>1, <1>2 DEF RunTypes
<1>4. Trusted(r) => o = ChainFrom(r.boot.agreed, r.boot.config, k + 1)
  BY <1>3 DEF IsRun, Deriving
<1>5. Trusted(r) => \A i \in DOMAIN r.roots :
                      r.roots[i] = ChainFrom(r.boot.agreed, r.boot.config, i)
  <2> SUFFICES ASSUME Trusted(r), NEW i \in 1..(k + 1)
               PROVE  r.roots[i] = ChainFrom(r.boot.agreed, r.boot.config, i)
    BY <1>3
  <2>1. CASE i = k + 1
    BY <1>3, <1>4, <2>1
  <2>2. CASE i # k + 1
    <3>1. i \in 1..k
      BY <2>2
    <3> QED
      BY <1>1, <1>3, <3>1 DEF Validating
  <2> QED
    BY <2>1, <2>2
<1> QED
  BY <1>1, <1>5 DEF Validating

LEMMA ExecutedDeriveValidates ==
  ASSUME ClientInv, PreconditionInv, Derive
  PROVE  Runs(run')
<1>1. RunTypes(run) /\ CanDerive /\ run.pc = "derive"
  BY RunFacts DEF Derive, CanDerive
<1>2. PICK r, o : r = run' /\ o = Build(run.latest, Derived(run.boot.config))
  OBVIOUS
<1>3. r = [run EXCEPT !.latest = o, !.roots = Append(run.roots, o)]
  BY <1>2 DEF Derive
<1>4. /\ r.pc = "derive" /\ r.boot = run.boot /\ r.latest = o /\ r.roots = Append(run.roots, o)
      /\ r.precondition = run.precondition /\ r.cache = run.cache
  BY <1>1, <1>3 DEF RunTypes
<1>5. o \in OutputRoots
  BY <1>1, <1>2 DEF RunTypes, Derived, Tags, Attributes, OutputRoots, Build, Root
<1>6. IsRun(r)
  BY <1>2, DeriveRuns
<1>7. Trusted(r) => Trusted(run)
  BY <1>4 DEF Trusted
<1> QED
  BY <1>1, <1>2, <1>4, <1>5, <1>6, <1>7, DeriveValidates

LEMMA CachedDeriveValidates ==
  ASSUME ClientInv, PreconditionInv,
         NEW e \in Executions(run.latest, Derived(run.boot.config)), DeriveCached(e)
  PROVE  Runs(run')
<1>1. RunTypes(run) /\ CanDerive /\ run.pc = "derive"
  BY RunFacts DEF DeriveCached, CanDerive
<1>2. PICK r : r = run'
  OBVIOUS
<1>3. r = [run EXCEPT !.latest = e.header, !.roots = Append(run.roots, e.header),
                      !.cache = Append(run.cache, e)]
  BY <1>2 DEF DeriveCached
<1>4. /\ r.pc = "derive" /\ r.boot = run.boot /\ r.latest = e.header
      /\ r.roots = Append(run.roots, e.header)
      /\ r.precondition = run.precondition /\ r.cache = Append(run.cache, e)
  BY <1>1, <1>3 DEF RunTypes
<1>5. run.latest \in OutputRoots /\ run.cache \in Seq(ExecutionRecords)
  BY <1>1 DEF RunTypes
<1>6. IsRun(r)
  BY <1>2, DeriveCachedRuns
<1>7. e.header \in OutputRoots
  BY <1>4, <1>6 DEF IsRun, RunTypes
<1>8. Trusted(r) => Trusted(run)
  <2>1. \A i \in DOMAIN run.cache : i \in DOMAIN r.cache /\ r.cache[i] = run.cache[i]
    BY <1>4, <1>5
  <2> QED
    BY <2>1 DEF Trusted
<1> QED
  BY <1>1, <1>2, <1>4, <1>6, <1>7, <1>8, DeriveValidates

LEMMA EpilogueValidates ==
  ASSUME ClientInv, PreconditionInv, Epilogue
  PROVE  Runs(run')
<1>1. RunTypes(run) /\ run.pc = "derive"
  BY RunFacts DEF Epilogue
<1>2. CASE run' = Idle \/ run.boot.l1 = NoHead
  BY <1>1, <1>2 DEF Runs, Epilogue, RunTypes, Panic, Go
<1>3. CASE run' # Idle /\ run.boot.l1 # NoHead
  <2>1. PICK r : r = run'
    OBVIOUS
  <2>2. /\ r = [run EXCEPT !.pc = "claim"]
        /\ \/ run.precondition = NoProposal
           \/ ValidatePrecondition(run.precondition, run.boot.agreed.n, run.roots)
    BY <1>3, <2>1 DEF Epilogue, Panic, Go
  <2>3. /\ r.pc = "claim" /\ r.precondition = run.precondition /\ r.roots = run.roots
        /\ r.cache = run.cache /\ r.boot = run.boot
    BY <1>1, <2>2 DEF RunTypes
  <2>4. Validating(run)
    BY <1>1, <1>3, ValidatingFacts
  <2>5. Validating(r)
    BY <2>2, <2>3, <2>4 DEF Validating, Trusted
  <2> QED
    BY <2>1, <2>5 DEF Runs
<1> QED
  BY <1>2, <1>3

LEMMA ClaimValidates ==
  ASSUME ClientInv, PreconditionInv, NEW claimed, Claim(claimed)
  PROVE  Runs(run')
<1>1. RunTypes(run) /\ run.pc = "claim"
  BY RunFacts DEF Claim
<1>2. CASE run' = Idle \/ run.boot.l1 = NoHead
  BY <1>1, <1>2 DEF Runs, Claim, RunTypes, Panic
<1>3. CASE run' # Idle /\ run.boot.l1 # NoHead
  <2>1. PICK r, j : /\ r = run'
                    /\ j = Journal(run.precondition, run.boot.l1, run.boot.agreed, claimed,
                                   run.boot.number, run.boot.config)
    OBVIOUS
  <2>2. /\ r = [run EXCEPT !.pc = "traces", !.journal = j]
        /\ claimed = IF run.latest.n = run.boot.number THEN run.latest ELSE Zero
        /\ ConfigHash(run.boot.config) # Unsafe
    BY <1>3, <2>1 DEF Claim, Panic
  <2>3. /\ r.pc = "traces" /\ r.precondition = run.precondition /\ r.roots = run.roots
        /\ r.cache = run.cache /\ r.boot = run.boot /\ r.journal = j
    BY <1>1, <2>2 DEF RunTypes
  <2>4. Validating(run) /\ Deriving(run)
    BY <1>1, <1>3, ValidatingFacts
  <2>5. ASSUME j.claimed # Zero, Trusted(run), run.precondition # NoProposal
        PROVE  IsValidated(j)
    <3>1. /\ j.precondition = run.precondition /\ j.agreed = run.boot.agreed
          /\ j.number = run.boot.number /\ j.config = ConfigHash(run.boot.config)
          /\ j.claimed = claimed
      BY <2>1 DEF Journal
    <3>2. run.boot.agreed \in AgreedRoots /\ run.boot.config \in {Absent, Given}
      BY <1>1, <2>2, AcceptedConfig DEF RunTypes, BootRecords
    <3>3. PICK k \in Nat : k = Len(run.roots) /\ DOMAIN run.roots = 1..k
      BY <1>1 DEF RunTypes
    <3>4. run.boot.number = run.boot.agreed.n + k
      BY <2>2, <2>4, <2>5, <3>1, <3>3 DEF Deriving
    <3>5. \A i \in 1..k : run.roots[i] = ChainFrom(run.boot.agreed, run.boot.config, i)
      BY <2>4, <2>5, <3>3 DEF Validating
    <3>6. /\ run.precondition \in ProposalData
          /\ ValidatePrecondition(run.precondition, run.boot.agreed.n, run.roots)
      BY <1>1, <2>4, <2>5 DEF Validating
    <3>7. Validated(run.precondition, run.boot.agreed, run.boot.config, run.boot.agreed.n + k)
      BY <3>2, <3>3, <3>5, <3>6, ValidationShows
    <3> QED
      BY <3>1, <3>2, <3>4, <3>6, <3>7 DEF IsValidated
  <2>6. run.precondition = NoProposal => IsValidated(j)
    BY <2>1 DEF Journal, IsValidated
  <2>7. Trusted(r) <=> Trusted(run)
    BY <2>3 DEF Trusted
  <2>8. Validating(r)
    BY <2>3, <2>4, <2>5, <2>6, <2>7 DEF Validating
  <2> QED
    BY <2>1, <2>8 DEF Runs
<1> QED
  BY <1>2, <1>3

LEMMA StitchExecutionsValidates ==
  ASSUME ClientInv, PreconditionInv, NEW traces \in Splits(run.cache), StitchExecutions(traces)
  PROVE  Runs(run')
<1>1. RunTypes(run) /\ run.pc = "traces"
  BY RunFacts DEF StitchExecutions
<1>2. CASE run' = Idle \/ run.boot.l1 = NoHead
  BY <1>1, <1>2 DEF Runs, StitchExecutions, RunTypes, Panic, Go
<1>3. CASE run' # Idle /\ run.boot.l1 # NoHead
  <2>1. PICK r : r = run'
    OBVIOUS
  <2>2. /\ r = [run EXCEPT !.pc = "boots"]
        /\ \A k \in DOMAIN traces : TraceIsProven(traces[k])
    BY <1>3, <2>1 DEF StitchExecutions, Panic, Go
  <2>3. /\ r.pc = "boots" /\ r.precondition = run.precondition /\ r.roots = run.roots
        /\ r.cache = run.cache /\ r.boot = run.boot /\ r.journal = run.journal
    BY <1>1, <2>2 DEF RunTypes
  <2>4. Validating(run)
    BY <1>1, <1>3, ValidatingFacts
  <2>5. Trusted(run) /\ Trusted(r)
    BY <1>1, <2>2, <2>3, ProvenTracesAreTrusted DEF RunTypes, Trusted
  <2>6. Validating(r)
    BY <1>1, <2>3, <2>4, <2>5 DEF Validating
  <2> QED
    BY <2>1, <2>6 DEF Runs
<1> QED
  BY <1>2, <1>3

LEMMA StitchBootValidates ==
  ASSUME ClientInv, PreconditionInv, NEW b, StitchBoot(b)
  PROVE  Runs(run')
<1>1. RunTypes(run) /\ run.pc = "boots" /\ Claiming(run)
  BY RunFacts DEF StitchBoot
<1>2. CASE run' = Idle
  BY <1>2 DEF Runs
<1>3. CASE run' # Idle
  <2>1. PICK p \in proven : \E s : IsStitched(run.journal, p, s) /\ run' = WithJournal(s)
    BY <1>3, StitchBootStep
  <2>2. PICK s : IsStitched(run.journal, p, s) /\ run' = WithJournal(s)
    BY <2>1
  <2>3. PICK r, j : r = run' /\ j = run.journal
    OBVIOUS
  <2>4. /\ r.pc = "boots" /\ r.precondition = run.precondition /\ r.roots = run.roots
        /\ r.cache = run.cache /\ r.boot = run.boot /\ r.journal = s
    BY <2>2, <2>3 DEF WithJournal
  <2>5. CASE run.boot.l1 = NoHead
    BY <2>3, <2>4, <2>5 DEF Runs
  <2>6. CASE run.boot.l1 # NoHead
    <3>1. Validating(run)
      BY <1>1, <2>6, ValidatingFacts
    <3>2. j.claimed = Zero \/ (IsDerived(j) /\ IsValidated(j))
      BY <1>1, <2>3, <2>6, <3>1 DEF Claiming, Validating, IsGood
    <3>3. j.l1 # NoHead
      BY <1>1, <2>3, <2>6 DEF Claiming
    <3>4. IsDerived(p) /\ IsValidated(p)
      <4>1. p.l1 = j.l1
        BY <2>2, <2>3 DEF IsStitched
      <4> QED
        BY <3>3, <4>1 DEF ClientInv, PreconditionInv, IsGood
    <3>5. s.claimed = Zero \/ IsValidated(s)
      <4>1. CASE j.claimed = Zero
        <5>1. p.agreed # Zero
          BY <3>4 DEF IsDerived, Zero, Root, AgreedRoots
        <5> QED
          BY <2>2, <2>3, <4>1, <5>1 DEF IsStitched
      <4>2. CASE j.claimed # Zero /\ p.claimed = j.agreed /\ s.agreed = p.agreed
                 /\ s.claimed = j.claimed /\ s.number = j.number
        BY <2>2, <2>3, <3>2, <3>4, <4>2, StitchValidated DEF IsStitched
      <4>3. CASE j.claimed # Zero /\ p.agreed = j.claimed /\ s.agreed = j.agreed
                 /\ s.claimed = p.claimed /\ s.number = p.number
        BY <2>2, <2>3, <3>2, <3>4, <4>3, StitchValidated DEF IsStitched
      <4> QED
        BY <2>2, <2>3, <4>1, <4>2, <4>3 DEF IsStitched
    <3>6. Validating(r)
      BY <2>4, <3>1, <3>5 DEF Validating, Trusted
    <3> QED
      BY <2>3, <3>6 DEF Runs
  <2> QED
    BY <2>5, <2>6
<1> QED
  BY <1>2, <1>3

-----------------------------------------------------------------------------
LEMMA PreconditionInductive ==
  ASSUME ClientInv, PreconditionInv, [ClientNext]_clientVars
  PROVE  PreconditionInv'
<1>1. CASE Commit
  <2>1. run.pc = "boots" /\ Claiming(run)
    BY <1>1, RunFacts DEF Commit
  <2>2. /\ proven' = IF run.journal.claimed = Zero THEN proven ELSE proven \cup {run.journal}
        /\ run' = Idle
    BY <1>1 DEF Commit
  <2>3. run.journal.claimed # Zero => IsValidated(run.journal)
    <3>1. CASE run.boot.l1 = NoHead
      BY <2>1, <3>1 DEF Claiming, IsValidated
    <3>2. CASE run.boot.l1 # NoHead
      BY <2>1, <3>2, ValidatingFacts DEF Validating
    <3> QED
      BY <3>1, <3>2
  <2>4. \A j \in proven' : IsValidated(j)
    BY <2>2, <2>3 DEF PreconditionInv
  <2> QED
    BY <2>2, <2>4 DEF PreconditionInv
<1>2. CASE UNCHANGED clientVars
  BY <1>2 DEF PreconditionInv, clientVars
<1>3. CASE ClientNext /\ ~Commit
  <2>1. proven' = proven
    BY <1>3 DEF ClientNext, Boot, Execute, Executed, LoadPrecondition, Derive, DeriveCached,
                Epilogue, Claim, StitchExecutions, StitchBoot
  <2>2. Runs(run')
    BY <1>3, BootValidates, ExecutingValidates, LoadValidates, ExecutedDeriveValidates,
       CachedDeriveValidates, EpilogueValidates, ClaimValidates, StitchExecutionsValidates,
       StitchBootValidates DEF ClientNext
  <2> QED
    BY <2>1, <2>2 DEF PreconditionInv, Runs
<1> QED
  BY <1>1, <1>2, <1>3

\* Field i of a proposal is where validate_precondition looks for it.
LEMMA FieldPlace ==
  ASSUME NEW p \in ProposalData, NEW i \in Nat \ {0}, i <= NumFields(p)
  PROVE  FieldOf(p, i) = p.blobs[((i - 1) \div FieldsPerBlob) + 1][((i - 1) % FieldsPerBlob) + 1]
<1>1. PICK F \in Nat \ {0} : F = FieldsPerBlob
  BY HostsAssumption
<1>2. PICK q \in Seq([1..F -> Nat]) : q = p.blobs
  BY <1>1 DEF ProposalData
<1>3. PICK N \in Nat : N = Len(q)
  OBVIOUS
<1>4. N * F = F * N /\ i <= F * N
  BY <1>1, <1>2, <1>3 DEF NumFields
<1>5. N # 0
  BY <1>4
<1>6. q # <<>>
  BY <1>3, <1>5
<1>7. FlattenSeq(q) = Joined(q, F, N)
  BY <1>3, <1>6, FlattenIsJoined
<1>8. i \in 1..(F * N)
  BY <1>4
<1>9. FlattenSeq(q)[i] = FieldAt(q, F, i)
  BY <1>7, <1>8 DEF Joined
<1> QED
  BY <1>1, <1>2, <1>9 DEF FieldOf, FieldAt

\* A place is in the blobs if it is counted among the fields.
LEMMA FieldRange ==
  ASSUME NEW p \in ProposalData, NEW k \in Nat
  PROVE  (k \div FieldsPerBlob) + 1 \in DOMAIN p.blobs <=> k + 1 <= NumFields(p)
<1>1. PICK F \in Nat \ {0} : F = FieldsPerBlob
  BY HostsAssumption
<1>2. PICK q \in Seq([1..F -> Nat]) : q = p.blobs
  BY <1>1 DEF ProposalData
<1>3. PICK N \in Nat : N = Len(q) /\ DOMAIN q = 1..N
  OBVIOUS
<1>4. PICK u \in Nat, s \in 0..(F - 1) : u = k \div F /\ k = F * u + s
  BY DivMod
<1>5. CASE u + 1 <= N
  <2>1. PICK d \in Nat : N = (u + 1) + d
    BY <1>5
  <2>2. N * F = F * u + F + F * d /\ F * u \in Nat /\ F * d \in Nat
    BY <2>1
  <2>3. k + 1 <= N * F
    BY <1>4, <2>2
  <2>4. u + 1 \in 1..N
    BY <1>5
  <2> QED
    BY <1>1, <1>2, <1>3, <1>4, <2>3, <2>4 DEF NumFields
<1>6. CASE N < u + 1
  <2>1. PICK d \in Nat : u = N + d
    BY <1>6
  <2>2. F * u = N * F + F * d /\ N * F \in Nat /\ F * d \in Nat
    BY <2>1
  <2>3. ~(k + 1 <= N * F)
    BY <1>4, <2>2
  <2>4. u + 1 \notin 1..N
    BY <1>6
  <2> QED
    BY <1>1, <1>2, <1>3, <1>4, <2>3, <2>4 DEF NumFields
<1> QED
  BY <1>5, <1>6

LEMMA MatchIsField ==
  ASSUME NEW p \in ProposalData, NEW i \in Nat \ {0}, NEW o, FieldMatches(p, i - 1, o)
  PROVE  i <= NumFields(p) /\ FieldOf(p, i) = HashToFe(o)
<1>1. i - 1 \in Nat /\ (i - 1) + 1 = i
  OBVIOUS
<1>2. i <= NumFields(p)
  BY <1>1, FieldRange DEF FieldMatches
<1> QED
  BY <1>2, FieldPlace DEF FieldMatches

LEMMA TrailIsZeros ==
  ASSUME NEW p \in ProposalData, p.count > 1, TrailIsZero(p, p.count - 1),
         NEW i \in p.count..NumFields(p)
  PROVE  FieldOf(p, i) = 0
<1>1. PICK F \in Nat \ {0} : F = FieldsPerBlob
  BY HostsAssumption
<1>2. PICK q \in Seq([1..F -> Nat]) : q = p.blobs
  BY <1>1 DEF ProposalData
<1>3. PICK N \in Nat : N = Len(q)
  OBVIOUS
<1>4. PICK c \in Nat : c = p.count /\ c > 1
  BY DEF ProposalData
<1>5. PICK u \in Nat, s \in 0..(F - 1) : u = (c - 1) \div F /\ s = (c - 1) % F /\ c - 1 = F * u + s
  <2>1. c - 1 \in Nat
    BY <1>4
  <2> QED
    BY <2>1, DivMod
<1>6. /\ u = N - 1
      /\ \A f \in s..(F - 1) : q[u + 1][f + 1] = 0
  BY <1>1, <1>2, <1>3, <1>4, <1>5 DEF TrailIsZero
<1>7. NumFields(p) = N * F
  BY <1>1, <1>2, <1>3 DEF NumFields
<1>8. i \in Nat /\ c <= i /\ i <= N * F
  BY <1>4, <1>7
<1>9. PICK f \in s..(F - 1) : i - 1 = F * u + f
  <2>1. N * F = F * u + F /\ F * u \in Nat
    <3>1. N = u + 1
      BY <1>6
    <3> QED
      BY <3>1
  <2>2. PICK w \in Nat : w = F * u
    BY <2>1
  <2>3. c - 1 = w + s /\ i <= w + F /\ c <= i /\ i \in Nat
    BY <1>5, <1>8, <2>1, <2>2
  <2>4. (i - 1) - w \in s..(F - 1)
    BY <2>3
  <2> QED
    BY <1>8, <2>2, <2>4
<1>10. (i - 1) \div F = u /\ (i - 1) % F = f
  <2>1. i - 1 \in Nat /\ f \in 0..(F - 1)
    <3>1. i \in Nat /\ 1 < i
      BY <1>4, <1>8
    <3>2. f \in 0..(F - 1)
      OBVIOUS
    <3> QED
      BY <3>1, <3>2
  <2> QED
    BY <1>9, <2>1, DivModUnique
<1>11. i \in Nat \ {0} /\ i <= NumFields(p)
  BY <1>4, <1>7, <1>8
<1>12. FieldOf(p, i) = q[u + 1][f + 1]
  BY <1>1, <1>2, <1>10, <1>11, FieldPlace
<1> QED
  BY <1>6, <1>9, <1>12

LEMMA ValidatedIsProven ==
  PreconditionInv => ProvenPreconditionsHold
<1> SUFFICES ASSUME PreconditionInv, NEW j \in proven, j.l1 # NoHead, j.precondition # NoProposal
             PROVE  LET p == j.precondition
                        covered(b) == j.agreed.n < b /\ b <= j.number IN
                    /\ p.head <= j.agreed.n /\ j.number <= EndOf(p)
                    /\ \A i \in 1..(p.count - 1) : covered(p.head + i * p.span) =>
                         /\ i <= NumFields(p)
                         /\ \E c \in {Absent, Given} :
                              /\ ConfigHash(c) = j.config
                              /\ FieldOf(p, i)
                                   = HashToFe(ChainFrom(j.agreed, c, p.head + i * p.span - j.agreed.n))
                    /\ (covered(EndOf(p)) /\ p.count > 1) =>
                         \A i \in p.count..NumFields(p) : FieldOf(p, i) = 0
  BY DEF ProvenPreconditionsHold
<1>1. IsValidated(j)
  BY DEF PreconditionInv
<1>2. PICK p \in ProposalData : p = j.precondition
  BY <1>1 DEF IsValidated
<1>3. PICK c \in {Absent, Given} : ConfigHash(c) = j.config /\ Validated(p, j.agreed, c, j.number)
  BY <1>1, <1>2 DEF IsValidated
<1>4. ASSUME NEW i \in 1..(p.count - 1), j.agreed.n < p.head + i * p.span,
             p.head + i * p.span <= j.number
      PROVE  /\ i <= NumFields(p)
             /\ FieldOf(p, i) = HashToFe(ChainFrom(j.agreed, c, p.head + i * p.span - j.agreed.n))
  <2>1. FieldMatches(p, i - 1, ChainFrom(j.agreed, c, p.head + i * p.span - j.agreed.n))
    BY <1>3, <1>4 DEF Validated
  <2>2. i \in Nat \ {0}
    BY DEF ProposalData
  <2> QED
    BY <2>1, <2>2, MatchIsField
<1>5. ASSUME j.agreed.n < EndOf(p), EndOf(p) <= j.number, p.count > 1,
             NEW i \in p.count..NumFields(p)
      PROVE  FieldOf(p, i) = 0
  <2>1. TrailIsZero(p, p.count - 1)
    BY <1>3, <1>5 DEF Validated
  <2> QED
    BY <1>5, <2>1, TrailIsZeros
<1>6. p.head <= j.agreed.n /\ j.number <= EndOf(p)
  BY <1>3 DEF Validated
<1> QED
  BY <1>2, <1>3, <1>4, <1>5, <1>6

\* A journal that commits to a proposal shows each of the proposal's intermediate outputs
\* between its agreed and its claimed block to be the derived one, and nothing to follow the
\* last of them, for any proposal, any number of fields in a blob, any cached executions and
\* any proofs stitched in any order.
THEOREM PreconditionsHold == ClientSpec => []ProvenPreconditionsHold
<1>1. ClientInit => ClientInv /\ PreconditionInv
  BY DEF ClientInit, ClientInv, PreconditionInv
<1>2. ClientInv /\ PreconditionInv /\ [ClientNext]_clientVars => ClientInv' /\ PreconditionInv'
  BY ClientInductive, PreconditionInductive
<1>3. PreconditionInv => ProvenPreconditionsHold
  BY ValidatedIsProven
<1> QED
  BY <1>1, <1>2, <1>3, PTL DEF ClientSpec

-----------------------------------------------------------------------------
(***************************************************************************)
(* A proposal that is right is accepted.                                   *)
(***************************************************************************)

\* The number of blobs of a proposal: where its last field lies.
LEMMA BlobCount ==
  ASSUME NEW F \in Nat \ {0}, NEW c \in Nat, c > 1, NEW N, N = (c + F - 2) \div F
  PROVE  /\ N \in Nat /\ c - 1 <= N * F
         /\ (c - 1) % F = 0 => (c - 1) \div F = N
         /\ (c - 1) % F # 0 => (c - 1) \div F = N - 1
<1>1. PICK x \in Nat : x = c - 1 /\ x >= 1
  OBVIOUS
<1>2. PICK u \in Nat, s \in 0..(F - 1) : u = x \div F /\ s = x % F /\ x = F * u + s
  BY DivMod
<1>3. c + F - 2 = x + F - 1
  BY <1>1
<1>4. x + F - 1 \in Nat
  BY <1>1
<1>5. PICK w \in Nat : w = F * u
  OBVIOUS
<1>6. x = w + s
  BY <1>2, <1>5
<1>7. CASE s = 0
  <2>1. x + F - 1 = F * u + (F - 1) /\ F - 1 \in 0..(F - 1)
    BY <1>5, <1>6, <1>7
  <2>2. (x + F - 1) \div F = u
    BY <1>4, <2>1, DivModUnique
  <2>3. N = u
    BY <1>3, <2>2
  <2>4. u * F = w
    BY <1>5
  <2> QED
    BY <1>1, <1>2, <1>6, <1>7, <2>3, <2>4
<1>8. CASE s # 0
  <2>1. F * (u + 1) = w + F
    BY <1>5
  <2>2. x + F - 1 = F * (u + 1) + (s - 1) /\ s - 1 \in 0..(F - 1)
    BY <1>6, <1>8, <2>1
  <2>3. (x + F - 1) \div F = u + 1
    BY <1>4, <2>2, DivModUnique
  <2>4. N = u + 1
    BY <1>3, <2>3
  <2>5. N * F = w + F
    BY <2>1, <2>4
  <2>6. x <= N * F
    BY <1>6, <2>5
  <2>7. N - 1 = u
    BY <2>4
  <2> QED
    BY <1>1, <1>2, <1>8, <2>4, <2>6, <2>7
<1> QED
  BY <1>7, <1>8

\* A field of a proposal is found where validate_precondition looks for it.
LEMMA FieldIsMatch ==
  ASSUME NEW p \in ProposalData, NEW i \in Nat \ {0}, i <= NumFields(p), NEW o,
         FieldOf(p, i) = HashToFe(o)
  PROVE  FieldMatches(p, i - 1, o)
<1>1. i - 1 \in Nat /\ (i - 1) + 1 = i
  OBVIOUS
<1>2. ((i - 1) \div FieldsPerBlob) + 1 \in DOMAIN p.blobs
  BY <1>1, FieldRange
<1> QED
  BY <1>2, FieldPlace DEF FieldMatches

\* Zeros after the outputs are seen to be zeros, unless the outputs fill the last blob.
LEMMA ZerosAreTrail ==
  ASSUME NEW p \in ProposalData, p.count > 1,
         Len(p.blobs) = (p.count + FieldsPerBlob - 2) \div FieldsPerBlob,
         \A i \in p.count..NumFields(p) : FieldOf(p, i) = 0
  PROVE  TrailIsZero(p, p.count - 1) <=> (p.count - 1) % FieldsPerBlob # 0
<1>1. PICK F \in Nat \ {0} : F = FieldsPerBlob
  BY HostsAssumption
<1>2. PICK q \in Seq([1..F -> Nat]) : q = p.blobs
  BY <1>1 DEF ProposalData
<1>3. PICK N \in Nat : N = Len(q)
  OBVIOUS
<1>4. PICK c \in Nat : c = p.count /\ c > 1
  BY DEF ProposalData
<1>5. N = (c + F - 2) \div F
  BY <1>1, <1>2, <1>3, <1>4
<1>6. /\ (c - 1) % F = 0 => (c - 1) \div F = N
      /\ (c - 1) % F # 0 => (c - 1) \div F = N - 1
  BY <1>4, <1>5, BlobCount
<1>7. CASE (c - 1) % F = 0
  BY <1>1, <1>2, <1>3, <1>4, <1>6, <1>7 DEF TrailIsZero
<1>8. CASE (c - 1) % F # 0
  <2>1. PICK u \in Nat, s \in 0..(F - 1) : u = (c - 1) \div F /\ s = (c - 1) % F /\ c - 1 = F * u + s
    <3>1. c - 1 \in Nat
      BY <1>4
    <3> QED
      BY <3>1, DivMod
  <2>2. u = N - 1
    BY <1>6, <1>8, <2>1
  <2>3. PICK w \in Nat : w = F * u
    OBVIOUS
  <2>4. N * F = w + F
    <3>1. N = u + 1
      BY <2>2
    <3> QED
      BY <2>3, <3>1
  <2>5. ASSUME NEW f \in s..(F - 1) PROVE q[u + 1][f + 1] = 0
    <3>1. f \in 0..(F - 1)
      OBVIOUS
    <3>2. PICK i \in Nat \ {0} : i = w + f + 1
      BY <3>1
    <3>3. c - 1 = w + s /\ c <= i /\ i <= w + F
      BY <2>1, <2>3, <2>5, <3>1, <3>2
    <3>4. i \in p.count..NumFields(p)
      BY <1>1, <1>2, <1>3, <1>4, <2>4, <3>2, <3>3 DEF NumFields
    <3>5. i - 1 = F * u + f /\ i - 1 \in Nat
      BY <2>3, <3>1, <3>2
    <3>6. (i - 1) \div F = u /\ (i - 1) % F = f
      BY <3>1, <3>5, DivModUnique
    <3>7. FieldOf(p, i) = q[u + 1][f + 1]
      <4>1. i <= NumFields(p)
        BY <1>1, <1>2, <1>3, <2>4, <3>3 DEF NumFields
      <4> QED
        BY <1>1, <1>2, <3>6, <4>1, FieldPlace
    <3> QED
      BY <3>4, <3>7
  <2> QED
    BY <1>1, <1>2, <1>3, <1>4, <1>8, <2>1, <2>2, <2>5 DEF TrailIsZero
<1> QED
  BY <1>1, <1>4, <1>7, <1>8

LEMMA WellFormedValidates ==
  ASSUME NEW p \in ProposalData, NEW c \in Attributes, NEW n \in Nat, NEW k \in Nat,
         NEW roots, DOMAIN roots = 1..k, \A i \in 1..k : roots[i] = ChainFrom(Genesis, c, n + i),
         p.head <= n, n + k <= EndOf(p), WellFormed(p, Genesis, c)
  PROVE  ValidatePrecondition(p, n, roots)
         <=> ~(p.count > 1 /\ (p.count - 1) % FieldsPerBlob = 0 /\ k > 0 /\ n + k = EndOf(p))
<1>1. PICK head \in Nat, count \in Nat \ {0}, span \in Nat \ {0} :
        head = p.head /\ count = p.count /\ span = p.span
  BY DEF ProposalData
<1>2. PICK size \in Nat : size = count * span
  OBVIOUS
<1>3. EndOf(p) = head + size
  BY <1>1, <1>2 DEF EndOf
<1>4. PICK F \in Nat \ {0} : F = FieldsPerBlob
  BY HostsAssumption
<1> DEFINE x(i) == (n + i - head) \div span - 1
           On(i) == (n + i - head) % span = 0
           Ok(i) == IF x(i) < count - 1 THEN FieldMatches(p, x(i), roots[i]) ELSE TrailIsZero(p, x(i))
<1>5. ASSUME NEW i \in 1..k, On(i), n + i # EndOf(p) PROVE Ok(i)
  <2>1. PICK w \in Nat : span * w = n + i - head /\ w = (n + i - head) \div span
    <3>1. PICK y \in Nat : y = n + i - head
      BY <1>1
    <3>2. y % span = 0
      BY <1>5, <3>1
    <3>3. y = span * (y \div span) + (y % span) /\ y \div span \in Nat
      BY DivMod
    <3> QED
      BY <3>1, <3>2, <3>3
  <2>2. w # 0
    <3>1. w = 0 => span * w = 0
      OBVIOUS
    <3> QED
      BY <1>1, <2>1, <3>1
  <2>3. w < count
    <3> SUFFICES ASSUME w >= count PROVE FALSE
      OBVIOUS
    <3>1. PICK d \in Nat : w = count + d
      OBVIOUS
    <3>2. span * w = size + span * d /\ span * d \in Nat
      BY <1>2, <3>1
    <3>3. n + i - head >= size
      BY <2>1, <3>2
    <3>4. n + i < head + size
      BY <1>3, <1>5
    <3> QED
      BY <3>3, <3>4
  <2>4. count > 1 /\ Len(p.blobs) = (count + F - 2) \div F
    BY <1>1, <1>4, <2>2, <2>3 DEF WellFormed
  <2>5. NumFields(p) \in Nat /\ count - 1 <= NumFields(p)
    BY <1>4, <2>4, BlobCount DEF NumFields
  <2>6. w \in 1..NumFields(p)
    BY <2>2, <2>3, <2>5
  <2>7. FieldOf(p, w) = HashToFe(ChainFrom(Genesis, c, head + w * span - Genesis.n))
    BY <1>1, <2>3, <2>6 DEF WellFormed
  <2>8. head + w * span - Genesis.n = n + i
    <3>1. PICK z \in Nat : z = span * w /\ z = w * span
      OBVIOUS
    <3>2. Genesis.n = 0
      BY DEF Genesis, Root
    <3>3. z = n + i - head
      BY <2>1, <3>1
    <3>4. head + z = n + i
      BY ONLY <3>3, z \in Nat, head \in Nat, n \in Nat, i \in 1..k, k \in Nat
    <3>5. head + z - 0 = n + i
      BY ONLY <3>4, z \in Nat, head \in Nat
    <3> QED
      BY <3>1, <3>2, <3>5
  <2>9. FieldOf(p, w) = HashToFe(roots[i])
    BY <2>7, <2>8
  <2>10. FieldMatches(p, w - 1, roots[i])
    BY <2>2, <2>6, <2>9, FieldIsMatch
  <2>11. w - 1 < count - 1
    BY <2>3
  <2> QED
    BY <2>1, <2>10, <2>11
<1>6. ASSUME NEW i \in 1..k, n + i = EndOf(p)
      PROVE  On(i) /\ (Ok(i) <=> ~(count > 1 /\ (count - 1) % F = 0))
  <2>1. n + i - head = size /\ size = span * count + 0
    BY <1>2, <1>3, <1>6
  <2>2. size \div span = count /\ size % span = 0
    <3>1. 0 \in 0..(span - 1)
      OBVIOUS
    <3> QED
      BY <2>1, <3>1, DivModUnique
  <2>3. On(i) /\ x(i) = count - 1
    BY <2>1, <2>2
  <2>4. Ok(i) <=> TrailIsZero(p, count - 1)
    BY <2>3
  <2>5. CASE count = 1
    BY <1>1, <2>3, <2>4, <2>5 DEF TrailIsZero
  <2>6. CASE count > 1
    <3>1. Len(p.blobs) = (p.count + FieldsPerBlob - 2) \div FieldsPerBlob
      BY DEF WellFormed
    <3>2. ASSUME NEW m \in p.count..NumFields(p) PROVE FieldOf(p, m) = 0
      <4>1. Len(p.blobs) \in Nat
        BY DEF ProposalData
      <4>2. NumFields(p) \in Nat
        BY <1>4, <4>1 DEF NumFields
      <4>3. m \in 1..NumFields(p) /\ ~(m < p.count)
        BY <1>1, <4>2
      <4> QED
        BY <4>3 DEF WellFormed
    <3>3. TrailIsZero(p, p.count - 1) <=> (p.count - 1) % FieldsPerBlob # 0
      BY <1>1, <2>6, <3>1, <3>2, ZerosAreTrail
    <3> QED
      BY <1>1, <1>4, <2>3, <2>4, <2>6, <3>3
  <2> QED
    BY <2>5, <2>6
<1>7. \A i \in 1..k : n + i <= EndOf(p)
  BY <1>3
<1>8. ValidatePrecondition(p, n, roots) <=> \A i \in 1..k : On(i) => Ok(i)
  <2>1. p.head <= n /\ n <= EndOf(p)
    BY <1>3
  <2> QED
    BY <1>1, <1>7, <2>1 DEF ValidatePrecondition
<1> HIDE DEF On, Ok
<1>9. CASE k > 0 /\ n + k = EndOf(p)
  <2>1. k \in 1..k
    BY <1>9
  <2>2. On(k) /\ (Ok(k) <=> ~(count > 1 /\ (count - 1) % F = 0))
    BY <1>6, <1>9, <2>1
  <2>3. (\A i \in 1..k : On(i) => Ok(i)) <=> Ok(k)
    BY <1>5, <1>9, <2>1, <2>2
  <2> QED
    BY <1>1, <1>4, <1>8, <1>9, <2>2, <2>3
<1>10. CASE ~(k > 0 /\ n + k = EndOf(p))
  <2>1. \A i \in 1..k : n + i # EndOf(p)
    BY <1>3, <1>10
  <2> QED
    BY <1>5, <1>8, <1>10, <2>1
<1> QED
  BY <1>9, <1>10

LEMMA ProvableFromInv ==
  ClientInv /\ PreconditionInv => WellFormedIsProvable
<1> DEFINE p == run.precondition
           b == run.boot
<1> SUFFICES ASSUME ClientInv, PreconditionInv, run.pc = "derive", Len(run.roots) = Count,
                    p # NoProposal, run.cache = <<>>,
                    b.agreed \in {Genesis, ChainFrom(Genesis, b.config, b.agreed.n)},
                    p.head <= b.agreed.n, b.number <= EndOf(p), WellFormed(p, Genesis, b.config),
                    Filled(p) => b.number < EndOf(p)
             PROVE  ValidatePrecondition(p, b.agreed.n, run.roots)
  BY DEF WellFormedIsProvable, RightRun, Accepted
<1>1. IsRun(run) /\ RunTypes(run) /\ b.l1 # NoHead
  BY RunFacts DEF IsRun, Executing
<1>2. Validating(run)
  BY <1>1, ValidatingFacts
<1>3. b.agreed \in AgreedRoots /\ b.agreed.n \in Nat /\ b.number \in Nat /\ b.config \in Attributes
  BY <1>1 DEF RunTypes, BootRecords, AgreedRoots
<1>4. PICK n \in Nat, k \in Nat : n = b.agreed.n /\ k = Len(run.roots) /\ DOMAIN run.roots = 1..k
  BY <1>1, <1>3 DEF RunTypes
<1>5. k = Count /\ n + k = b.number
  BY <1>3, <1>4 DEF Count
<1>6. Genesis \in AgreedRoots /\ Genesis.n = 0
  BY DEF Genesis, Root, AgreedRoots
<1>7. b.agreed = ChainFrom(Genesis, b.config, n)
  <2>1. CASE b.agreed = Genesis
    <3>1. n = 0
      BY <1>4, <1>6, <2>1
    <3> QED
      BY <2>1, <3>1 DEF ChainFrom
  <2>2. CASE b.agreed # Genesis
    BY <1>4, <2>2
  <2> QED
    BY <2>1, <2>2
<1>8. Trusted(run)
  BY DEF Trusted
<1>9. ASSUME NEW i \in 1..k PROVE run.roots[i] = ChainFrom(Genesis, b.config, n + i)
  <2>1. run.roots[i] = ChainFrom(b.agreed, b.config, i)
    BY <1>2, <1>4, <1>8 DEF Validating
  <2>2. ChainFrom(ChainFrom(Genesis, b.config, n), b.config, i)
          = ChainFrom(Genesis, b.config, n + i)
    BY <1>3, <1>6, ChainsCompose
  <2> QED
    BY <1>7, <2>1, <2>2
<1>10. p \in ProposalData
  BY <1>2 DEF Validating
<1>11. ValidatePrecondition(p, n, run.roots)
       <=> ~(p.count > 1 /\ (p.count - 1) % FieldsPerBlob = 0 /\ k > 0 /\ n + k = EndOf(p))
  <2>1. p.head <= n /\ n + k <= EndOf(p)
    BY <1>4, <1>5
  <2> HIDE DEF p, b
  <2> QED
    BY <1>3, <1>4, <1>9, <1>10, <2>1, WellFormedValidates
<1>12. EndOf(p) \in Nat
  <2>1. PICK head \in Nat, count \in Nat, span \in Nat :
          head = p.head /\ count = p.count /\ span = p.span
    BY <1>10 DEF ProposalData
  <2>2. count * span \in Nat
    OBVIOUS
  <2>3. EndOf(p) = head + count * span
    BY <2>1 DEF EndOf
  <2> QED
    BY <2>2, <2>3
<1>13. Filled(p) => n + k # EndOf(p)
  BY <1>3, <1>5, <1>12
<1> QED
  BY <1>4, <1>11, <1>13 DEF Filled

\* A proposal that is right in every output is accepted by every run that starts and ends
\* within it and, if its outputs fill its last blob, ends before its last block: for any
\* proposal, any number of fields in a blob and any boot data.  The run guest_filled shows
\* that the condition is needed.
THEOREM WellFormedProposalsAreProvable == ClientSpec => []WellFormedIsProvable
<1>1. ClientInit => ClientInv /\ PreconditionInv
  BY DEF ClientInit, ClientInv, PreconditionInv
<1>2. ClientInv /\ PreconditionInv /\ [ClientNext]_clientVars => ClientInv' /\ PreconditionInv'
  BY ClientInductive, PreconditionInductive
<1>3. ClientInv /\ PreconditionInv => WellFormedIsProvable
  BY ProvableFromInv
<1> QED
  BY <1>1, <1>2, <1>3, PTL DEF ClientSpec

-----------------------------------------------------------------------------
(***************************************************************************)
(* Disputes.  A game and the fields of its blobs.                          *)
(***************************************************************************)

LEMMA HashIsField ==
  ASSUME NEW o \in AgreedRoots
  PROVE  HashToFe(o) \in Nat
<1>1. o.n \in Nat
  BY DEF AgreedRoots
<1>2. Number(o) \in Nat
  BY <1>1 DEF Number
<1>3. Modulus \in Nat \ {0}
  BY HostsAssumption
<1> QED
  BY <1>2, <1>3, DivMod DEF HashToFe

LEMMA OutputFacts ==
  /\ \A n \in Nat : Output(n) \in AgreedRoots /\ Output(n).n = n
  /\ \A n, k \in Nat : ChainFrom(Output(n), Absent, k) = Output(n + k)
  /\ \A m, n \in Nat : Output(m) = Output(n) => m = n
<1>1. Genesis \in AgreedRoots /\ Genesis.n = 0 /\ Absent \in Attributes
  BY DEF Genesis, Root, AgreedRoots, Attributes
<1>2. \A n \in Nat : Output(n) \in AgreedRoots /\ Output(n).n = n
  BY <1>1, ChainType DEF Output
<1>3. \A n, k \in Nat : ChainFrom(Output(n), Absent, k) = Output(n + k)
  BY <1>1, ChainsCompose DEF Output
<1> QED
  BY <1>2, <1>3

\* PROPOSAL_BLOBS is the number of blobs that the intermediate outputs need.
LEMMA BlobsNeeded ==
  ASSUME NEW c \in Nat \ {0}
  PROVE  /\ ProposalBlobs(c) \in Nat
         /\ ProposalBlobs(c) = (c + FieldsPerBlob - 2) \div FieldsPerBlob
<1>1. PICK F \in Nat \ {0} : F = FieldsPerBlob
  BY HostsAssumption
<1>2. CASE c = 1
  <2>1. 0 = F * 0 + 0 /\ 0 \in 0..(F - 1)
    OBVIOUS
  <2>2. 0 \div F = 0 /\ 0 % F = 0
    BY <2>1, DivModUnique
  <2>3. F - 1 = F * 0 + (F - 1) /\ F - 1 \in 0..(F - 1) /\ F - 1 \in Nat
    OBVIOUS
  <2>4. (F - 1) \div F = 0
    BY <2>3, DivModUnique
  <2>5. c - 1 = 0 /\ c + F - 2 = F - 1
    BY <1>2
  <2> QED
    BY <1>1, <2>2, <2>4, <2>5 DEF ProposalBlobs, BlobIndex, FieldElementIndex
<1>3. CASE c # 1
  <2>1. PICK N : N = (c + F - 2) \div F
    OBVIOUS
  <2>2. c > 1
    BY <1>3
  <2>3. /\ N \in Nat
        /\ (c - 1) % F = 0 => (c - 1) \div F = N
        /\ (c - 1) % F # 0 => (c - 1) \div F = N - 1
    BY <2>1, <2>2, BlobCount
  <2> QED
    BY <1>1, <2>1, <2>3 DEF ProposalBlobs, BlobIndex, FieldElementIndex
<1> QED
  BY <1>2, <1>3

LEMMA GameFacts ==
  ASSUME IsGame(game)
  PROVE  /\ game.head \in Nat /\ game.count \in Nat \ {0} /\ game.span \in Nat \ {0}
         /\ game.agreed = Output(game.head) /\ game.claim \in AgreedRoots
         /\ EndOf(game) = game.head + game.count * game.span /\ EndOf(game) \in Nat
         /\ Precondition \in ProposalData
         /\ Len(game.blobs) = ProposalBlobs(game.count)
         /\ DOMAIN game.blobs = 1..ProposalBlobs(game.count)
<1>1. PICK s \in Shapes :
        /\ game.head = s.head /\ game.count = s.count /\ game.span = s.span
        /\ game.agreed = Output(s.head) /\ game.claim \in Claims \cup Outputs(s)
        /\ game.blobs \in [1..ProposalBlobs(s.count) -> [1..FieldsPerBlob -> Nat]]
  BY DEF IsGame
<1>2. s.head \in Nat /\ s.count \in Nat \ {0} /\ s.span \in Nat \ {0}
  BY ShapesAssumption
<1>3. game.claim \in AgreedRoots
  <2>1. s.head + s.count * s.span \in Nat
    BY <1>2
  <2>2. Outputs(s) \subseteq AgreedRoots
    BY <2>1, OutputFacts DEF Outputs
  <2> QED
    BY <1>1, <2>2, ShapesAssumption
<1>4. EndOf(game) = game.head + game.count * game.span /\ EndOf(game) \in Nat
  BY <1>1, <1>2 DEF EndOf
<1>5. ProposalBlobs(s.count) \in Nat
  BY <1>2, BlobsNeeded
<1>6. game.blobs \in Seq([1..FieldsPerBlob -> Nat]) /\ Len(game.blobs) = ProposalBlobs(s.count)
  BY <1>1, <1>5, FunctionIsSeq
<1>7. Precondition \in ProposalData
  BY <1>1, <1>2, <1>6 DEF Precondition, ProposalData
<1> QED
  BY <1>1, <1>2, <1>3, <1>4, <1>6, <1>7

\* What is said of the fields of the proposal's data is said of the proposal.
LEMMA SameFields ==
  /\ NumFields(Precondition) = NumFields(game)
  /\ EndOf(Precondition) = EndOf(game)
  /\ \A i : FieldOf(Precondition, i) = FieldOf(game, i)
  /\ \A o, c : WellFormed(Precondition, o, c) <=> WellFormed(game, o, c)
  /\ Precondition.head = game.head /\ Precondition.count = game.count
  /\ Precondition.span = game.span /\ Precondition.blobs = game.blobs
<1>1. /\ Precondition.head = game.head /\ Precondition.count = game.count
      /\ Precondition.span = game.span /\ Precondition.blobs = game.blobs
  BY DEF Precondition
<1> HIDE DEF Precondition
<1>2. /\ NumFields(Precondition) = NumFields(game) /\ EndOf(Precondition) = EndOf(game)
      /\ \A i : FieldOf(Precondition, i) = FieldOf(game, i)
  BY <1>1 DEF NumFields, EndOf, FieldOf
<1> QED
  BY <1>1, <1>2 DEF WellFormed

\* The blobs have room for the outputs, and the last one is not empty of them.
LEMMA NumFieldsType ==
  ASSUME IsGame(game)
  PROVE  /\ NumFields(game) \in Nat /\ game.count - 1 <= NumFields(game)
         /\ NumFields(game) - (game.count - 1) < FieldsPerBlob
<1>1. PICK F \in Nat \ {0} : F = FieldsPerBlob
  BY HostsAssumption
<1>2. PICK c \in Nat \ {0} : c = game.count
  BY GameFacts
<1>3. PICK N : N = Len(game.blobs) /\ N = ProposalBlobs(c) /\ N \in Nat
  BY <1>2, GameFacts, BlobsNeeded
<1>4. NumFields(game) = N * F
  BY <1>1, <1>3 DEF NumFields
<1>5. c - 1 \in Nat
  OBVIOUS
<1>6. PICK u \in Nat, s \in 0..(F - 1) : u = (c - 1) \div F /\ s = (c - 1) % F /\ c - 1 = F * u + s
  BY <1>5, DivMod
<1>7. N = u + (IF s = 0 THEN 0 ELSE 1)
  BY <1>1, <1>3, <1>6 DEF ProposalBlobs, BlobIndex, FieldElementIndex
<1>8. PICK w \in Nat : w = F * u
  OBVIOUS
<1>9. c - 1 = w + s
  BY <1>6, <1>8
<1>10. N * F = w + (IF s = 0 THEN 0 ELSE F)
  BY <1>7, <1>8
<1> QED
  BY <1>1, <1>2, <1>4, <1>9, <1>10

\* A field that the tournament verified is that of the proposal.
LEMMA VerifiedField ==
  ASSUME IsGame(game), NEW k \in Nat, NEW fe, NEW o, VerifyIntermediateOutput(k, fe, o)
  PROVE  k + 1 <= NumFields(game) /\ FieldOf(game, k + 1) = fe
<1>1. PICK p \in ProposalData : p = Precondition
  BY GameFacts
<1>2. p.blobs = game.blobs /\ NumFields(p) = NumFields(game) /\ FieldOf(p, k + 1) = FieldOf(game, k + 1)
  BY <1>1, SameFields
<1>3. /\ (k \div FieldsPerBlob) + 1 \in DOMAIN p.blobs
      /\ p.blobs[(k \div FieldsPerBlob) + 1][(k % FieldsPerBlob) + 1] = fe
  BY <1>2 DEF VerifyIntermediateOutput, BlobIndex, FieldElementIndex
<1>4. k + 1 <= NumFields(p)
  BY <1>3, FieldRange
<1>5. FieldOf(p, k + 1) = fe
  <2>1. k + 1 \in Nat \ {0} /\ (k + 1) - 1 = k
    OBVIOUS
  <2> QED
    BY <1>3, <1>4, <2>1, FieldPlace
<1> QED
  BY <1>2, <1>4, <1>5

\* The opening that io_proof_for makes of a field is verified.
LEMMA OpeningVerifies ==
  ASSUME IsGame(game), NEW k \in Nat, k + 1 <= NumFields(game)
  PROVE  VerifyIntermediateOutput(k, FieldOf(game, k + 1), Opening(k))
<1>1. PICK p \in ProposalData : p = Precondition
  BY GameFacts
<1>2. p.blobs = game.blobs /\ NumFields(p) = NumFields(game) /\ FieldOf(p, k + 1) = FieldOf(game, k + 1)
  BY <1>1, SameFields
<1>3. (k \div FieldsPerBlob) + 1 \in DOMAIN p.blobs
  BY <1>2, FieldRange
<1>4. FieldOf(p, k + 1) = p.blobs[(k \div FieldsPerBlob) + 1][(k % FieldsPerBlob) + 1]
  <2>1. k + 1 \in Nat \ {0} /\ (k + 1) - 1 = k
    OBVIOUS
  <2> QED
    BY <1>2, <2>1, FieldPlace
<1> QED
  BY <1>2, <1>3, <1>4 DEF VerifyIntermediateOutput, Opening, BlobIndex, FieldElementIndex

-----------------------------------------------------------------------------
(***************************************************************************)
(* What the tournament accepts is true.                                    *)
(***************************************************************************)

\* The output roots that anybody knows of.
Known == Claims \cup {Output(n) : n \in 0..EndOf(game)}

LEMMA NoKnownCollision ==
  ASSUME IsGame(game), NEW o \in Known, NEW n \in 0..EndOf(game), HashToFe(o) = HashToFe(Output(n))
  PROVE  o = Output(n)
<1>1. PICK s \in Shapes : game.head = s.head /\ game.count = s.count /\ game.span = s.span
  BY DEF IsGame
<1>2. EndOf(game) = s.head + s.count * s.span
  BY <1>1 DEF EndOf
<1>3. Known = Claims \cup Outputs(s) /\ Output(n) \in Outputs(s)
  BY <1>2 DEF Known, Outputs
<1> QED
  BY <1>1, <1>3, NoCollisions

LEMMA KnownType ==
  ASSUME IsGame(game)
  PROVE  Known \subseteq AgreedRoots /\ game.agreed \in Known /\ game.claim \in Known
<1>1. PICK s \in Shapes :
        /\ game.head = s.head /\ game.count = s.count /\ game.span = s.span
        /\ game.agreed = Output(s.head) /\ game.claim \in Claims \cup Outputs(s)
  BY DEF IsGame
<1>2. EndOf(game) = s.head + s.count * s.span
  BY <1>1 DEF EndOf
<1>3. Known = Claims \cup Outputs(s)
  BY <1>2 DEF Known, Outputs
<1>4. EndOf(game) \in Nat /\ game.head \in 0..EndOf(game)
  <2>1. game.head \in Nat /\ game.count * game.span \in Nat /\ EndOf(game) = game.head + game.count * game.span
    BY GameFacts
  <2> QED
    BY <2>1
<1>5. Known \subseteq AgreedRoots
  BY <1>4, OutputFacts, ShapesAssumption DEF Known
<1> QED
  BY <1>1, <1>3, <1>4, <1>5 DEF Known

\* Block of the output at position at.
LEMMA OutputBlock ==
  ASSUME IsGame(game), NEW at \in 0..game.count
  PROVE  /\ game.head + at * game.span \in 0..EndOf(game)
         /\ (at + 1) * game.span = at * game.span + game.span
         /\ game.span * at = at * game.span
<1>1. PICK c \in Nat \ {0}, h \in Nat, s \in Nat \ {0} : c = game.count /\ h = game.head /\ s = game.span
  BY GameFacts
<1>2. EndOf(game) = h + c * s
  BY <1>1, GameFacts
<1>3. at \in Nat /\ at <= c
  BY <1>1
<1>4. PICK d \in Nat : c = at + d
  BY <1>3
<1>5. c * s = at * s + d * s /\ at * s \in Nat /\ d * s \in Nat
  BY <1>3, <1>4
<1>6. h + at * s \in 0..(h + c * s)
  BY <1>5
<1>7. (at + 1) * s = at * s + s /\ s * at = at * s
  BY <1>3
<1> QED
  BY <1>1, <1>2, <1>6, <1>7

\* The proof of an output fault that the tournament accepts shows a fault.
LEMMA AcceptedFaultIsFault ==
  ASSUME IsGame(game), NEW r, NEW at \in Nat, NEW fe, NEW openings, r.agreed \in Known,
         r.agreed.n <= r.number, r.claimed = ChainFrom(r.agreed, Absent, r.number - r.agreed.n),
         AcceptsOutputFault(r, at, r.agreed, r.claimed, fe, openings)
  PROVE  ~IsRight(game)
<1> SUFFICES ASSUME IsRight(game) PROVE FALSE
  OBVIOUS
<1>1. PICK c \in Nat \ {0}, h \in Nat, s \in Nat \ {0} : c = game.count /\ h = game.head /\ s = game.span
  BY GameFacts
<1>2. at < c /\ at \in 0..c /\ at + 1 \in 0..c
  BY <1>1 DEF AcceptsOutputFault
<1>3. h + at * s \in 0..EndOf(game) /\ (at + 1) * s = at * s + s /\ EndOf(game) \in Nat
  BY <1>1, <1>2, OutputBlock, GameFacts
<1>4. ASSUME NEW i \in 1..(c - 1), i <= NumFields(game)
      PROVE  FieldOf(game, i) = HashToFe(Output(h + i * s))
  <2>1. NumFields(game) \in Nat
    BY NumFieldsType
  <2>2. i \in 1..NumFields(game) /\ i < c
    BY <1>4, <2>1
  <2>3. FieldOf(game, i) = HashToFe(ChainFrom(Genesis, Absent, h + i * s - Genesis.n))
    BY <1>1, <2>2 DEF IsRight, WellFormed
  <2>4. i * s \in Nat /\ Genesis.n = 0
    BY DEF Genesis, Root
  <2>5. h + i * s - Genesis.n = h + i * s
    BY <2>4
  <2> QED
    BY <2>3, <2>5 DEF Output
<1>5. r.agreed = Output(h + at * s)
  <2>1. CASE at = 0
    <3>1. r.agreed = Output(h)
      BY <1>1, <2>1, GameFacts DEF AcceptsOutputFault
    <3>2. h + at * s = h
      BY <2>1
    <3> QED
      BY <3>1, <3>2
  <2>2. CASE at # 0
    <3>1. VerifyIntermediateOutput(at - 1, HashToFe(r.agreed), Head(openings))
      BY <2>2 DEF AcceptsOutputFault
    <3>2. at - 1 \in Nat /\ (at - 1) + 1 = at
      BY <2>2
    <3>3. at <= NumFields(game) /\ FieldOf(game, at) = HashToFe(r.agreed)
      BY <3>1, <3>2, VerifiedField
    <3>4. at \in 1..(c - 1)
      BY <1>2, <2>2
    <3>5. HashToFe(r.agreed) = HashToFe(Output(h + at * s))
      BY <1>4, <3>3, <3>4
    <3> QED
      BY <1>3, <3>5, NoKnownCollision
  <2> QED
    BY <2>1, <2>2
<1>6. PICK A \in Nat : A = h + at * s
  BY <1>3
<1>7. r.number = h + (at + 1) * s
  BY <1>1 DEF AcceptsOutputFault, Verify, Receipt
<1>8. r.number = A + s /\ r.agreed.n = A /\ r.number - r.agreed.n = s
  <2>1. h + (at * s + s) = A + s
    BY <1>3, <1>6
  <2>2. r.agreed.n = A
    BY <1>5, <1>6, OutputFacts
  <2> QED
    BY <1>3, <1>7, <2>1, <2>2
<1>9. r.claimed = Output(A + s)
  BY <1>5, <1>6, <1>8, OutputFacts
<1>10. A + s = h + (at + 1) * s
  BY <1>7, <1>8
<1>11. CASE at = c - 1
  <2>1. at + 1 = c
    BY <1>11
  <2>2. r.claimed # game.claim
    BY <1>1, <1>11 DEF AcceptsOutputFault
  <2>3. EndOf(game) = h + c * s
    BY <1>1, GameFacts
  <2> QED
    BY <1>9, <1>10, <2>1, <2>2, <2>3 DEF IsRight
<1>12. CASE at # c - 1
  <2>1. VerifyIntermediateOutput(at, fe, Last(openings)) /\ HashToFe(r.claimed) # fe
    BY <1>1, <1>12 DEF AcceptsOutputFault
  <2>2. at + 1 <= NumFields(game) /\ FieldOf(game, at + 1) = fe
    BY <2>1, VerifiedField
  <2>3. at + 1 \in 1..(c - 1)
    BY <1>2, <1>12
  <2>4. fe = HashToFe(Output(h + (at + 1) * s))
    BY <1>4, <2>2, <2>3
  <2> QED
    BY <1>9, <1>10, <2>1, <2>4
<1> QED
  BY <1>11, <1>12

\* The proof of a trailing fault that the tournament accepts shows a fault.
LEMMA AcceptedTrailIsFault ==
  ASSUME IsGame(game), NEW at \in Nat, NEW fe, NEW o, AcceptsTrailFault(at, fe, o)
  PROVE  ~IsRight(game)
<1>1. PICK c \in Nat \ {0} : c = game.count
  BY GameFacts
<1>2. at >= c /\ fe # 0 /\ VerifyIntermediateOutput(at - 1, fe, o)
  BY <1>1 DEF AcceptsTrailFault
<1>3. at - 1 \in Nat /\ (at - 1) + 1 = at
  BY <1>2
<1>4. at <= NumFields(game) /\ FieldOf(game, at) = fe
  BY <1>2, <1>3, VerifiedField
<1>5. at \in 1..NumFields(game) /\ ~(at < game.count)
  BY <1>1, <1>2, <1>4, NumFieldsType
<1> QED
  BY <1>2, <1>4, <1>5 DEF IsRight, WellFormed

\* What is proven valid is right.
LEMMA ProvenValidIsRight ==
  ASSUME IsGame(game), Provable(ValidityReceipt)
  PROVE  IsRight(game)
<1>1. PICK c \in Nat \ {0}, h \in Nat, s \in Nat \ {0} : c = game.count /\ h = game.head /\ s = game.span
  BY GameFacts
<1>2. PICK k \in Nat : k = c * s /\ EndOf(game) = h + k
  BY <1>1, GameFacts
<1>3. game.agreed = Output(h) /\ Output(h) \in AgreedRoots /\ Output(h).n = h
  BY <1>1, GameFacts, OutputFacts
<1>4. EndOf(game) - h = k
  BY <1>2
<1>5. PICK roots : roots = [i \in 1..k |-> ChainFrom(Output(h), Absent, i)]
  OBVIOUS
<1>6. Len(roots) = k /\ DOMAIN roots = 1..k
  BY <1>5
<1>7. /\ game.claim = ChainFrom(Output(h), Absent, k)
      /\ c > 1 => ValidatePrecondition(Precondition, h, roots)
  <2>1. PICK r : r = ValidityReceipt
    OBVIOUS
  <2>2. /\ r.precondition = (IF c > 1 THEN Precondition ELSE NoProposal) /\ r.agreed = Output(h)
        /\ r.claimed = game.claim /\ r.number = EndOf(game)
    BY <1>1, <1>3, <2>1 DEF ValidityReceipt, Receipt
  <2>3. Precondition # NoProposal
    BY DEF Precondition, NoProposal
  <2> QED
    BY <1>3, <1>4, <1>5, <1>6, <2>1, <2>2, <2>3 DEF Provable
<1>8. game.claim = Output(EndOf(game))
  BY <1>2, <1>7, OutputFacts
<1>9. Len(game.blobs) = (c + FieldsPerBlob - 2) \div FieldsPerBlob
  BY <1>1, GameFacts, BlobsNeeded
<1>10. CASE c = 1
  <2>1. NumFields(game) = 0
    <3>1. PICK F \in Nat \ {0} : F = FieldsPerBlob
      BY HostsAssumption
    <3>2. F - 1 = F * 0 + (F - 1) /\ F - 1 \in 0..(F - 1) /\ F - 1 \in Nat /\ c + F - 2 = F - 1
      BY <1>10
    <3>3. (F - 1) \div F = 0
      BY <3>2, DivModUnique
    <3> QED
      BY <1>9, <3>1, <3>2, <3>3 DEF NumFields
  <2> QED
    BY <1>1, <1>8, <1>9, <2>1 DEF IsRight, WellFormed
<1>11. CASE c > 1
  <2>1. PICK p \in ProposalData : p = Precondition
    BY GameFacts
  <2>2. Validated(p, Output(h), Absent, h + k)
    BY <1>3, <1>5, <1>6, <1>7, <1>11, <2>1, ValidationShows
  <2>3. p.head = h /\ p.count = c /\ p.span = s /\ EndOf(p) = h + k
    BY <1>1, <1>2, <2>1, SameFields
  <2>4. ASSUME NEW i \in 1..NumFields(game)
        PROVE  FieldOf(game, i) = IF i < game.count
                 THEN HashToFe(ChainFrom(Genesis, Absent, game.head + i * game.span - Genesis.n))
                 ELSE 0
    <3>1. NumFields(game) \in Nat /\ i \in Nat \ {0}
      BY NumFieldsType
    <3>2. CASE i < c
      <4>1. i \in 1..(c - 1) /\ i \in 0..game.count /\ i # 0
        BY <1>1, <3>1, <3>2
      <4>2. PICK w \in Nat : w = i * s /\ w # 0
        <5>1. i * s \in Nat /\ i * s # 0
          BY <3>1
        <5> QED
          BY <5>1
      <4>3. h + w <= h + k
        BY <1>1, <1>2, <4>1, <4>2, OutputBlock
      <4>4. h < h + w /\ h + w - h = w
        BY <4>2
      <4>5. FieldMatches(p, i - 1, ChainFrom(Output(h), Absent, w))
        BY <1>3, <2>2, <2>3, <4>1, <4>2, <4>3, <4>4 DEF Validated
      <4>6. FieldOf(p, i) = HashToFe(Output(h + w))
        BY <3>1, <4>5, MatchIsField, OutputFacts
      <4>7. game.head + i * game.span - Genesis.n = h + w
        BY <1>1, <4>2 DEF Genesis, Root
      <4> QED
        BY <1>1, <2>1, <3>2, <4>6, <4>7, SameFields DEF Output
    <3>3. CASE ~(i < c)
      <4>1. TrailIsZero(p, p.count - 1)
        <5>1. h < h + k
          BY <1>1, <1>2
        <5> QED
          BY <1>3, <2>2, <2>3, <5>1 DEF Validated
      <4>2. NumFields(p) = NumFields(game)
        BY <2>1, SameFields
      <4>3. i \in p.count..NumFields(p)
        BY <2>3, <3>1, <3>3, <4>2
      <4>4. FieldOf(p, i) = 0
        BY <1>11, <2>3, <4>1, <4>3, TrailIsZeros
      <4> QED
        BY <1>1, <2>1, <3>3, <4>4, SameFields
    <3> QED
      BY <3>2, <3>3
  <2> QED
    BY <1>1, <1>8, <1>9, <2>4 DEF IsRight, WellFormed
<1> QED
  BY <1>10, <1>11

-----------------------------------------------------------------------------
(***************************************************************************)
(* What load_game reads: stretches of the fields of the blobs.             *)
(***************************************************************************)

\* The fields after the first lo, up to the first hi.
Part(q, F, lo, hi) == [i \in 1..(hi - lo) |-> FieldAt(q, F, lo + i)]

LEMMA ConcatIndex ==
  ASSUME NEW S, NEW a \in Seq(S), NEW b \in Seq(S), NEW i \in 1..Len(b)
  PROVE  (a \o b)[Len(a) + i] = b[i]
OBVIOUS

LEMMA SameFunction ==
  ASSUME NEW S, NEW T, NEW f \in [S -> T], NEW g \in [S -> T], \A x \in S : f[x] = g[x]
  PROVE  f = g
OBVIOUS

IsBlobs(q, F) == q \in Seq([1..F -> Nat])

\* The number of fields of all the blobs.
Total(q, F) == F * Len(q)

LEMMA TotalAt ==
  ASSUME NEW F \in Nat \ {0}, NEW N \in Nat, NEW b \in Nat, b + 1 <= N
  PROVE  F * b \in Nat /\ F * (b + 1) = F * b + F /\ F * b + F <= F * N
<1>1. PICK d \in Nat : N = (b + 1) + d
  OBVIOUS
<1>2. F * N = F * (b + 1) + F * d
  BY <1>1
<1>3. F * (b + 1) = F * b + F /\ F * b \in Nat /\ F * d \in Nat
  OBVIOUS
<1> QED
  BY <1>2, <1>3

LEMMA TotalType ==
  ASSUME NEW F \in Nat \ {0}, NEW q, IsBlobs(q, F)
  PROVE  Total(q, F) \in Nat /\ Len(q) \in Nat
<1>1. Len(q) \in Nat
  BY DEF IsBlobs
<1>2. PICK N \in Nat : N = Len(q)
  BY <1>1
<1>3. F * N \in Nat
  OBVIOUS
<1> QED
  BY <1>2, <1>3 DEF Total

LEMMA PartEmpty ==
  ASSUME NEW q, NEW F, NEW lo \in Nat
  PROVE  Part(q, F, lo, lo) = <<>>
BY DEF Part

LEMMA PartType ==
  ASSUME NEW F \in Nat \ {0}, NEW q, IsBlobs(q, F), NEW lo \in Nat, NEW hi \in Nat,
         lo <= hi, hi <= Total(q, F)
  PROVE  Part(q, F, lo, hi) \in Seq(Nat) /\ Len(Part(q, F, lo, hi)) = hi - lo
<1>1. PICK N \in Nat, M \in Nat : N = Len(q) /\ M = F * N /\ M = Total(q, F)
  <2>1. PICK N \in Nat, M \in Nat : N = Len(q) /\ M = Total(q, F)
    BY TotalType
  <2>2. M = F * N
    BY <2>1 DEF Total
  <2> QED
    BY <2>1, <2>2
<1>2. ASSUME NEW i \in 1..(hi - lo) PROVE FieldAt(q, F, lo + i) \in Nat
  <2> DEFINE x == (lo + i) - 1
             u == x \div F
             s == x % F
  <2>1. x \in Nat /\ x < M
    BY <1>1, <1>2
  <2>2. x = F * u + s /\ s \in 0..(F - 1) /\ u \in Nat
    BY <2>1, DivMod
  <2> HIDE DEF x, u, s
  <2>3. u < N
    <3> SUFFICES ASSUME u >= N PROVE FALSE
      BY <2>2
    <3>1. PICK d \in Nat : u = N + d
      BY <2>2
    <3>2. F * u = F * N + F * d /\ F * d \in Nat
      BY <3>1
    <3>3. x = (M + F * d) + s
      BY <1>1, <2>2, <3>2
    <3>4. PICK e \in Nat : e = F * d
      BY <3>2
    <3>5. x = (M + e) + s /\ x < M /\ s \in Nat
      BY <2>1, <2>2, <3>3, <3>4
    <3> QED
      BY <3>5
  <2>4. u + 1 \in 1..Len(q) /\ s + 1 \in 1..F
    BY <1>1, <2>2, <2>3
  <2>5. PICK y : y = q[u + 1]
    OBVIOUS
  <2>6. y \in [1..F -> Nat]
    BY <2>4, <2>5 DEF IsBlobs
  <2> QED
    BY <2>4, <2>5, <2>6 DEF FieldAt, x, u, s
<1>3. PICK n \in Nat : n = hi - lo
  OBVIOUS
<1>4. Part(q, F, lo, hi) \in [1..n -> Nat]
  BY <1>2, <1>3 DEF Part
<1> QED
  BY <1>3, <1>4, FunctionIsSeq

\* Two stretches that meet are one.
LEMMA PartsJoin ==
  ASSUME NEW F \in Nat \ {0}, NEW q, IsBlobs(q, F), NEW lo \in Nat, NEW mid \in Nat,
         NEW hi \in Nat, lo <= mid, mid <= hi, hi <= Total(q, F)
  PROVE  Part(q, F, lo, mid) \o Part(q, F, mid, hi) = Part(q, F, lo, hi)
<1>1. PICK a, b, c : a = Part(q, F, lo, mid) /\ b = Part(q, F, mid, hi) /\ c = Part(q, F, lo, hi)
  OBVIOUS
<1>2. Total(q, F) \in Nat
  BY TotalType
<1>3. mid <= Total(q, F) /\ lo <= hi
  BY <1>2
<1>4. /\ a \in Seq(Nat) /\ Len(a) = mid - lo
      /\ b \in Seq(Nat) /\ Len(b) = hi - mid
      /\ c \in Seq(Nat) /\ Len(c) = hi - lo
  <2>1. a \in Seq(Nat) /\ Len(a) = mid - lo
    BY <1>1, <1>3, PartType
  <2>2. b \in Seq(Nat) /\ Len(b) = hi - mid
    BY <1>1, PartType
  <2>3. c \in Seq(Nat) /\ Len(c) = hi - lo
    BY <1>1, <1>3, PartType
  <2> QED
    BY <2>1, <2>2, <2>3
<1>5. a \o b \in Seq(Nat) /\ Len(a \o b) = hi - lo
  <2>1. a \o b \in Seq(Nat) /\ Len(a \o b) = Len(a) + Len(b)
    BY <1>4, ConcatType
  <2>2. (mid - lo) + (hi - mid) = hi - lo
    OBVIOUS
  <2> QED
    BY <1>4, <2>1, <2>2
<1>6. ASSUME NEW i \in 1..(hi - lo) PROVE (a \o b)[i] = c[i]
  <2>1. c[i] = FieldAt(q, F, lo + i)
    BY <1>1 DEF Part
  <2>2. CASE i <= mid - lo
    <3>1. i \in 1..(mid - lo) /\ a[i] = FieldAt(q, F, lo + i)
      BY <1>1, <2>2 DEF Part
    <3> QED
      BY <1>4, <2>1, <3>1
  <2>3. CASE ~(i <= mid - lo)
    <3>1. PICK j \in 1..(hi - mid) : i = (mid - lo) + j
      <4>1. i - (mid - lo) \in 1..(hi - mid)
        BY <2>3
      <4> QED
        BY <4>1
    <3>2. b[j] = FieldAt(q, F, mid + j)
      BY <1>1 DEF Part
    <3>3. mid + j = lo + i
      BY <3>1
    <3>4. (a \o b)[i] = b[j]
      <4>1. j \in 1..Len(b) /\ i = Len(a) + j
        BY <1>4, <3>1
      <4> QED
        BY <1>4, <4>1, ConcatIndex
    <3> QED
      BY <2>1, <3>2, <3>3, <3>4
  <2> QED
    BY <2>2, <2>3
<1>7. c \in [1..(hi - lo) -> Nat] /\ a \o b \in [1..(hi - lo) -> Nat]
  BY <1>4, <1>5, SeqIsFunction
<1>8. a \o b = c
  <2>1. PICK g : g = a \o b
    OBVIOUS
  <2>2. g \in [1..(hi - lo) -> Nat] /\ \A i \in 1..(hi - lo) : g[i] = c[i]
    BY <1>6, <1>7, <2>1
  <2>3. g = c
    BY <1>7, <2>2, SameFunction
  <2> QED
    BY <2>1, <2>3
<1> QED
  BY <1>1, <1>8

\* A stretch of one blob.
Slice(t, x, y) == SubSeq(t, x + 1, y)

LEMMA SubSeqIsPart ==
  ASSUME NEW F \in Nat \ {0}, NEW q, IsBlobs(q, F), NEW b \in Nat, b + 1 <= Len(q),
         NEW x \in 0..F, NEW y \in 0..F, x <= y, NEW w \in Nat, w = F * b
  PROVE  Slice(q[b + 1], x, y) = Part(q, F, w + x, w + y)
<1>1. PICK t : t = q[b + 1]
  OBVIOUS
<1>2. t \in [1..F -> Nat]
  <2>1. b + 1 \in 1..Len(q)
    BY TotalType
  <2> QED
    BY <1>1, <2>1 DEF IsBlobs
<1>3. t \in Seq(Nat) /\ Len(t) = F
  BY <1>2, FunctionIsSeq
<1>5. (w + y) - (w + x) = y - x
  OBVIOUS
<1>6. SubSeq(t, x + 1, y) = [i \in 1..(y - x) |-> t[x + i]]
  <2>1. y - (x + 1) + 1 = y - x
    OBVIOUS
  <2>2. \A i \in 1..(y - x) : (x + 1) + i - 1 = x + i
    OBVIOUS
  <2> QED
    BY <1>3, <2>1, <2>2
<1>7. ASSUME NEW i \in 1..(y - x) PROVE FieldAt(q, F, (w + x) + i) = t[x + i]
  <2>1. PICK m \in Nat : m = ((w + x) + i) - 1
    OBVIOUS
  <2>2. m = F * b + ((x + i) - 1) /\ (x + i) - 1 \in 0..(F - 1)
    BY <2>1
  <2>3. m \div F = b /\ m % F = (x + i) - 1
    BY <2>2, DivModUnique
  <2>4. ((x + i) - 1) + 1 = x + i
    OBVIOUS
  <2> QED
    BY <1>1, <2>1, <2>3, <2>4 DEF FieldAt
<1> QED
  BY <1>1, <1>5, <1>6, <1>7 DEF Part, Slice

LEMMA MinIs ==
  ASSUME NEW S, S \subseteq Nat, NEW m \in S, \A x \in S : m <= x
  PROVE  Min(S) = m
<1>1. \A x \in S : (\A y \in S : x <= y) => x = m
  OBVIOUS
<1> QED
  BY <1>1 DEF Min

LEMMA MinOfTwo ==
  ASSUME NEW x \in Nat, NEW y \in Nat
  PROVE  Min({x, y}) = IF x <= y THEN x ELSE y
<1>1. {x, y} \subseteq Nat /\ x \in {x, y} /\ y \in {x, y}
  OBVIOUS
<1>2. CASE x <= y
  <2>1. \A z \in {x, y} : x <= z
    BY <1>2
  <2>2. Min({x, y}) = x
    BY <1>1, <2>1, MinIs
  <2> QED
    BY <1>2, <2>2
<1>3. CASE ~(x <= y)
  <2>1. \A z \in {x, y} : y <= z
    BY <1>3
  <2>2. Min({x, y}) = y
    BY <1>1, <2>1, MinIs
  <2> QED
    BY <1>3, <2>2
<1> QED
  BY <1>2, <1>3

\* What has been read of the first b blobs of a proposal with c outputs.
Cut(F, c, b) == IF F * b <= c - 1 THEN F * b ELSE c - 1
ReadOf(q, F, c, b) ==
  [io |-> Part(q, F, 0, Cut(F, c, b)), trail |-> Part(q, F, Cut(F, c, b), F * b)]

\* One more blob.
LEMMA ReadNext ==
  ASSUME NEW F \in Nat \ {0}, NEW q, IsBlobs(q, F),
         NEW c \in Nat \ {0}, NEW b \in Nat, b + 1 <= Len(q)
  PROVE  F = FieldsPerBlob => ReadBlob(c, ReadOf(q, F, c, b), q[b + 1]) = ReadOf(q, F, c, b + 1)
<1>1. PICK w \in Nat, T \in Nat : w = F * b /\ T = Total(q, F)
  <2>1. F * b \in Nat
    OBVIOUS
  <2> QED
    BY <2>1, TotalType
<1>2. F * (b + 1) = w + F /\ w + F <= T
  <2>1. PICK N \in Nat : N = Len(q)
    BY TotalType
  <2>2. F * (b + 1) = F * b + F /\ F * b + F <= F * N
    BY <2>1, TotalAt
  <2>3. T = F * N
    BY <1>1, <2>1 DEF Total
  <2> QED
    BY <1>1, <2>2, <2>3
<1>3. PICK m \in Nat : m = Cut(F, c, b) /\ m <= w /\ m <= c - 1 /\ (m = w \/ m = c - 1)
  <2>1. Cut(F, c, b) = IF w <= c - 1 THEN w ELSE c - 1
    BY <1>1 DEF Cut
  <2> QED
    BY <2>1
<1>4. PICK n \in Nat : n = Min({c - m - 1, F}) /\ n = (IF c - m - 1 <= F THEN c - m - 1 ELSE F)
  <2>1. c - m - 1 \in Nat
    BY <1>3
  <2> QED
    BY <2>1, MinOfTwo
<1>5. n <= F /\ Cut(F, c, b + 1) = m + n /\ (m = w \/ n = 0)
  <2>1. Cut(F, c, b + 1) = IF w + F <= c - 1 THEN w + F ELSE c - 1
    BY <1>2 DEF Cut
  <2>2. CASE m = w
    BY <1>3, <1>4, <2>1, <2>2
  <2>3. CASE m # w
    <3>1. m = c - 1 /\ m < w
      BY <1>3, <2>3
    <3> QED
      BY <1>4, <2>1, <3>1
  <2> QED
    BY <2>2, <2>3
<1>6. w <= T /\ m <= T /\ m + n <= T /\ w + n <= T
  BY <1>2, <1>3, <1>5
<1>7. Len(Part(q, F, 0, m)) = m
  <2>1. 0 <= m /\ 0 \in Nat
    OBVIOUS
  <2>2. Len(Part(q, F, 0, m)) = m - 0
    BY <1>1, <1>6, <2>1, PartType
  <2> QED
    BY <2>2
<1>8. SubSeq(q[b + 1], 1, n) = Part(q, F, w, w + n)
  <2>1. 0 \in 0..F /\ n \in 0..F /\ 0 <= n
    BY <1>5
  <2>2. Slice(q[b + 1], 0, n) = Part(q, F, w + 0, w + n)
    BY <1>1, <2>1, SubSeqIsPart
  <2>3. 0 + 1 = 1 /\ w + 0 = w
    OBVIOUS
  <2> QED
    BY <2>2, <2>3 DEF Slice
<1>9. SubSeq(q[b + 1], n + 1, F) = Part(q, F, w + n, w + F)
  <2>1. n \in 0..F /\ F \in 0..F /\ n <= F
    BY <1>5
  <2>2. Slice(q[b + 1], n, F) = Part(q, F, w + n, w + F)
    BY <1>1, <2>1, SubSeqIsPart
  <2> QED
    BY <2>2 DEF Slice
<1>10. Part(q, F, w, w + n) = Part(q, F, m, m + n)
  <2>1. CASE m = w
    BY <2>1
  <2>2. CASE n = 0
    BY <2>2, PartEmpty
  <2> QED
    BY <1>5, <2>1, <2>2
<1>11. Part(q, F, 0, m) \o Part(q, F, w, w + n) = Part(q, F, 0, m + n)
  <2>1. 0 \in Nat /\ 0 <= m /\ m <= m + n /\ m + n <= T /\ m + n \in Nat
    BY <1>6
  <2>2. m + n <= Total(q, F)
    BY <1>1, <2>1
  <2>3. Part(q, F, 0, m) \o Part(q, F, m, m + n) = Part(q, F, 0, m + n)
    BY <2>1, <2>2, PartsJoin
  <2> QED
    BY <1>10, <2>3
<1>12. Part(q, F, m, w) \o Part(q, F, w + n, w + F) = Part(q, F, m + n, w + F)
  <2>1. CASE m = w
    <3>1. Part(q, F, m, w) = <<>>
      BY <2>1, PartEmpty
    <3>2. /\ w + n \in Nat /\ w + F \in Nat /\ w + n <= w + F /\ w + F <= T
      BY <1>2, <1>5
    <3>3. Part(q, F, w + n, w + F) \in Seq(Nat)
      BY <1>1, <3>2, PartType
    <3>4. PICK z \in Seq(Nat) : z = Part(q, F, w + n, w + F)
      BY <3>3
    <3>5. <<>> \o z = z
      OBVIOUS
    <3> QED
      BY <2>1, <3>1, <3>4, <3>5
  <2>2. CASE n = 0
    <3>1. m <= w /\ w <= w + F /\ w + F <= T /\ w + F \in Nat /\ w + n = w /\ m + n = m
      BY <1>2, <1>3, <2>2
    <3> QED
      BY <1>1, <3>1, PartsJoin
  <2> QED
    BY <1>5, <2>1, <2>2
<1>13. ReadOf(q, F, c, b) = [io |-> Part(q, F, 0, m), trail |-> Part(q, F, m, w)]
  BY <1>1, <1>3 DEF ReadOf
<1>14. ReadOf(q, F, c, b + 1) = [io |-> Part(q, F, 0, m + n), trail |-> Part(q, F, m + n, w + F)]
  BY <1>2, <1>5 DEF ReadOf
<1>15. PICK d : d = ReadOf(q, F, c, b)
  OBVIOUS
<1>16. d.io = Part(q, F, 0, m) /\ d.trail = Part(q, F, m, w) /\ Len(d.io) = m
  BY <1>7, <1>13, <1>15
<1>17. c - Len(d.io) - 1 = c - m - 1
  BY <1>16
<1>18. F = FieldsPerBlob =>
         ReadBlob(c, d, q[b + 1]) = [io |-> d.io \o SubSeq(q[b + 1], 1, n),
                                     trail |-> d.trail \o SubSeq(q[b + 1], n + 1, F)]
  BY <1>4, <1>17 DEF ReadBlob
<1> QED
  BY <1>8, <1>9, <1>11, <1>12, <1>14, <1>15, <1>16, <1>18

\* f is the function that load_game's loop computes.
IsRead(f, q, c) ==
  f = [b \in 0..Len(q) |-> IF b = 0 THEN [io |-> <<>>, trail |-> <<>>]
                                    ELSE ReadBlob(c, f[b - 1], q[b])]
Reading(q, c) == CHOOSE f : IsRead(f, q, c)

\* All of the blobs.
LEMMA ReadIs ==
  ASSUME NEW F \in Nat \ {0}, NEW q, IsBlobs(q, F), NEW c \in Nat \ {0},
         NEW f, f = Reading(q, c)
  PROVE  F = FieldsPerBlob => f[Len(q)] = ReadOf(q, F, c, Len(q))
<1> HAVE F = FieldsPerBlob
<1>0. F = FieldsPerBlob
  OBVIOUS
<1> HIDE <1>0
<1>1. PICK N \in Nat : N = Len(q)
  BY TotalType
<1>2. PICK g : g = [b \in 0..N |-> ReadOf(q, F, c, b)]
  OBVIOUS
<1>3. g[0] = [io |-> <<>>, trail |-> <<>>]
  <2>1. F * 0 = 0 /\ 0 <= c - 1
    OBVIOUS
  <2>2. Cut(F, c, 0) = 0
    BY <2>1 DEF Cut
  <2>3. Part(q, F, 0, 0) = <<>>
    BY PartEmpty
  <2>4. g[0] = ReadOf(q, F, c, 0)
    BY <1>2
  <2> QED
    BY <2>1, <2>2, <2>3, <2>4 DEF ReadOf
<1>4. ASSUME NEW b \in 0..N, b # 0 PROVE g[b] = ReadBlob(c, g[b - 1], q[b])
  <2>1. PICK d \in Nat : b = d + 1 /\ d \in 0..N /\ d = b - 1 /\ d + 1 <= Len(q)
    BY <1>1, <1>4
  <2>2. g[d] = ReadOf(q, F, c, d) /\ g[b] = ReadOf(q, F, c, d + 1)
    BY <1>2, <2>1
  <2> QED
    BY <1>0, <2>1, <2>2, ReadNext
<1>5. IsRead(g, q, c)
  <2>1. g = [b \in 0..N |-> g[b]]
    BY <1>2
  <2>2. \A b \in 0..N : g[b] = IF b = 0 THEN [io |-> <<>>, trail |-> <<>>]
                                        ELSE ReadBlob(c, g[b - 1], q[b])
    BY <1>3, <1>4
  <2> QED
    BY <1>1, <2>1, <2>2 DEF IsRead
<1>7. IsRead(f, q, c)
  BY <1>5 DEF Reading
<1> DEFINE G == {n \in Nat : n \in 0..N => f[n] = g[n]}
<1>8. f[0] = [io |-> <<>>, trail |-> <<>>]
  <2>1. 0 \in 0..Len(q)
    BY <1>1
  <2> QED
    BY <1>7, <2>1 DEF IsRead
<1>9. 0 \in G
  BY <1>3, <1>8
<1>10. ASSUME NEW n \in Nat, n \in G PROVE n + 1 \in G
  <2> SUFFICES ASSUME n + 1 \in 0..N PROVE f[n + 1] = g[n + 1]
    OBVIOUS
  <2>1. f[n] = g[n] /\ n + 1 # 0 /\ (n + 1) - 1 = n
    BY <1>10
  <2>2. f[n + 1] = ReadBlob(c, f[n], q[n + 1])
    BY <1>1, <1>7, <2>1 DEF IsRead
  <2>3. g[n + 1] = ReadBlob(c, g[n], q[n + 1])
    BY <1>4, <2>1
  <2> QED
    BY <2>1, <2>2, <2>3
<1> HIDE DEF G
<1>11. \A n \in Nat : n \in G
  BY <1>9, <1>10, Induction
<1>12. N \in 0..N
  OBVIOUS
<1>13. f[N] = g[N] /\ g[N] = ReadOf(q, F, c, N)
  BY <1>2, <1>11, <1>12 DEF G
<1> QED
  BY <1>1, <1>13

\* The fields of the proposal, where its blobs hold them.
LEMMA FieldsAre ==
  ASSUME IsGame(game), NEW lo \in Nat, NEW hi \in Nat, lo <= hi, hi <= NumFields(game),
         NEW F, F = FieldsPerBlob
  PROVE  Part(game.blobs, F, lo, hi) = [i \in 1..(hi - lo) |-> FieldOf(game, lo + i)]
<1>1. PICK p \in ProposalData : p = Precondition
  BY GameFacts
<1>2. p.blobs = game.blobs /\ NumFields(p) = NumFields(game) /\ NumFields(game) \in Nat
  BY <1>1, SameFields, NumFieldsType
<1>3. ASSUME NEW i \in 1..(hi - lo) PROVE FieldAt(game.blobs, F, lo + i) = FieldOf(game, lo + i)
  <2>1. PICK k \in Nat \ {0} : k = lo + i /\ k <= NumFields(p)
    BY <1>2
  <2>2. FieldOf(p, k) = FieldOf(game, k)
    BY <1>1, SameFields
  <2> QED
    BY <1>2, <2>1, <2>2, FieldPlace DEF FieldAt
<1> QED
  BY <1>3 DEF Part

\* load_game reads the intermediate outputs, and the fields after them.
LEMMA LoadReads ==
  ASSUME IsGame(game), LoadGame
  PROVE  IsLoaded(job') /\ job'.pc = "loaded"
<1>1. PICK F \in Nat \ {0} : F = FieldsPerBlob
  BY HostsAssumption
<1>2. PICK c \in Nat \ {0} : c = game.count
  BY GameFacts
<1>3. PICK q : q = game.blobs /\ IsBlobs(q, F)
  <2>1. Precondition.blobs \in Seq([1..FieldsPerBlob -> Nat])
    BY GameFacts DEF ProposalData
  <2> QED
    BY <1>1, <2>1, SameFields DEF IsBlobs
<1>4. PICK N \in Nat : N = Len(q)
  BY <1>3, TotalType
<1>5. PICK f, d : f = Reading(q, c) /\ d = f[N]
  OBVIOUS
<1>6. d = ReadOf(q, F, c, N)
  <2>1. f[Len(q)] = ReadOf(q, F, c, Len(q))
    BY <1>1, <1>3, <1>5, ReadIs
  <2> QED
    BY <1>4, <1>5, <2>1
<1>7. PICK T \in Nat : T = NumFields(game) /\ T = F * N /\ c - 1 <= T
  <2>1. NumFields(game) = N * F /\ N * F = F * N
    BY <1>1, <1>3, <1>4 DEF NumFields
  <2> QED
    BY <1>2, <2>1, NumFieldsType
<1>8. PICK m \in Nat : m = c - 1 /\ m <= T
  BY <1>7
<1>9. Cut(F, c, N) = m
  <2>1. Cut(F, c, N) = IF T <= m THEN T ELSE m
    BY <1>7, <1>8 DEF Cut
  <2> QED
    BY <1>8, <2>1
<1>10. d.io = Part(q, F, 0, m) /\ d.trail = Part(q, F, m, T)
  BY <1>6, <1>7, <1>9 DEF ReadOf
<1>11. d.io = [i \in 1..m |-> FieldOf(game, i)]
  <2>1. 0 \in Nat /\ 0 <= m /\ m <= NumFields(game)
    BY <1>7, <1>8
  <2>2. d.io = [i \in 1..(m - 0) |-> FieldOf(game, 0 + i)]
    BY <1>1, <1>3, <1>10, <2>1, FieldsAre
  <2>3. m - 0 = m /\ \A i \in 1..m : 0 + i = i
    OBVIOUS
  <2> QED
    BY <2>2, <2>3
<1>12. d.trail = [i \in 1..(T - m) |-> FieldOf(game, m + i)]
  <2>1. T <= NumFields(game)
    BY <1>7
  <2>2. Part(q, F, m, T) = [i \in 1..(T - m) |-> FieldOf(game, m + i)]
    BY <1>1, <1>3, <1>8, <2>1, FieldsAre
  <2> QED
    BY <1>10, <2>2
<1>13. job' = [pc |-> "loaded", io |-> d.io, trail |-> d.trail]
  BY <1>2, <1>3, <1>4, <1>5 DEF LoadGame, IsRead, Reading
<1>14. job'.pc = "loaded" /\ job'.io = d.io /\ job'.trail = d.trail
  BY <1>13
<1> QED
  BY <1>2, <1>7, <1>8, <1>11, <1>12, <1>14 DEF IsLoaded

-----------------------------------------------------------------------------
(***************************************************************************)
(* What fault() finds.                                                     *)
(***************************************************************************)

LEMMA MinExists ==
  ASSUME NEW S, S \subseteq Nat, S # {}
  PROVE  Min(S) \in S /\ \A x \in S : Min(S) <= x
<1> DEFINE G == {n \in Nat : \A k \in 0..n : k \notin S}
<1>1. \E m \in S : \A x \in S : m <= x
  <2> SUFFICES ASSUME \A m \in S : \E x \in S : ~(m <= x) PROVE FALSE
    OBVIOUS
  <2>1. \A m \in S : \E x \in S : x < m /\ x \in Nat /\ m \in Nat
    OBVIOUS
  <2>2. 0 \in G
    <3>1. 0 \notin S
      BY <2>1
    <3>2. \A k \in 0..0 : k = 0
      OBVIOUS
    <3> QED
      BY <3>1, <3>2
  <2>3. ASSUME NEW n \in Nat, n \in G PROVE n + 1 \in G
    <3>1. \A k \in 0..n : k \notin S
      BY <2>3
    <3>2. n + 1 \notin S
      <4> SUFFICES ASSUME n + 1 \in S PROVE FALSE
        OBVIOUS
      <4>1. PICK x \in S : x < n + 1 /\ x \in Nat
        BY <2>1
      <4>2. x \in 0..n
        BY <4>1
      <4> QED
        BY <3>1, <4>2
    <3>3. \A k \in 0..(n + 1) : k \in 0..n \/ k = n + 1
      OBVIOUS
    <3> QED
      BY <3>1, <3>2, <3>3
  <2> HIDE DEF G
  <2>4. \A n \in Nat : n \in G
    BY <2>2, <2>3, Induction
  <2>5. PICK s \in S : s \in Nat
    OBVIOUS
  <2>6. s \in 0..s
    BY <2>5
  <2> QED
    BY <2>4, <2>5, <2>6 DEF G
<1>2. PICK m \in S : \A x \in S : m <= x
  BY <1>1
<1>3. Min(S) = m
  BY <1>2, MinIs
<1> QED
  BY <1>2, <1>3

\* The field of output i is that of the chain.
IsOutput(i) == FieldOf(game, i) = HashToFe(Output(game.head + i * game.span))

LEMMA LoadedIs ==
  ASSUME IsGame(game), IsLoaded(job), NEW m, m = game.count - 1, NEW n, n = NumFields(game) - m
  PROVE  /\ m \in Nat /\ n \in Nat /\ Len(job.io) = m /\ DOMAIN job.io = 1..m /\ DOMAIN job.trail = 1..n
         /\ \A i \in 1..m : job.io[i] = FieldOf(game, i) /\ (CorrectIo(i) <=> IsOutput(i))
         /\ \A i \in 1..n : job.trail[i] = FieldOf(game, m + i)
<1>1. m \in Nat /\ n \in Nat
  BY GameFacts, NumFieldsType
<1>2. job.io = [i \in 1..m |-> FieldOf(game, i)] /\ job.trail = [i \in 1..n |-> FieldOf(game, m + i)]
  BY DEF IsLoaded
<1>3. Len(job.io) = m
  BY <1>1, <1>2
<1> QED
  BY <1>1, <1>2, <1>3 DEF CorrectIo, IsOutput

\* fault() names a place in which the proposal is wrong, the first of the outputs that are
\* wrong, and none if it is right.
LEMMA FaultCases ==
  ASSUME IsGame(game), IsLoaded(job), NEW m, m = game.count - 1
  PROVE  \/ \E t \in 1..(NumFields(game) - m) :
              /\ FaultOf = [kind |-> "trail", at |-> m + t] /\ FieldOf(game, m + t) # 0
              /\ OutputFeAt(m + t) = FieldOf(game, m + t)
         \/ \E i \in 1..m :
              /\ FaultOf = [kind |-> "output", at |-> i - 1]
              /\ ~IsOutput(i) /\ \A j \in 1..(i - 1) : IsOutput(j)
              /\ OutputFeAt(i - 1) = FieldOf(game, i)
         \/ /\ FaultOf = [kind |-> "output", at |-> m] /\ ~CorrectClaim
            /\ \A j \in 1..m : IsOutput(j)
         \/ FaultOf = NoFault /\ IsRight(game)
<1>1. PICK n : n = NumFields(game) - m
  OBVIOUS
<1>2. /\ m \in Nat /\ n \in Nat /\ Len(job.io) = m /\ DOMAIN job.io = 1..m /\ DOMAIN job.trail = 1..n
      /\ \A i \in 1..m : job.io[i] = FieldOf(game, i) /\ (CorrectIo(i) <=> IsOutput(i))
      /\ \A i \in 1..n : job.trail[i] = FieldOf(game, m + i)
  BY <1>1, LoadedIs
<1>3. PICK trail, io : /\ trail = {i \in DOMAIN job.trail : ~CorrectTrail(i)}
                       /\ io = {i \in DOMAIN job.io : ~CorrectIo(i)}
  OBVIOUS
<1>4. FaultOf = IF trail # {} THEN [kind |-> "trail", at |-> m + Min(trail)]
                ELSE IF io # {} THEN [kind |-> "output", at |-> Min(io) - 1]
                ELSE IF ~CorrectClaim THEN [kind |-> "output", at |-> m]
                ELSE NoFault
  BY <1>2, <1>3 DEF FaultOf
<1>5. CASE trail # {}
  <2>1. trail \subseteq Nat
    BY <1>2, <1>3
  <2>2. PICK t \in trail : t = Min(trail)
    BY <1>5, <2>1, MinExists
  <2>3. t \in 1..n /\ FieldOf(game, m + t) # 0 /\ job.trail[t] = FieldOf(game, m + t)
    BY <1>2, <1>3 DEF CorrectTrail
  <2>4. ~(m + t < m) /\ m + t # m /\ (m + t) - m = t
    <3>1. m \in Nat /\ t \in Nat /\ t > 0
      BY <1>2, <2>3
    <3> QED
      BY ONLY <3>1
  <2>5. OutputFeAt(m + t) = FieldOf(game, m + t)
    BY <1>2, <2>3, <2>4 DEF OutputFeAt
  <2> QED
    BY <1>1, <1>4, <1>5, <2>2, <2>3, <2>5
<1>6. CASE trail = {} /\ io # {}
  <2>1. io \subseteq Nat
    BY <1>2, <1>3
  <2>2. PICK i \in io : i = Min(io) /\ \A x \in io : i <= x
    BY <1>6, <2>1, MinExists
  <2>3. i \in 1..m /\ ~IsOutput(i) /\ job.io[i] = FieldOf(game, i)
    BY <1>2, <1>3
  <2>4. ASSUME NEW j \in 1..(i - 1) PROVE IsOutput(j)
    <3>1. j \in 1..m /\ ~(i <= j)
      BY <1>2, <2>3
    <3>2. j \notin io
      BY <2>2, <3>1
    <3> QED
      BY <1>2, <1>3, <3>1, <3>2
  <2>5. i - 1 < m /\ (i - 1) + 1 = i
    BY <1>2, <2>3
  <2>6. OutputFeAt(i - 1) = FieldOf(game, i)
    BY <1>2, <2>3, <2>5 DEF OutputFeAt
  <2> QED
    BY <1>4, <1>6, <2>2, <2>3, <2>4, <2>6
<1>7. CASE trail = {} /\ io = {}
  <2>1. \A j \in 1..m : IsOutput(j)
    BY <1>2, <1>3, <1>7
  <2>2. \A i \in 1..n : FieldOf(game, m + i) = 0
    BY <1>2, <1>3, <1>7 DEF CorrectTrail
  <2>3. CASE ~CorrectClaim
    BY <1>4, <1>7, <2>1, <2>3
  <2>4. CASE CorrectClaim
    <3>1. FaultOf = NoFault
      BY <1>4, <1>7, <2>4
    <3>2. ASSUME NEW i \in 1..NumFields(game)
          PROVE  FieldOf(game, i) = IF i < game.count
                   THEN HashToFe(ChainFrom(Genesis, Absent, game.head + i * game.span - Genesis.n))
                   ELSE 0
      <4>1. game.count = m + 1 /\ NumFields(game) = m + n /\ game.head \in Nat /\ game.span \in Nat
        <5>1. game.count \in Nat /\ game.head \in Nat /\ game.span \in Nat
          BY GameFacts
        <5>2. NumFields(game) \in Nat /\ m \in Nat /\ n = NumFields(game) - m
          BY <1>1, <1>2, NumFieldsType
        <5>3. NumFields(game) = m + n
          BY <5>2
        <5> QED
          BY <5>1, <5>3
      <4>2. CASE i < game.count
        <5>1. i \in 1..m
          BY <1>2, <4>1, <4>2
        <5>2. PICK w \in Nat : w = i * game.span
          BY <4>1
        <5>3. w - Genesis.n = w
          BY DEF Genesis, Root
        <5>4. FieldOf(game, i) = HashToFe(Output(game.head + w))
          BY <2>1, <5>1, <5>2 DEF IsOutput
        <5>5. game.head + i * game.span - Genesis.n = game.head + w
          BY <5>2, <5>3
        <5> QED
          BY <4>2, <5>4, <5>5 DEF Output
      <4>3. CASE ~(i < game.count)
        <5>1. PICK x \in 1..n : i = m + x
          <6>1. m \in Nat /\ n \in Nat /\ i \in 1..(m + n) /\ ~(i < m + 1)
            BY <1>2, <4>1, <4>3
          <6>2. i - m \in 1..n /\ i = m + (i - m)
            BY <6>1
          <6> QED
            BY <6>2
        <5> QED
          BY <2>2, <4>3, <5>1
      <4> QED
        BY <4>2, <4>3
    <3>3. Len(game.blobs) = (game.count + FieldsPerBlob - 2) \div FieldsPerBlob
      BY GameFacts, BlobsNeeded
    <3>4. IsRight(game)
      BY <2>4, <3>2, <3>3 DEF IsRight, WellFormed, CorrectClaim
    <3> QED
      BY <3>1, <3>4
  <2> QED
    BY <2>3, <2>4
<1> QED
  BY <1>5, <1>6, <1>7

-----------------------------------------------------------------------------
(***************************************************************************)
(* What the validator asks for, and what it publishes.                     *)
(***************************************************************************)

\* The receipt of a fault proof: from the output before the fault to the right one.
LEMMA FaultReceiptIs ==
  ASSUME IsGame(game), NEW at \in Nat, at < game.count, NEW r, r = FaultReceipt(at)
  PROVE  /\ r.precondition = NoProposal
         /\ r.agreed = Output(game.head + at * game.span) /\ r.agreed \in Known
         /\ r.claimed = Output(game.head + (at + 1) * game.span)
         /\ r.number = game.head + (at + 1) * game.span
         /\ r.agreed.n <= r.number /\ r.number - r.agreed.n = game.span
         /\ r.claimed = ChainFrom(r.agreed, Absent, game.span)
         /\ r = Receipt(NoProposal, r.agreed, r.claimed, r.number)
         /\ Provable(r)
<1>1. PICK c \in Nat \ {0}, h \in Nat, s \in Nat \ {0} : c = game.count /\ h = game.head /\ s = game.span
  BY GameFacts
<1>2. PICK w \in Nat : w = at * s
  OBVIOUS
<1>3. at \in 0..game.count
  BY <1>1
<1>4. h + w \in 0..EndOf(game) /\ (at + 1) * s = w + s /\ s * at = w
  BY <1>1, <1>2, <1>3, OutputBlock
<1>5. PICK A \in Nat, B \in Nat : A = h + w /\ B = A + s /\ B = h + (w + s) /\ B - A = s /\ A <= B
  OBVIOUS
<1>6. r = Receipt(NoProposal, Output(A), Output(B), B)
  BY <1>1, <1>4, <1>5 DEF FaultReceipt
<1>7. r.precondition = NoProposal /\ r.agreed = Output(A) /\ r.claimed = Output(B) /\ r.number = B
  BY <1>6 DEF Receipt
<1>8. Output(A).n = A /\ ChainFrom(Output(A), Absent, s) = Output(B)
  <2>1. ChainFrom(Output(A), Absent, s) = Output(A + s)
    BY OutputFacts
  <2> QED
    BY <1>5, <2>1, OutputFacts
<1>9. Output(A) \in Known
  BY <1>4, <1>5 DEF Known
<1>10. Provable(r)
  <2>1. r.number - r.agreed.n = s
    BY <1>5, <1>7, <1>8
  <2>2. Len([i \in 1..s |-> ChainFrom(r.agreed, Absent, i)]) = s
    OBVIOUS
  <2> QED
    BY <1>7, <1>8, <2>1, <2>2 DEF Provable
<1> QED
  BY <1>1, <1>2, <1>4, <1>5, <1>6, <1>7, <1>8, <1>9, <1>10

LEMMA ValidityReceiptIs ==
  ASSUME IsGame(game)
  PROVE  /\ ValidityReceipt.agreed = game.agreed /\ ValidityReceipt.claimed = game.claim
         /\ ValidityReceipt = Receipt(IF game.count > 1 THEN Precondition ELSE NoProposal, game.agreed,
                                      game.claim, game.head + game.count * game.span)
BY GameFacts DEF ValidityReceipt, Receipt

\* A right proposal whose outputs do not fill its last blob can be proven valid.
LEMMA RightIsProvable ==
  ASSUME IsGame(game), IsRight(game), ~Provable(ValidityReceipt)
  PROVE  Filled(game)
<1>1. PICK c \in Nat \ {0}, h \in Nat, s \in Nat \ {0} : c = game.count /\ h = game.head /\ s = game.span
  BY GameFacts
<1>2. PICK k \in Nat \ {0} : k = c * s /\ EndOf(game) = h + k
  <2>1. c * s \in Nat /\ c * s # 0
    OBVIOUS
  <2> QED
    BY <1>1, <2>1, GameFacts
<1>3. game.agreed = Output(h) /\ Output(h) \in AgreedRoots /\ Output(h).n = h
  BY <1>1, GameFacts, OutputFacts
<1>4. EndOf(game) - h = k
  BY <1>2
<1>5. PICK roots : roots = [i \in 1..k |-> ChainFrom(Output(h), Absent, i)]
  OBVIOUS
<1>6. Len(roots) = k /\ DOMAIN roots = 1..k
  BY <1>5
<1>7. game.claim = ChainFrom(Output(h), Absent, k)
  BY <1>2, OutputFacts DEF IsRight
<1>8. c > 1 /\ ~ValidatePrecondition(Precondition, h, roots)
  <2>1. PICK r : r = ValidityReceipt
    OBVIOUS
  <2>2. /\ r.precondition = (IF c > 1 THEN Precondition ELSE NoProposal) /\ r.agreed = Output(h)
        /\ r.claimed = game.claim /\ r.number = EndOf(game)
    BY <1>1, <1>3, <2>1 DEF ValidityReceipt, Receipt
  <2> QED
    BY <1>3, <1>4, <1>5, <1>6, <1>7, <2>1, <2>2 DEF Provable
<1>9. PICK p \in ProposalData : p = Precondition
  BY GameFacts
<1>10. p.head = h /\ p.count = c /\ EndOf(p) = h + k /\ WellFormed(p, Genesis, Absent)
  BY <1>1, <1>2, <1>9, SameFields DEF IsRight
<1>11. ASSUME NEW i \in 1..k PROVE roots[i] = ChainFrom(Genesis, Absent, h + i)
  BY <1>5, OutputFacts DEF Output
<1>12. Absent \in Attributes /\ p.head <= h /\ h + k <= EndOf(p)
  BY <1>10 DEF Attributes
<1>13. p.count > 1 /\ (p.count - 1) % FieldsPerBlob = 0
  BY <1>6, <1>8, <1>9, <1>10, <1>11, <1>12, WellFormedValidates
<1> QED
  BY <1>1, <1>10, <1>13 DEF Filled

\* What the validator found when it asks for the proof of a fault.
LEMMA FoundFault ==
  ASSUME IsGame(game), IsLoaded(job), job.fault = FaultOf, job.fault.kind = "output",
         NEW at, at = job.fault.at
  PROVE  /\ at \in Nat /\ at < game.count /\ \A j \in 1..at : IsOutput(j)
         /\ \/ at = game.count - 1 /\ ~CorrectClaim
            \/ /\ at < game.count - 1 /\ ~IsOutput(at + 1) /\ OutputFeAt(at) = FieldOf(game, at + 1)
<1>1. PICK m \in Nat : m = game.count - 1 /\ game.count = m + 1
  BY GameFacts
<1>2. \/ \E i \in 1..m :
              /\ FaultOf = [kind |-> "output", at |-> i - 1]
              /\ ~IsOutput(i) /\ \A j \in 1..(i - 1) : IsOutput(j)
              /\ OutputFeAt(i - 1) = FieldOf(game, i)
      \/ /\ FaultOf = [kind |-> "output", at |-> m] /\ ~CorrectClaim
         /\ \A j \in 1..m : IsOutput(j)
  BY <1>1, FaultCases DEF NoFault
<1>3. CASE FaultOf = [kind |-> "output", at |-> m] /\ ~CorrectClaim /\ \A j \in 1..m : IsOutput(j)
  <2>1. at = m /\ m < m + 1
    BY <1>3
  <2> QED
    BY <1>1, <1>3, <2>1
<1>4. ASSUME NEW i \in 1..m, FaultOf = [kind |-> "output", at |-> i - 1],
             ~IsOutput(i), \A j \in 1..(i - 1) : IsOutput(j),
             OutputFeAt(i - 1) = FieldOf(game, i)
      PROVE  /\ at \in Nat /\ at < game.count /\ \A j \in 1..at : IsOutput(j)
             /\ at < game.count - 1 /\ ~IsOutput(at + 1) /\ OutputFeAt(at) = FieldOf(game, at + 1)
  <2>1. at = i - 1 /\ at + 1 = i /\ at \in Nat /\ at < m + 1 /\ at < m
    BY <1>4
  <2> QED
    BY <1>1, <1>4, <2>1
<1> QED
  BY <1>2, <1>3, <1>4

LEMMA LoadGameKeeps ==
  ASSUME DisputeInv, LoadGame
  PROVE  DisputeInv'
<1>1. IsGame(game) /\ UNCHANGED <<game, status>>
  BY DEF DisputeInv, LoadGame
<1>2. IsLoaded(job') /\ job'.pc = "loaded"
  BY <1>1, LoadReads
<1>3. IsJob(job)'
  BY <1>1, <1>2 DEF IsJob, IsLoaded, FieldOf, NumFields
<1>4. IsGame(game)' /\ StatusIsRight'
  BY <1>1 DEF DisputeInv, StatusIsRight, IsGame
<1>5. ProofsAreAccepted'
  BY <1>2 DEF ProofsAreAccepted
<1> QED
  BY <1>1, <1>3, <1>4, <1>5 DEF DisputeInv

LEMMA AssessKeeps ==
  ASSUME DisputeInv, Assess
  PROVE  DisputeInv'
<1>1. IsGame(game) /\ UNCHANGED <<game, status>> /\ IsLoaded(job)
  BY DEF DisputeInv, Assess, IsJob
<1>2. job' = [pc |-> "assessed", io |-> job.io, trail |-> job.trail, fault |-> FaultOf]
  BY DEF Assess
<1>3. /\ job'.pc = "assessed" /\ job'.io = job.io /\ job'.trail = job.trail /\ job'.fault = FaultOf
      /\ job' = [pc |-> job'.pc, io |-> job'.io, trail |-> job'.trail, fault |-> job'.fault]
  BY <1>2
<1>4. FaultOf' = FaultOf
  BY <1>1, <1>3 DEF FaultOf, CorrectIo, CorrectTrail, CorrectClaim
<1>5. IsLoaded(job)'
  BY <1>1, <1>3 DEF IsLoaded
<1>6. IsJob(job)'
  BY <1>3, <1>4, <1>5 DEF IsJob, IsAssessed
<1>7. IsGame(game)' /\ StatusIsRight'
  BY <1>1 DEF DisputeInv, StatusIsRight, IsGame
<1>8. ProofsAreAccepted'
  BY <1>3 DEF ProofsAreAccepted
<1> QED
  BY <1>1, <1>6, <1>7, <1>8 DEF DisputeInv

LEMMA RequestKeeps ==
  ASSUME DisputeInv, RequestFaultProof \/ RequestValidityProof
  PROVE  DisputeInv'
<1>1. /\ IsGame(game) /\ UNCHANGED <<game, status>> /\ IsAssessed(job)
  BY DEF DisputeInv, RequestFaultProof, RequestValidityProof, IsJob
<1>2. PICK r : /\ Ask(r)
               /\ \/ job.fault = NoFault /\ r = ValidityReceipt
                  \/ job.fault.kind = "output" /\ r = FaultReceipt(job.fault.at)
  BY DEF RequestFaultProof, RequestValidityProof, ValidityReceipt, FaultReceipt
<1>3. /\ job'.pc = "asked" /\ job'.io = job.io /\ job'.trail = job.trail /\ job'.fault = job.fault
      /\ job'.receipt = r
      /\ job' = [pc |-> job'.pc, io |-> job'.io, trail |-> job'.trail, fault |-> job'.fault,
                 receipt |-> job'.receipt]
  BY <1>2 DEF Ask
<1>4. FaultOf' = FaultOf
  BY <1>1, <1>3 DEF FaultOf, CorrectIo, CorrectTrail, CorrectClaim
<1>5. IsAssessed(job)'
  BY <1>1, <1>3, <1>4 DEF IsLoaded, IsAssessed
<1>6. ValidityReceipt' = ValidityReceipt /\ \A at : FaultReceipt(at)' = FaultReceipt(at)
  BY <1>1 DEF ValidityReceipt, FaultReceipt, Precondition
<1>7. IsJob(job)'
  BY <1>2, <1>3, <1>5, <1>6 DEF IsJob, IsAsked
<1>8. IsGame(game)' /\ StatusIsRight'
  BY <1>1 DEF DisputeInv, StatusIsRight, IsGame
<1>9. ProofsAreAccepted'
  BY <1>3 DEF ProofsAreAccepted
<1> QED
  BY <1>1, <1>7, <1>8, <1>9 DEF DisputeInv

LEMMA ProveKeeps ==
  ASSUME DisputeInv, Prove
  PROVE  DisputeInv'
<1>1. /\ IsGame(game) /\ UNCHANGED <<game, status>> /\ IsAsked(job)
  BY DEF DisputeInv, Prove, IsJob
<1>2. PICK r : r = job.receipt
  OBVIOUS
<1>3. PICK pc : /\ pc = (IF Provable(r) THEN "proved" ELSE "unprovable")
                /\ job' = [job EXCEPT !.pc = pc]
  BY <1>2 DEF Prove
<1>4. job = [pc |-> job.pc, io |-> job.io, trail |-> job.trail, fault |-> job.fault,
             receipt |-> job.receipt]
  BY <1>1 DEF IsAsked
<1>5. /\ job'.pc = pc /\ job'.io = job.io /\ job'.trail = job.trail /\ job'.fault = job.fault
      /\ job'.receipt = r
      /\ job' = [pc |-> job'.pc, io |-> job'.io, trail |-> job'.trail, fault |-> job'.fault,
                 receipt |-> job'.receipt]
  BY <1>2, <1>3, <1>4
<1>6. FaultOf' = FaultOf
  BY <1>1, <1>5 DEF FaultOf, CorrectIo, CorrectTrail, CorrectClaim
<1>7. IsAssessed(job)'
  BY <1>1, <1>5, <1>6 DEF IsLoaded, IsAssessed, IsAsked
<1>8. ValidityReceipt' = ValidityReceipt /\ \A at : FaultReceipt(at)' = FaultReceipt(at)
  BY <1>1 DEF ValidityReceipt, FaultReceipt, Precondition
<1>9. /\ \/ job.fault = NoFault /\ r = ValidityReceipt
         \/ job.fault.kind = "output" /\ r = FaultReceipt(job.fault.at)
      /\ IsLoaded(job) /\ job.fault = FaultOf
  BY <1>1, <1>2 DEF IsAsked, IsAssessed
<1>10. Provable(job.receipt)' <=> Provable(r)
  BY <1>5 DEF Provable
<1>11. IsJob(job)'
  BY <1>3, <1>5, <1>7, <1>8, <1>9, <1>10 DEF IsJob, IsAsked
<1>12. ASSUME ~Provable(r)
       PROVE  IsRight(game) /\ Filled(game)
  <2>1. job.fault = NoFault /\ r = ValidityReceipt
    <3> SUFFICES ASSUME job.fault.kind = "output", r = FaultReceipt(job.fault.at) PROVE FALSE
      BY <1>9
    <3>1. job.fault.at \in Nat /\ job.fault.at < game.count
      BY <1>1, <1>9, FoundFault
    <3> QED
      BY <1>1, <1>12, <3>1, FaultReceiptIs
  <2>2. IsRight(game)
    <3>1. PICK m : m = game.count - 1
      OBVIOUS
    <3>2. FaultOf.kind # "trail" /\ FaultOf.kind # "output"
      BY <1>9, <2>1 DEF NoFault
    <3> QED
      BY <1>1, <1>9, <3>1, <3>2, FaultCases
  <2> QED
    BY <1>1, <1>12, <2>1, <2>2, RightIsProvable
<1>13. IsGame(game)' /\ StatusIsRight'
  BY <1>1 DEF DisputeInv, StatusIsRight, IsGame
<1>14. ProofsAreAccepted'
  <2>1. job'.pc = "unprovable" => ~Provable(r)
    BY <1>3, <1>5
  <2>2. job'.pc # "refused" /\ game' = game
    BY <1>1, <1>3, <1>5
  <2> QED
    BY <1>12, <2>1, <2>2 DEF ProofsAreAccepted, Filled
<1> QED
  BY <1>1, <1>11, <1>13, <1>14 DEF DisputeInv

\* A step that publishes keeps the invariant if what it publishes is true, and it is accepted
\* unless a proof is there already.
LEMMA PublishKeeps ==
  ASSUME DisputeInv, NEW accepted \in BOOLEAN, NEW outcome \in {"fault", "validity"},
         Publish(accepted, outcome), UNCHANGED game, "pc" \in DOMAIN job,
         accepted => IF outcome = "fault" THEN ~IsRight(game) ELSE IsRight(game),
         accepted \/ status # "none" \/ LooksValid(game)
  PROVE  DisputeInv'
<1>1. PICK pc : pc = (IF accepted THEN "published" ELSE "refused") /\ job' = [job EXCEPT !.pc = pc]
  BY DEF Publish
<1>2. job'.pc = pc
  BY <1>1
<1>3. status' = IF accepted THEN outcome ELSE status
  BY DEF Publish
<1>4. IsJob(job)'
  BY <1>1, <1>2 DEF IsJob
<1>5. IsGame(game)' /\ status' \in {"none", "fault", "validity"}
  BY <1>3 DEF DisputeInv, IsGame
<1>6. StatusIsRight'
  BY <1>3 DEF DisputeInv, StatusIsRight
<1>7. ProofsAreAccepted'
  <2>1. job'.pc # "unprovable" /\ (job'.pc = "refused" <=> ~accepted)
    BY <1>1, <1>2
  <2>2. LooksValid(game)' <=> LooksValid(game)
    BY DEF LooksValid
  <2> QED
    BY <1>3, <2>1, <2>2 DEF ProofsAreAccepted
<1> QED
  BY <1>4, <1>5, <1>6, <1>7 DEF DisputeInv

LEMMA PublishValidityKeeps ==
  ASSUME DisputeInv, PublishValidity
  PROVE  DisputeInv'
<1>1. IsGame(game) /\ UNCHANGED game /\ IsAsked(job) /\ IsLoaded(job) /\ job.fault = FaultOf
  BY DEF DisputeInv, PublishValidity, IsJob, IsAsked, IsAssessed
<1>2. PICK r : r = job.receipt /\ Provable(r) /\ r.agreed = game.agreed /\ r.claimed = game.claim
  BY <1>1 DEF PublishValidity, IsAsked, IsValidityReceipt
<1>3. PICK accepted \in BOOLEAN : accepted = AcceptsValidity(r)
  BY DEF AcceptsValidity
<1>4. Publish(accepted, "validity")
  BY <1>2, <1>3 DEF PublishValidity
<1>5. ASSUME accepted PROVE IsRight(game)
  <2>1. r = ValidityReceipt
    BY <1>1, <1>3, <1>5, ValidityReceiptIs DEF AcceptsValidity, Verify
  <2> QED
    BY <1>1, <1>2, <2>1, ProvenValidIsRight
<1>6. ASSUME ~accepted, status = "none" PROVE LooksValid(game)
  <2>1. r # ValidityReceipt
    BY <1>1, <1>3, <1>6, ValidityReceiptIs DEF AcceptsValidity, Verify
  <2>2. PICK at : at = job.fault.at /\ job.fault.kind = "output" /\ r = FaultReceipt(at)
    BY <1>1, <1>2, <2>1 DEF IsAsked
  <2>3. /\ at \in Nat /\ at < game.count
        /\ \/ at = game.count - 1 /\ ~CorrectClaim
           \/ /\ at < game.count - 1 /\ ~IsOutput(at + 1)
    BY <1>1, <2>2, FoundFault
  <2>4. /\ r.agreed = Output(game.head + at * game.span)
        /\ r.claimed = Output(game.head + (at + 1) * game.span)
    BY <1>1, <2>2, <2>3, FaultReceiptIs
  <2>5. PICK c \in Nat \ {0}, h \in Nat, s \in Nat \ {0} : c = game.count /\ h = game.head /\ s = game.span
    BY <1>1, GameFacts
  <2>6. at = 0
    <3>1. PICK w \in Nat : w = at * s
      BY <2>3
    <3>2. Output(h) = Output(h + w)
      BY <1>1, <1>2, <2>4, <2>5, <3>1, GameFacts
    <3>3. h = h + w
      BY <3>2, OutputFacts
    <3>4. at * s = 0
      BY <3>1, <3>3
    <3> QED
      BY <2>3, <3>4
  <2>7. (at + 1) * s = s /\ 1 * s = s /\ at + 1 = 1
    BY <2>6
  <2>8. game.claim = Output(h + s)
    BY <1>2, <2>4, <2>5, <2>7
  <2>9. c # 1
    <3> SUFFICES ASSUME c = 1 PROVE FALSE
      OBVIOUS
    <3>1. ~CorrectClaim
      BY <2>3, <2>5, <2>6
    <3>2. EndOf(game) = h + s
      BY <1>1, <2>5, <2>7, GameFacts
    <3> QED
      BY <2>8, <3>1, <3>2 DEF CorrectClaim
  <2>10. ~IsOutput(1)
    BY <2>3, <2>5, <2>6, <2>7, <2>9
  <2> QED
    BY <2>5, <2>7, <2>8, <2>9, <2>10 DEF LooksValid, IsOutput
<1>7. "pc" \in DOMAIN job
  BY <1>1 DEF IsAsked
<1> QED
  BY <1>1, <1>4, <1>5, <1>6, <1>7, PublishKeeps

LEMMA PublishOutputFaultKeeps ==
  ASSUME DisputeInv, PublishOutputFault
  PROVE  DisputeInv'
<1>1. IsGame(game) /\ UNCHANGED game /\ IsAsked(job) /\ IsLoaded(job) /\ job.fault = FaultOf
  BY DEF DisputeInv, PublishOutputFault, IsJob, IsAsked, IsAssessed
<1>2. PICK r : r = job.receipt /\ ~IsValidityReceipt(r)
  BY DEF PublishOutputFault
<1>3. PICK at : at = job.fault.at /\ job.fault.kind = "output" /\ r = FaultReceipt(at)
  <2>1. r # ValidityReceipt
    BY <1>1, <1>2, ValidityReceiptIs DEF IsValidityReceipt
  <2> QED
    BY <1>1, <1>2, <2>1 DEF IsAsked
<1>4. /\ at \in Nat /\ at < game.count /\ \A j \in 1..at : IsOutput(j)
      /\ \/ at = game.count - 1 /\ ~CorrectClaim
         \/ /\ at < game.count - 1 /\ ~IsOutput(at + 1) /\ OutputFeAt(at) = FieldOf(game, at + 1)
  BY <1>1, <1>3, FoundFault
<1>5. /\ r.agreed = Output(game.head + at * game.span) /\ r.agreed \in Known
      /\ r.claimed = Output(game.head + (at + 1) * game.span)
      /\ r.number = game.head + (at + 1) * game.span
      /\ r.agreed.n <= r.number /\ r.number - r.agreed.n = game.span
      /\ r.claimed = ChainFrom(r.agreed, Absent, game.span)
      /\ r = Receipt(NoProposal, r.agreed, r.claimed, r.number)
  BY <1>1, <1>3, <1>4, FaultReceiptIs
<1>6. PICK first, second, openings :
        /\ first = (IF at > 0 THEN <<Opening(at - 1)>> ELSE <<>>)
        /\ second = (IF r.number # EndOf(game) THEN <<Opening(at)>> ELSE <<>>)
        /\ openings = first \o second
  OBVIOUS
<1>7. PICK accepted \in BOOLEAN :
        accepted = AcceptsOutputFault(r, at, r.agreed, r.claimed, OutputFeAt(at), openings)
  BY DEF AcceptsOutputFault
<1>8. Publish(accepted, "fault")
  BY <1>2, <1>3, <1>6, <1>7 DEF PublishOutputFault
<1>9. ASSUME accepted PROVE ~IsRight(game)
  <2>1. AcceptsOutputFault(r, at, r.agreed, r.claimed, OutputFeAt(at), openings)
    BY <1>7, <1>9
  <2> QED
    BY <1>1, <1>4, <1>5, <2>1, AcceptedFaultIsFault
<1>10. ASSUME status = "none" PROVE accepted
  <2>1. PICK c \in Nat \ {0}, h \in Nat, s \in Nat \ {0} : c = game.count /\ h = game.head /\ s = game.span
    BY <1>1, GameFacts
  <2>2. EndOf(game) = h + c * s /\ c - 1 <= NumFields(game) /\ NumFields(game) \in Nat
    BY <1>1, <2>1, GameFacts, NumFieldsType
  <2>3. r.number = EndOf(game) <=> at = c - 1
    <3>1. CASE at = c - 1
      <4>1. at + 1 = c
        BY <3>1
      <4> QED
        BY <1>5, <2>1, <2>2, <3>1, <4>1
    <3>2. CASE at # c - 1
      <4>1. PICK d \in Nat \ {0} : c = (at + 1) + d
        <5>1. c - (at + 1) \in Nat \ {0}
          BY <1>4, <2>1, <3>2
        <5> QED
          BY <1>4, <5>1
      <4>2. PICK x \in Nat, y \in Nat : x = (at + 1) * s /\ y = d * s
        BY <1>4
      <4>3. y # 0
        BY <4>2
      <4>4. c * s = x + y
        BY <1>4, <4>1, <4>2
      <4>5. r.number = h + x /\ EndOf(game) = h + (x + y)
        BY <1>5, <2>1, <2>2, <4>2, <4>4
      <4> QED
        BY <3>2, <4>3, <4>5
    <3> QED
      BY <3>1, <3>2
  <2>4. IF at = 0 THEN r.agreed = game.agreed
        ELSE openings # <<>> /\ VerifyIntermediateOutput(at - 1, HashToFe(r.agreed), Head(openings))
    <3>1. CASE at = 0
      <4>1. h + at * s = h
        BY <3>1
      <4> QED
        BY <1>1, <1>5, <2>1, <3>1, <4>1, GameFacts
    <3>2. CASE at # 0
      <4>1. at > 0 /\ at - 1 \in Nat /\ (at - 1) + 1 = at /\ at \in 1..at
        BY <1>4, <3>2
      <4>2. FieldOf(game, at) = HashToFe(r.agreed)
        BY <1>4, <1>5, <4>1 DEF IsOutput
      <4>3. at <= NumFields(game)
        BY <1>4, <2>1, <2>2
      <4>4. VerifyIntermediateOutput(at - 1, HashToFe(r.agreed), Opening(at - 1))
        BY <1>1, <4>1, <4>2, <4>3, OpeningVerifies
      <4>5. openings # <<>> /\ Head(openings) = Opening(at - 1)
        BY <1>6, <4>1
      <4> QED
        BY <3>2, <4>4, <4>5
    <3> QED
      BY <3>1, <3>2
  <2>5. IF at = game.count - 1 THEN r.claimed # game.claim
        ELSE /\ openings # <<>> /\ VerifyIntermediateOutput(at, OutputFeAt(at), Last(openings))
             /\ HashToFe(r.claimed) # OutputFeAt(at)
    <3>1. CASE at = c - 1
      <4>1. at + 1 = c /\ ~CorrectClaim
        BY <1>4, <2>1, <3>1
      <4>2. r.claimed = Output(EndOf(game))
        BY <1>5, <2>1, <2>2, <4>1
      <4> QED
        BY <2>1, <3>1, <4>1, <4>2 DEF CorrectClaim
    <3>2. CASE at # c - 1
      <4>1. ~IsOutput(at + 1) /\ OutputFeAt(at) = FieldOf(game, at + 1)
        BY <1>4, <2>1, <3>2
      <4>2. HashToFe(r.claimed) # OutputFeAt(at)
        BY <1>5, <4>1 DEF IsOutput
      <4>3. at + 1 <= NumFields(game)
        BY <1>4, <2>1, <2>2, <3>2
      <4>4. VerifyIntermediateOutput(at, OutputFeAt(at), Opening(at))
        BY <1>1, <1>4, <4>1, <4>3, OpeningVerifies
      <4>5. openings # <<>> /\ Last(openings) = Opening(at)
        <5>1. second = <<Opening(at)>>
          BY <1>6, <2>3, <3>2
        <5>2. first = <<>> \/ first = <<Opening(at - 1)>>
          BY <1>6
        <5> QED
          BY <1>6, <5>1, <5>2 DEF Last
      <4> QED
        BY <2>1, <3>2, <4>2, <4>4, <4>5
    <3> QED
      BY <3>1, <3>2
  <2>6. Verify(r, NoProposal, r.agreed, r.claimed, at + 1)
    BY <1>5 DEF Verify
  <2> QED
    BY <1>4, <1>7, <1>10, <2>4, <2>5, <2>6 DEF AcceptsOutputFault
<1>11. "pc" \in DOMAIN job
  BY <1>1 DEF IsAsked
<1> QED
  BY <1>1, <1>8, <1>9, <1>10, <1>11, PublishKeeps

\* The fields after the outputs are all in the last blob.
LEMMA TrailInLastBlob ==
  ASSUME IsGame(game), NEW k \in Nat, game.count - 1 <= k, k < NumFields(game)
  PROVE  BlobIndex(k) = ProposalBlobs(game.count) - 1
<1>1. PICK F \in Nat \ {0} : F = FieldsPerBlob
  BY HostsAssumption
<1>2. PICK N \in Nat : N = Len(game.blobs) /\ N = ProposalBlobs(game.count)
  BY GameFacts, BlobsNeeded
<1>3. PICK c \in Nat \ {0} : c = game.count
  BY GameFacts
<1>4. PICK T \in Nat : T = NumFields(game) /\ T = F * N /\ T - (c - 1) < F
  <2>1. NumFields(game) = F * N
    BY <1>1, <1>2 DEF NumFields
  <2> QED
    BY <1>1, <1>3, <2>1, NumFieldsType
<1>5. N # 0
  <2> SUFFICES ASSUME N = 0 PROVE FALSE
    OBVIOUS
  <2>1. T = 0
    BY <1>4
  <2> QED
    BY <1>4, <2>1
<1>6. PICK n \in Nat : N = n + 1
  BY <1>5
<1>7. PICK w \in Nat : w = F * n /\ T = w + F
  <2>1. F * (n + 1) = F * n + F /\ F * n \in Nat
    OBVIOUS
  <2> QED
    BY <1>4, <1>6, <2>1
<1>8. k < w + F /\ w <= k
  BY <1>3, <1>4, <1>7
<1>9. k - w \in 0..(F - 1) /\ k = w + (k - w)
  BY <1>8
<1>10. k \div F = n
  BY <1>7, <1>9, DivModUnique
<1> QED
  BY <1>1, <1>2, <1>6, <1>10 DEF BlobIndex

LEMMA PublishTrailFaultKeeps ==
  ASSUME DisputeInv, PublishTrailFault
  PROVE  DisputeInv'
<1>1. IsGame(game) /\ UNCHANGED game /\ IsLoaded(job) /\ job.fault = FaultOf /\ "pc" \in DOMAIN job
  BY DEF DisputeInv, PublishTrailFault, IsJob, IsAssessed
<1>2. PICK m \in Nat : m = game.count - 1 /\ game.count = m + 1
  BY <1>1, GameFacts
<1>3. PICK t \in 1..(NumFields(game) - m) :
        /\ FaultOf = [kind |-> "trail", at |-> m + t] /\ FieldOf(game, m + t) # 0
        /\ OutputFeAt(m + t) = FieldOf(game, m + t)
  <2>1. FaultOf.kind # "output" /\ FaultOf # NoFault
    BY <1>1 DEF PublishTrailFault, NoFault
  <2> QED
    BY <1>1, <1>2, <2>1, FaultCases
<1>4. PICK at \in Nat : at = m + t /\ at = job.fault.at /\ at >= m + 1 /\ at <= NumFields(game)
  <2>1. NumFields(game) \in Nat /\ m \in Nat
    BY <1>1, NumFieldsType
  <2>2. m + t \in Nat /\ m + t >= m + 1 /\ m + t <= NumFields(game)
    BY <2>1
  <2>3. job.fault.at = m + t
    BY <1>1, <1>3
  <2> QED
    BY <2>2, <2>3
<1>5. PICK accepted \in BOOLEAN : accepted = AcceptsTrailFault(at, OutputFeAt(at), Opening(at - 1))
  BY DEF AcceptsTrailFault
<1>6. Publish(accepted, "fault")
  BY <1>4, <1>5 DEF PublishTrailFault
<1>7. ASSUME accepted PROVE ~IsRight(game)
  <2>1. AcceptsTrailFault(at, OutputFeAt(at), Opening(at - 1))
    BY <1>5, <1>7
  <2> QED
    BY <1>1, <2>1, AcceptedTrailIsFault
<1>8. ASSUME status = "none" PROVE accepted
  <2>1. NumFields(game) \in Nat
    BY <1>1, NumFieldsType
  <2>2. PICK k \in Nat : k = at - 1 /\ k + 1 = at /\ m <= k /\ k < NumFields(game) /\ k + 1 <= NumFields(game)
    <3>1. at \in Nat /\ at >= m + 1 /\ at <= NumFields(game) /\ m \in Nat
      BY <1>4
    <3>2. at - 1 \in Nat /\ (at - 1) + 1 = at /\ m <= at - 1 /\ at - 1 < NumFields(game)
      BY <2>1, <3>1
    <3> QED
      BY <3>1, <3>2
  <2>3. VerifyIntermediateOutput(k, FieldOf(game, k + 1), Opening(k))
    BY <1>1, <2>2, OpeningVerifies
  <2>4. BlobIndex(k) = ProposalBlobs(game.count) - 1
    BY <1>1, <1>2, <2>2, TrailInLastBlob
  <2>5. at >= game.count
    BY <1>2, <1>4
  <2>6. OutputFeAt(at) = FieldOf(game, k + 1) /\ OutputFeAt(at) # 0
    BY <1>3, <1>4, <2>2
  <2> QED
    BY <1>5, <1>8, <2>2, <2>3, <2>4, <2>5, <2>6 DEF AcceptsTrailFault
<1> QED
  BY <1>1, <1>6, <1>7, <1>8, PublishKeeps

\* The proofs of others are of the chain as well.
LEMMA RivalFaultKeeps ==
  ASSUME DisputeInv, RivalFault
  PROVE  DisputeInv'
<1>1. IsGame(game) /\ UNCHANGED <<game, job>> /\ status' = "fault"
  BY DEF DisputeInv, RivalFault
<1>2. Positions \subseteq Nat
  BY DEF Positions
<1>3. ASSUME NEW r \in Receipts
      PROVE  /\ r.agreed \in Known /\ r.agreed.n <= r.number
             /\ r.claimed = ChainFrom(r.agreed, Absent, r.number - r.agreed.n)
  <2>1. PICK agreed \in Claims \cup {game.agreed}, number \in 1..EndOf(game) :
          \E precondition \in {NoProposal, Precondition} :
            /\ r = Receipt(precondition, agreed, ChainFrom(agreed, Absent, number - agreed.n), number)
            /\ r.number > r.agreed.n
    BY DEF Receipts
  <2>2. /\ r.agreed = agreed /\ r.number = number
        /\ r.claimed = ChainFrom(agreed, Absent, number - agreed.n)
    BY <2>1 DEF Receipt
  <2>3. agreed \in Known /\ agreed \in AgreedRoots
    BY <1>1, KnownType DEF Known
  <2>4. agreed.n \in Nat /\ number \in Nat
    BY <2>3 DEF AgreedRoots
  <2> QED
    BY <2>1, <2>2, <2>3, <2>4
<1>4. ASSUME NEW at \in Positions, NEW r \in Receipts, NEW fe, NEW openings,
             AcceptsOutputFault(r, at, r.agreed, r.claimed, fe, openings)
      PROVE  ~IsRight(game)
  BY <1>1, <1>2, <1>3, <1>4, AcceptedFaultIsFault
<1>5. ~IsRight(game)
  <2>1. CASE \E at \in Positions, o \in Openings : AcceptsTrailFault(at, Value(o), o)
    BY <1>1, <1>2, <2>1, AcceptedTrailIsFault
  <2>2. CASE \E at \in Positions, r \in Receipts :
               \/ game.count = 1 /\ AcceptsOutputFault(r, at, r.agreed, r.claimed, 0, <<>>)
               \/ \E o, q \in Openings :
                    AcceptsOutputFault(r, at, r.agreed, r.claimed, Value(q), <<o, q>>)
    BY <1>4, <2>2
  <2> QED
    BY <2>1, <2>2 DEF RivalFault
<1>6. IsGame(game)' /\ StatusIsRight'
  BY <1>1, <1>5 DEF StatusIsRight, IsGame
<1>7. ProofsAreAccepted'
  BY <1>1 DEF DisputeInv, ProofsAreAccepted
<1>8. IsJob(job)'
  <2>1. IsJob(job)
    BY DEF DisputeInv
  <2> QED
    BY <1>1, <2>1 DEF IsJob, IsLoaded, IsAssessed, IsAsked, FaultOf, CorrectIo, CorrectTrail,
                      CorrectClaim, ValidityReceipt, FaultReceipt, Precondition
<1> QED
  BY <1>1, <1>6, <1>7, <1>8 DEF DisputeInv

\* Also the validity of a proposal is only proven with its blobs.
LEMMA RivalValidityKeeps ==
  ASSUME DisputeInv, RivalValidity
  PROVE  DisputeInv'
<1>1. IsGame(game) /\ UNCHANGED <<game, job>> /\ status' = "validity"
  BY DEF DisputeInv, RivalValidity
<1>2. PICK r \in Receipts : AcceptsValidity(r)
  BY DEF RivalValidity
<1>3. Provable(r) /\ r = ValidityReceipt
  BY <1>1, <1>2, ValidityReceiptIs DEF Receipts, AcceptsValidity, Verify
<1>4. IsRight(game)
  BY <1>1, <1>3, ProvenValidIsRight
<1>5. IsGame(game)' /\ StatusIsRight'
  BY <1>1, <1>4 DEF StatusIsRight, IsGame
<1>6. ProofsAreAccepted'
  BY <1>1 DEF DisputeInv, ProofsAreAccepted
<1>7. IsJob(job)'
  <2>1. IsJob(job)
    BY DEF DisputeInv
  <2> QED
    BY <1>1, <2>1 DEF IsJob, IsLoaded, IsAssessed, IsAsked, FaultOf, CorrectIo, CorrectTrail,
                      CorrectClaim, ValidityReceipt, FaultReceipt, Precondition
<1> QED
  BY <1>1, <1>5, <1>6, <1>7 DEF DisputeInv

\* What is proposed is a game, whoever proposes it.
LEMMA DisputeInitially ==
  ASSUME DisputeInit
  PROVE  DisputeInv
<1>1. PICK s \in Shapes : game \in {OwnProposal(s)} \cup RivalProposals(s)
  BY DEF DisputeInit
<1>2. s.head \in Nat /\ s.count \in Nat \ {0} /\ s.span \in Nat \ {0}
  BY ShapesAssumption
<1>3. PICK h \in Nat, c \in Nat \ {0}, span \in Nat \ {0} : h = s.head /\ c = s.count /\ span = s.span
  BY <1>2
<1>4. ASSUME game = OwnProposal(s) PROVE IsGame(game)
  <2>1. PICK fields : fields = [i \in 1..(c - 1) |-> HashToFe(Output(h + i * span))]
    OBVIOUS
  <2>2. fields \in [1..(c - 1) -> Nat]
    <3>1. ASSUME NEW i \in 1..(c - 1) PROVE HashToFe(Output(h + i * span)) \in Nat
      <4>1. h + i * span \in Nat
        OBVIOUS
      <4> QED
        BY <4>1, OutputFacts, HashIsField
    <3> QED
      BY <2>1, <3>1
  <2>3. PICK n \in Nat : n = c - 1 /\ n + 1 = c
    OBVIOUS
  <2>4. Len(fields) = n
    BY <2>2, <2>3, FunctionIsSeq
  <2>5. CreateSidecar(fields) \in [1..ProposalBlobs(c) -> [1..FieldsPerBlob -> Nat]]
    <3>1. PICK F \in Nat \ {0} : F = FieldsPerBlob
      BY HostsAssumption
    <3>2. ASSUME NEW b \in 1..ProposalBlobs(c), NEW f \in 1..F
          PROVE  (IF (b - 1) * F + f <= n THEN fields[(b - 1) * F + f] ELSE 0) \in Nat
      <4>1. PICK d \in Nat : d = b - 1
        OBVIOUS
      <4>2. d * F \in Nat
        OBVIOUS
      <4>3. PICK k \in Nat \ {0} : k = (b - 1) * F + f
        BY <4>1, <4>2
      <4>4. k <= n => k \in 1..(c - 1)
        BY <2>3
      <4> QED
        BY <2>2, <4>3, <4>4
    <3> QED
      BY <2>3, <2>4, <3>1, <3>2 DEF CreateSidecar
  <2>6. Output(h + c * span) \in Outputs(s)
    <3>1. h + c * span \in Nat /\ h + c * span \in 0..(h + c * span)
      OBVIOUS
    <3> QED
      BY <1>3, <3>1 DEF Outputs
  <2>7. game = Game(s, CreateSidecar(fields), Output(h + c * span))
    BY <1>3, <1>4, <2>1 DEF OwnProposal
  <2>8. /\ game.head = s.head /\ game.count = s.count /\ game.span = s.span
        /\ game.agreed = Output(s.head) /\ game.claim = Output(h + c * span)
        /\ game.blobs = CreateSidecar(fields)
    BY <2>7 DEF Game
  <2> QED
    BY <1>3, <2>5, <2>6, <2>8 DEF IsGame
<1>5. ASSUME game \in RivalProposals(s) PROVE IsGame(game)
  <2>1. PICK claim \in Claims, blobs \in [1..ProposalBlobs(s.count) -> [1..FieldsPerBlob -> Elements]] :
          game = Game(s, blobs, claim)
    BY <1>5 DEF RivalProposals
  <2>2. blobs \in [1..ProposalBlobs(s.count) -> [1..FieldsPerBlob -> Nat]]
    BY ShapesAssumption
  <2>3. /\ game.head = s.head /\ game.count = s.count /\ game.span = s.span
        /\ game.agreed = Output(s.head) /\ game.claim = claim /\ game.blobs = blobs
    BY <2>1 DEF Game
  <2> QED
    BY <2>2, <2>3 DEF IsGame
<1>6. IsGame(game)
  BY <1>1, <1>4, <1>5
<1> QED
  BY <1>6 DEF DisputeInit, DisputeInv, IsJob, StatusIsRight, ProofsAreAccepted

\* DisputeInv is inductive.
LEMMA DisputeInvariance == DisputeSpec => []DisputeInv
<1>1. DisputeInit => DisputeInv
  BY DisputeInitially
<1>2. DisputeInv /\ [DisputeNext]_disputeVars => DisputeInv'
  <2> SUFFICES ASSUME DisputeInv, [DisputeNext]_disputeVars PROVE DisputeInv'
    OBVIOUS
  <2>1. CASE UNCHANGED disputeVars
    <3>1. UNCHANGED <<game, job, status>> /\ IsGame(game) /\ IsJob(job)
      BY <2>1 DEF DisputeInv, disputeVars
    <3>2. IsJob(job)'
      BY <3>1 DEF IsJob, IsLoaded, IsAssessed, IsAsked, FaultOf, CorrectIo, CorrectTrail,
                  CorrectClaim, ValidityReceipt, FaultReceipt, Precondition
    <3>3. IsGame(game)' /\ StatusIsRight' /\ ProofsAreAccepted'
      BY <3>1 DEF DisputeInv, IsGame, StatusIsRight, ProofsAreAccepted
    <3> QED
      BY <3>1, <3>2, <3>3 DEF DisputeInv
  <2>2. CASE DisputeNext
    BY <2>2, LoadGameKeeps, AssessKeeps, RequestKeeps, ProveKeeps, PublishValidityKeeps,
       PublishOutputFaultKeeps, PublishTrailFaultKeeps, RivalFaultKeeps, RivalValidityKeeps DEF DisputeNext
  <2> QED
    BY <2>1, <2>2
<1> QED
  BY <1>1, <1>2, PTL DEF DisputeSpec

\* Whatever proofs of whichever fields and heights anybody submits to proveOutputFault,
\* proveTrailFault and proveValidity, a proposal of any size is only held for wrong if it is
\* wrong and for valid if it is right: see StatusIsRight.
THEOREM StatusesAreRight == DisputeSpec => []StatusIsRight
BY DisputeInvariance, PTL DEF DisputeInv

\* For a proposal of any size: every fault that fault() finds can be proven, and so can the
\* validity of a right proposal whose outputs leave room in its last blob; what the validator
\* then publishes is accepted, unless the receipt of a fault has the roots of a validity proof.
\* The runs guest_filled and dispute_looks_valid show what happens in the cases left out.
THEOREM ValidatorProofsAreAccepted == DisputeSpec => []ProofsAreAccepted
BY DisputeInvariance, PTL DEF DisputeInv

-----------------------------------------------------------------------------
(***************************************************************************)
(* Counting the entries of a key.                                          *)
(***************************************************************************)

Shards == Seq(Seq(IndexedPreimages))

LEMMA AppendFacts ==
  ASSUME NEW S, NEW s \in Seq(S), NEW x \in S
  PROVE  /\ Append(s, x) \in Seq(S)
         /\ Append(s, x) = [e \in 1..(Len(s) + 1) |-> IF e = Len(s) + 1 THEN x ELSE s[e]]
<1>1. PICK t : t = Append(s, x)
  OBVIOUS
<1>2. t \in Seq(S) /\ Len(t) = Len(s) + 1 /\ Len(s) \in Nat
  BY <1>1
<1>3. t = [e \in 1..(Len(s) + 1) |-> t[e]]
  BY <1>2
<1>4. ASSUME NEW e \in 1..(Len(s) + 1) PROVE t[e] = IF e = Len(s) + 1 THEN x ELSE s[e]
  BY <1>1, <1>2
<1> QED
  BY <1>1, <1>2, <1>3, <1>4

LEMMA TailFacts ==
  ASSUME NEW S, NEW s \in Seq(S), s # <<>>
  PROVE  Head(s) \in S /\ Tail(s) \in Seq(S)
OBVIOUS

LEMMA FrontFacts ==
  ASSUME NEW S, NEW s \in Seq(S), s # <<>>
  PROVE  /\ Front(s) \in Seq(S) /\ Len(s) \in Nat \ {0} /\ Len(Front(s)) = Len(s) - 1
         /\ s[Len(s)] \in S /\ \A e \in 1..(Len(s) - 1) : Front(s)[e] = s[e]
<1>1. Len(s) \in Nat \ {0} /\ s[Len(s)] \in S
  OBVIOUS
<1>2. PICK n \in Nat : n = Len(s) - 1
  BY <1>1
<1>3. PICK f : f = SubSeq(s, 1, n)
  OBVIOUS
<1>4. f = [e \in 1..n |-> s[e]]
  BY <1>1, <1>2, <1>3
<1>5. f \in [1..n -> S]
  BY <1>1, <1>2, <1>4
<1>6. f \in Seq(S) /\ Len(f) = n
  BY <1>5, FunctionIsSeq
<1> QED
  BY <1>1, <1>2, <1>3, <1>4, <1>6 DEF Front

LEMMA SameSize ==
  ASSUME NEW S, IsFiniteSet(S), NEW f, f = [x \in S |-> f[x]],
         \A x, y \in S : f[x] = f[y] => x = y, NEW T, T = {f[x] : x \in S}
  PROVE  IsFiniteSet(T) /\ Cardinality(T) = Cardinality(S)
<1>0. DOMAIN f = S
  OBVIOUS
<1>1. f \in [S -> T]
  BY <1>0
<1>2. f \in Surjection(S, T)
  BY <1>1 DEF Surjection
<1>3. f \in Injection(S, T)
  BY <1>1 DEF Injection, IsInjective
<1> QED
  BY <1>2, <1>3, FS_Surjection

LEMMA TwoParts ==
  ASSUME NEW S, IsFiniteSet(S), NEW T, IsFiniteSet(T), S \cap T = {}
  PROVE  IsFiniteSet(S \cup T) /\ Cardinality(S \cup T) = Cardinality(S) + Cardinality(T)
<1>1. Cardinality(S) \in Nat /\ Cardinality(T) \in Nat
  BY FS_CardinalityType
<1>2. IsFiniteSet(S \cup T) /\ Cardinality(S \cup T) = Cardinality(S) + Cardinality(T) - 0
  BY FS_Union, FS_EmptySet
<1>3. \A m, n \in Nat : m + n - 0 = m + n
  OBVIOUS
<1> QED
  BY <1>1, <1>2, <1>3

LEMMA ShardIsFinite ==
  ASSUME NEW s \in Seq(IndexedPreimages), NEW k
  PROVE  IsFiniteSet(InShard(s, k)) /\ Cardinality(InShard(s, k)) \in Nat
<1>1. IsFiniteSet(DOMAIN s)
  <2>1. DOMAIN s = 1..Len(s) /\ Len(s) \in Int
    OBVIOUS
  <2> QED
    BY <2>1, FS_Interval
<1>2. InShard(s, k) \in SUBSET DOMAIN s
  BY DEF InShard
<1> QED
  BY <1>1, <1>2, FS_Subset, FS_CardinalityType

LEMMA ShardsAreFinite ==
  ASSUME NEW shards \in Shards, NEW k
  PROVE  IsFiniteSet(InShards(shards, k)) /\ Cardinality(InShards(shards, k)) \in Nat
<1> DEFINE f == [e \in DOMAIN shards |-> {e} \X InShard(shards[e], k)]
           P == {f[e] : e \in DOMAIN shards}
<1>1. DOMAIN shards = 1..Len(shards) /\ Len(shards) \in Int
  BY DEF Shards
<1>2. IsFiniteSet(DOMAIN shards)
  BY <1>1, FS_Interval
<1>3. IsFiniteSet(P)
  <2>1. f \in Surjection(DOMAIN shards, P)
    BY DEF Surjection
  <2> QED
    BY <1>2, <2>1, FS_Surjection
<1>4. ASSUME NEW T \in P PROVE IsFiniteSet(T)
  <2>1. PICK e \in DOMAIN shards : T = {e} \X InShard(shards[e], k)
    OBVIOUS
  <2>2. shards[e] \in Seq(IndexedPreimages)
    BY <1>1, <2>1 DEF Shards
  <2> QED
    BY <2>1, <2>2, ShardIsFinite, FS_Singleton, FS_Product
<1>5. InShards(shards, k) = UNION P
  BY DEF InShards
<1>6. IsFiniteSet(UNION P)
  <2> HIDE DEF P
  <2> QED
    BY <1>3, <1>4, FS_UNION
<1> QED
  BY <1>5, <1>6, FS_CardinalityType

LEMMA InShardsIs ==
  ASSUME NEW shards, NEW k, NEW e, NEW p
  PROVE  <<e, p>> \in InShards(shards, k) <=> e \in DOMAIN shards /\ p \in InShard(shards[e], k)
BY DEF InShards

LEMMA InShardsPairs ==
  ASSUME NEW shards, NEW k, NEW q \in InShards(shards, k)
  PROVE  q = <<q[1], q[2]>> /\ q[1] \in DOMAIN shards /\ q[2] \in InShard(shards[q[1]], k)
BY DEF InShards

LEMMA CountNone ==
  ASSUME NEW k
  PROVE  Cardinality(InShard(<<>>, k)) = 0 /\ Cardinality(InShards(<<>>, k)) = 0
<1>1. InShard(<<>>, k) = {} /\ InShards(<<>>, k) = {}
  BY DEF InShard, InShards
<1> QED
  BY <1>1, FS_EmptySet

LEMMA CountOne ==
  ASSUME NEW x \in IndexedPreimages, NEW k
  PROVE  Cardinality(InShard(<<x>>, k)) = IF x.key = k THEN 1 ELSE 0
<1>1. DOMAIN <<x>> = {1} /\ <<x>>[1] = x
  OBVIOUS
<1>2. CASE x.key = k
  <2>1. InShard(<<x>>, k) = {1}
    BY <1>1, <1>2 DEF InShard
  <2> QED
    BY <1>2, <2>1, FS_Singleton
<1>3. CASE x.key # k
  <2>1. InShard(<<x>>, k) = {}
    BY <1>1, <1>3 DEF InShard
  <2> QED
    BY <1>3, <2>1, FS_EmptySet
<1> QED
  BY <1>2, <1>3

LEMMA CountConcat ==
  ASSUME NEW s \in Seq(IndexedPreimages), NEW t \in Seq(IndexedPreimages), NEW k
  PROVE  Cardinality(InShard(s \o t, k)) = Cardinality(InShard(s, k)) + Cardinality(InShard(t, k))
<1>1. PICK m \in Nat, n \in Nat : m = Len(s) /\ n = Len(t) /\ DOMAIN s = 1..m /\ DOMAIN t = 1..n
  OBVIOUS
<1>2. PICK u : u = s \o t
  OBVIOUS
<1>3. /\ DOMAIN u = 1..(m + n)
      /\ \A p \in 1..m : u[p] = s[p]
      /\ \A p \in 1..n : u[m + p] = t[p]
  <2>1. u \in Seq(IndexedPreimages) /\ Len(u) = m + n
    BY <1>1, <1>2
  <2>2. ASSUME NEW p \in 1..m PROVE u[p] = s[p]
    BY <1>1, <1>2
  <2>3. ASSUME NEW p \in 1..n PROVE u[m + p] = t[p]
    <3>1. m + p \in 1..(m + n) /\ ~(m + p <= m) /\ (m + p) - m = p
      BY <1>1
    <3> QED
      BY <1>1, <1>2, <3>1
  <2> QED
    BY <2>1, <2>2, <2>3
<1> DEFINE A == InShard(t, k)
           f == [p \in A |-> m + p]
           B == {f[p] : p \in A}
<1>4. A \subseteq 1..n /\ IsFiniteSet(A)
  BY <1>1, ShardIsFinite DEF InShard
<1>5. IsFiniteSet(B) /\ Cardinality(B) = Cardinality(A)
  <2>1. \A p, q \in A : f[p] = f[q] => p = q
    BY <1>4
  <2> HIDE DEF A
  <2>2. f = [p \in A |-> f[p]]
    OBVIOUS
  <2> HIDE DEF f
  <2> QED
    BY <1>4, <2>1, <2>2, SameSize
<1>6. B = {m + p : p \in A}
  OBVIOUS
<1>7. InShard(u, k) = InShard(s, k) \cup B
  <2>1. ASSUME NEW p \in InShard(u, k) PROVE p \in InShard(s, k) \cup B
    <3>1. p \in 1..(m + n) /\ u[p].key = k
      BY <1>3 DEF InShard
    <3>2. CASE p \in 1..m
      BY <1>1, <1>3, <3>1, <3>2 DEF InShard
    <3>3. CASE p \notin 1..m
      <4>1. PICK q \in 1..n : p = m + q
        <5>1. p - m \in 1..n /\ p = m + (p - m)
          BY <3>1, <3>3
        <5> QED
          BY <5>1
      <4>2. q \in A
        BY <1>1, <1>3, <3>1, <4>1 DEF InShard
      <4> HIDE DEF A
      <4> QED
        BY <1>6, <4>1, <4>2
    <3> QED
      BY <3>2, <3>3
  <2>2. ASSUME NEW p \in InShard(s, k) PROVE p \in InShard(u, k)
    <3>1. p \in 1..m /\ s[p].key = k
      BY <1>1 DEF InShard
    <3>2. p \in 1..(m + n)
      BY <3>1
    <3> QED
      BY <1>3, <3>1, <3>2 DEF InShard
  <2>3. ASSUME NEW p \in B PROVE p \in InShard(u, k)
    <3>1. PICK q \in A : p = m + q
      BY <1>6
    <3>2. q \in 1..n /\ t[q].key = k
      BY <1>1, <3>1 DEF InShard
    <3>3. m + q \in 1..(m + n)
      BY <3>2
    <3> QED
      BY <1>3, <3>1, <3>2, <3>3 DEF InShard
  <2> HIDE DEF B
  <2> QED
    BY <2>1, <2>2, <2>3
<1>8. InShard(s, k) \cap B = {}
  <2>1. \A p \in InShard(s, k) : p \in 1..m
    BY <1>1 DEF InShard
  <2>2. \A p \in B : p \notin 1..m
    BY <1>4, <1>6
  <2> QED
    BY <2>1, <2>2
<1>9. IsFiniteSet(InShard(s, k))
  BY ShardIsFinite
<1> HIDE DEF B
<1>10. Cardinality(InShard(u, k)) = Cardinality(InShard(s, k)) + Cardinality(B)
  BY <1>5, <1>7, <1>8, <1>9, TwoParts
<1> QED
  BY <1>2, <1>5, <1>10

LEMMA CountAppend ==
  ASSUME NEW shards \in Shards, NEW s \in Seq(IndexedPreimages), NEW k
  PROVE  Cardinality(InShards(Append(shards, s), k)) =
           Cardinality(InShards(shards, k)) + Cardinality(InShard(s, k))
<1>1. PICK n \in Nat : n = Len(shards) /\ DOMAIN shards = 1..n
  BY DEF Shards
<1>2. PICK t : t = Append(shards, s)
  OBVIOUS
<1>3. DOMAIN t = 1..(n + 1) /\ t[n + 1] = s /\ \A e \in 1..n : t[e] = shards[e]
  BY <1>1, <1>2 DEF Shards
<1> DEFINE A == InShard(s, k)
           f == [p \in A |-> <<n + 1, p>>]
           B == {f[p] : p \in A}
<1>4. IsFiniteSet(A)
  BY ShardIsFinite
<1>5. IsFiniteSet(B) /\ Cardinality(B) = Cardinality(A)
  <2> HIDE DEF A
  <2>1. \A p, q \in A : f[p] = f[q] => p = q
    OBVIOUS
  <2>2. f = [p \in A |-> f[p]]
    OBVIOUS
  <2> HIDE DEF f
  <2> QED
    BY <1>4, <2>1, <2>2, SameSize
<1>6. B = {<<n + 1, p>> : p \in A}
  OBVIOUS
<1>7. InShards(t, k) = InShards(shards, k) \cup B
  <2> HIDE DEF A
  <2>1. ASSUME NEW q \in InShards(t, k) PROVE q \in InShards(shards, k) \cup B
    <3>1. PICK e, p : q = <<e, p>> /\ e \in 1..(n + 1) /\ p \in InShard(t[e], k)
      BY <1>3, InShardsPairs
    <3>2. CASE e \in 1..n
      BY <1>1, <1>3, <3>1, <3>2, InShardsIs
    <3>3. CASE e \notin 1..n
      <4>1. e = n + 1
        BY <3>1, <3>3
      <4> QED
        BY <1>3, <1>6, <3>1, <4>1 DEF A
    <3> QED
      BY <3>2, <3>3
  <2>2. ASSUME NEW q \in InShards(shards, k) PROVE q \in InShards(t, k)
    <3>1. PICK e, p : q = <<e, p>> /\ e \in 1..n /\ p \in InShard(shards[e], k)
      BY <1>1, InShardsPairs
    <3>2. e \in 1..(n + 1)
      BY <3>1
    <3> QED
      BY <1>3, <3>1, <3>2, InShardsIs
  <2>3. ASSUME NEW q \in B PROVE q \in InShards(t, k)
    <3>1. PICK p \in A : q = <<n + 1, p>>
      BY <1>6
    <3>2. n + 1 \in 1..(n + 1)
      OBVIOUS
    <3> QED
      BY <1>3, <3>1, <3>2, InShardsIs DEF A
  <2> HIDE DEF B
  <2> QED
    BY <2>1, <2>2, <2>3
<1>8. InShards(shards, k) \cap B = {}
  <2> HIDE DEF A
  <2>1. ASSUME NEW q \in InShards(shards, k), q \in B PROVE FALSE
    <3>1. q[1] \in 1..n
      BY <1>1, InShardsPairs
    <3>2. q[1] = n + 1
      BY <1>6, <2>1
    <3> QED
      BY <3>1, <3>2
  <2> HIDE DEF B
  <2> QED
    BY <2>1
<1>9. IsFiniteSet(InShards(shards, k))
  BY ShardsAreFinite
<1> HIDE DEF B
<1>10. Cardinality(InShards(t, k)) = Cardinality(InShards(shards, k)) + Cardinality(B)
  BY <1>5, <1>7, <1>8, <1>9, TwoParts
<1> QED
  BY <1>2, <1>5, <1>10

\* The order of the shards does not matter.
LEMMA CountMoved ==
  ASSUME NEW shards \in Shards, NEW t, NEW d, d = [e \in DOMAIN shards |-> d[e]],
         \A e, g \in DOMAIN shards : d[e] = d[g] => e = g,
         DOMAIN t = {d[e] : e \in DOMAIN shards}, NEW k,
         \A e \in DOMAIN shards : InShard(t[d[e]], k) = InShard(shards[e], k)
  PROVE  Cardinality(InShards(t, k)) = Cardinality(InShards(shards, k))
<1> DEFINE S == InShards(shards, k)
           f == [q \in S |-> <<d[q[1]], q[2]>>]
           T == {f[q] : q \in S}
<1>1. \A q \in S : q = <<q[1], q[2]>> /\ q[1] \in DOMAIN shards /\ q[2] \in InShard(shards[q[1]], k)
  BY InShardsPairs
<1>2. IsFiniteSet(S)
  BY ShardsAreFinite
<1>3. IsFiniteSet(T) /\ Cardinality(T) = Cardinality(S)
  <2> HIDE DEF S
  <2>1. ASSUME NEW q \in S, NEW r \in S, f[q] = f[r] PROVE q = r
    <3>1. d[q[1]] = d[r[1]] /\ q[2] = r[2]
      BY <2>1
    <3>2. q[1] = r[1]
      BY <1>1, <3>1
    <3> QED
      BY <1>1, <3>1, <3>2
  <2>2. f = [q \in S |-> f[q]]
    OBVIOUS
  <2> HIDE DEF f
  <2> QED
    BY <1>2, <2>1, <2>2, SameSize
<1>4. InShards(t, k) = T
  <2>0. T = {<<d[q[1]], q[2]>> : q \in S}
    OBVIOUS
  <2>1. ASSUME NEW q \in InShards(t, k) PROVE q \in T
    <3>1. PICK g, p : q = <<g, p>> /\ g \in DOMAIN t /\ p \in InShard(t[g], k)
      BY InShardsPairs
    <3>2. PICK e \in DOMAIN shards : g = d[e]
      BY <3>1
    <3>3. <<e, p>> \in S
      BY <3>1, <3>2, InShardsIs
    <3>4. q = <<d[<<e, p>>[1]], <<e, p>>[2]>>
      BY <3>1, <3>2
    <3>5. PICK r \in S : q = <<d[r[1]], r[2]>>
      BY <3>3, <3>4
    <3> HIDE DEF S, T
    <3> QED
      BY <2>0, <3>5
  <2>2. ASSUME NEW q \in T PROVE q \in InShards(t, k)
    <3>1. PICK r \in S : q = <<d[r[1]], r[2]>>
      BY <2>0
    <3>2. d[r[1]] \in DOMAIN t /\ r[2] \in InShard(t[d[r[1]]], k)
      BY <1>1, <3>1
    <3> QED
      BY <3>1, <3>2, InShardsIs
  <2> HIDE DEF T
  <2> QED
    BY <2>1, <2>2
<1> HIDE DEF S, T
<1> QED
  BY <1>3, <1>4 DEF S

LEMMA CountReverse ==
  ASSUME NEW shards \in Shards, NEW k
  PROVE  Cardinality(InShards(Reverse(shards), k)) = Cardinality(InShards(shards, k))
<1>1. PICK n \in Nat : n = Len(shards) /\ DOMAIN shards = 1..n
  BY DEF Shards
<1>2. PICK t : t = Reverse(shards)
  OBVIOUS
<1>3. DOMAIN t = 1..n /\ \A e \in 1..n : t[e] = shards[(n - e) + 1]
  BY <1>1, <1>2 DEF Reverse
<1>4. PICK d : d = [e \in 1..n |-> (n - e) + 1]
  OBVIOUS
<1>5. \A e \in 1..n : d[e] \in 1..n /\ d[e] = (n - e) + 1 /\ d[d[e]] = e
  <2> TAKE e \in 1..n
  <2>1. d[e] = (n - e) + 1 /\ (n - e) + 1 \in 1..n
    BY <1>4
  <2>2. PICK g \in 1..n : g = (n - e) + 1
    BY <2>1
  <2>3. d[g] = (n - g) + 1 /\ (n - g) + 1 = e
    BY <1>4, <2>2
  <2> QED
    BY <2>1, <2>2, <2>3
<1>6. d = [e \in DOMAIN shards |-> d[e]]
  BY <1>1, <1>4
<1>7. \A e, g \in DOMAIN shards : d[e] = d[g] => e = g
  BY <1>1, <1>5
<1>8. DOMAIN t = {d[e] : e \in DOMAIN shards}
  BY <1>1, <1>3, <1>5
<1>9. \A e \in DOMAIN shards : t[d[e]] = shards[e]
  <2> TAKE e \in DOMAIN shards
  <2>1. d[e] \in 1..n /\ d[d[e]] = e /\ d[d[e]] = (n - d[e]) + 1
    BY <1>1, <1>5
  <2> QED
    BY <1>3, <2>1
<1>10. \A e \in DOMAIN shards : InShard(t[d[e]], k) = InShard(shards[e], k)
  BY <1>9
<1>11. Cardinality(InShards(t, k)) = Cardinality(InShards(shards, k))
  BY <1>6, <1>7, <1>8, <1>10, CountMoved
<1> QED
  BY <1>2, <1>11

\* Entries whose keys are the same count the same.
LEMMA CountSameKeys ==
  ASSUME NEW shards, NEW t, DOMAIN t = DOMAIN shards, NEW k,
         \A e \in DOMAIN shards : InShard(t[e], k) = InShard(shards[e], k)
  PROVE  Cardinality(InShards(t, k)) = Cardinality(InShards(shards, k))
<1>1. InShards(t, k) = InShards(shards, k)
  BY DEF InShards
<1> QED
  BY <1>1

LEMMA CountTail ==
  ASSUME NEW shards \in Shards, shards # <<>>, NEW k
  PROVE  Cardinality(InShards(shards, k)) =
           Cardinality(InShard(Head(shards), k)) + Cardinality(InShards(Tail(shards), k))
<1>1. PICK n \in Nat : n = Len(Tail(shards)) /\ DOMAIN Tail(shards) = 1..n
      /\ Len(shards) = n + 1
  BY DEF Shards
<1>2. PICK h \in Seq(IndexedPreimages), r \in Shards : h = Head(shards) /\ r = Tail(shards)
  BY TailFacts DEF Shards
<1>3. \A e \in 1..n : r[e] = shards[e + 1]
  BY <1>1, <1>2 DEF Shards
<1>4. shards[1] = h
  BY <1>2
<1>5. PICK t : t = Append(r, h)
  OBVIOUS
<1>6. DOMAIN t = 1..(n + 1) /\ t[n + 1] = h /\ \A e \in 1..n : t[e] = r[e]
  BY <1>1, <1>2, <1>5 DEF Shards
<1>7. PICK d : d = [e \in 1..(n + 1) |-> IF e = 1 THEN n + 1 ELSE e - 1]
  OBVIOUS
<1>8. \A e \in 1..(n + 1) : d[e] \in 1..(n + 1) /\ t[d[e]] = shards[e]
  <2> TAKE e \in 1..(n + 1)
  <2>1. CASE e = 1
    BY <1>4, <1>6, <1>7, <2>1
  <2>2. CASE e # 1
    <3>1. PICK g \in 1..n : g = e - 1 /\ e = g + 1
      <4>1. e - 1 \in 1..n /\ e = (e - 1) + 1
        BY <2>2
      <4> QED
        BY <4>1
    <3>2. d[e] = g /\ g \in 1..(n + 1)
      BY <1>7, <2>2, <3>1
    <3> QED
      BY <1>3, <1>6, <3>1, <3>2
  <2> QED
    BY <2>1, <2>2
<1>9. DOMAIN shards = 1..(n + 1)
  BY <1>1 DEF Shards
<1>10. \A e, g \in DOMAIN shards : d[e] = d[g] => e = g
  BY <1>7, <1>9
<1>11. DOMAIN t = {d[e] : e \in DOMAIN shards}
  <2>1. ASSUME NEW g \in 1..(n + 1) PROVE \E e \in 1..(n + 1) : g = d[e]
    <3>1. CASE g = n + 1
      BY <1>7, <3>1
    <3>2. CASE g # n + 1
      <4>1. g + 1 \in 1..(n + 1) /\ g + 1 # 1 /\ (g + 1) - 1 = g
        BY <3>2
      <4> QED
        BY <1>7, <4>1
    <3> QED
      BY <3>1, <3>2
  <2> QED
    BY <1>6, <1>8, <1>9, <2>1
<1>12. d = [e \in DOMAIN shards |-> d[e]]
  BY <1>7, <1>9
<1>13. \A e \in DOMAIN shards : InShard(t[d[e]], k) = InShard(shards[e], k)
  BY <1>8, <1>9
<1>14. Cardinality(InShards(t, k)) = Cardinality(InShards(shards, k))
  BY <1>10, <1>11, <1>12, <1>13, CountMoved
<1>15. Cardinality(InShards(t, k)) = Cardinality(InShards(r, k)) + Cardinality(InShard(h, k))
  BY <1>5, CountAppend
<1>16. Cardinality(InShards(r, k)) \in Nat /\ Cardinality(InShard(h, k)) \in Nat
  BY ShardIsFinite, ShardsAreFinite
<1>17. \A a, b \in Nat : a + b = b + a
  OBVIOUS
<1> QED
  BY <1>2, <1>14, <1>15, <1>16, <1>17

LEMMA LastApart ==
  ASSUME NEW S, NEW shards \in Seq(S), shards # <<>>, NEW s \in S
  PROVE  /\ Front(shards) \in Seq(S) /\ shards[Len(shards)] \in S
         /\ shards = Append(Front(shards), shards[Len(shards)])
         /\ [shards EXCEPT ![Len(shards)] = s] = Append(Front(shards), s)
<1>1. PICK n \in Nat : Len(shards) = n + 1
  <2>1. Len(shards) \in Nat \ {0}
    BY FrontFacts
  <2>2. Len(shards) - 1 \in Nat /\ Len(shards) = (Len(shards) - 1) + 1
    BY <2>1
  <2> QED
    BY <2>2
<1>2. PICK f \in Seq(S) : f = Front(shards)
  BY FrontFacts
<1>3. Len(f) = n /\ (\A e \in 1..n : f[e] = shards[e]) /\ shards[n + 1] \in S
  BY <1>1, <1>2, FrontFacts
<1>4. ASSUME NEW x \in S
      PROVE  Append(f, x) = [e \in 1..(n + 1) |-> IF e = n + 1 THEN x ELSE shards[e]]
  <2>1. Append(f, x) = [e \in 1..(n + 1) |-> IF e = n + 1 THEN x ELSE f[e]]
    BY <1>3, AppendFacts
  <2>2. \A e \in 1..(n + 1) : e # n + 1 => f[e] = shards[e]
    <3>1. \A e \in 1..(n + 1) : e # n + 1 => e \in 1..n
      OBVIOUS
    <3> QED
      BY <1>3, <3>1
  <2>3. \A e \in 1..(n + 1) : (IF e = n + 1 THEN x ELSE f[e]) = (IF e = n + 1 THEN x ELSE shards[e])
    BY <2>2
  <2> QED
    BY <2>1, <2>3
<1>5. shards = [e \in 1..(n + 1) |-> shards[e]]
  BY <1>1
<1>6. shards = Append(f, shards[n + 1])
  <2>1. PICK y \in S : y = shards[n + 1]
    BY <1>3
  <2>2. Append(f, y) = [e \in 1..(n + 1) |-> IF e = n + 1 THEN y ELSE shards[e]]
    BY <1>4
  <2>3. [e \in 1..(n + 1) |-> IF e = n + 1 THEN y ELSE shards[e]] = [e \in 1..(n + 1) |-> shards[e]]
    BY <2>1
  <2> QED
    BY <1>5, <2>1, <2>2, <2>3
<1>7. [shards EXCEPT ![n + 1] = s] = Append(f, s)
  <2>1. PICK g : g = shards
    OBVIOUS
  <2>2. [g EXCEPT ![n + 1] = s] = [e \in 1..(n + 1) |-> IF e = n + 1 THEN s ELSE g[e]]
    BY <1>5, <2>1
  <2> QED
    BY <1>4, <2>1, <2>2
<1> QED
  BY <1>1, <1>2, <1>3, <1>6, <1>7

-----------------------------------------------------------------------------
(***************************************************************************)
(* What the host encodes holds what it recorded.                           *)
(***************************************************************************)

LEMMA Singleton ==
  ASSUME NEW S, NEW x \in S
  PROVE  <<x>> \in Seq(S)
OBVIOUS

LEMMA AppendIsConcat ==
  ASSUME NEW S, NEW s \in Seq(S), NEW x \in S
  PROVE  Append(s, x) = s \o <<x>>
OBVIOUS

LEMMA CountNext ==
  ASSUME NEW s \in Seq(IndexedPreimages), NEW x \in IndexedPreimages, NEW k
  PROVE  Cardinality(InShard(Append(s, x), k)) =
           Cardinality(InShard(s, k)) + (IF x.key = k THEN 1 ELSE 0)
<1>1. PICK t \in Seq(IndexedPreimages) : t = <<x>>
  BY Singleton
<1>2. Append(s, x) = s \o t
  BY <1>1, AppendIsConcat
<1>3. Cardinality(InShard(s \o t, k)) = Cardinality(InShard(s, k)) + Cardinality(InShard(t, k))
  BY CountConcat
<1> QED
  BY <1>1, <1>2, <1>3, CountOne

\* One more entry is placed.
LEMMA PlaceNextCounts ==
  ASSUME NEW a \in Placing, NEW x \in IndexedPreimages, NEW limit, NEW b,
         b = PlaceNext(a, x, limit)
  PROVE  /\ \A k : Cardinality(InShards(b.shards, k)) =
                  Cardinality(InShards(a.shards, k)) + (IF x.key = k THEN 1 ELSE 0)
         /\ \A e \in DOMAIN b.shards :
              \/ e \in DOMAIN a.shards /\ b.shards[e] = a.shards[e]
                 /\ (e # Len(a.shards) \/ a.size # 0)
              \/ b.shards[e] = <<x>>
              \/ e \in DOMAIN a.shards /\ b.shards[e] = Append(a.shards[e], x)
<1>1. PICK s \in Shards : s = a.shards /\ s # <<>> /\ Len(s) \in Nat \ {0} /\ DOMAIN s = 1..Len(s)
  BY DEF Placing, Shards
<1>2. PICK y \in Seq(IndexedPreimages) : y = <<x>>
  BY Singleton
<1>3. PICK l \in Seq(IndexedPreimages) : l = s[Len(s)]
  BY <1>1, LastApart, <1>2 DEF Shards
<1>4. PICK m \in Seq(IndexedPreimages) : m = Append(l, x)
  BY AppendFacts
<1>5. CASE a.size > 0 /\ SizeOf[x.key] + a.size > limit
  <2>1. b.shards = Append(s, y)
    BY <1>1, <1>2, <1>5 DEF PlaceNext
  <2>2. \A k : Cardinality(InShards(b.shards, k)) = Cardinality(InShards(s, k)) + Cardinality(InShard(y, k))
    BY <2>1, CountAppend
  <2>3. \A k : Cardinality(InShard(y, k)) = IF x.key = k THEN 1 ELSE 0
    BY <1>2, CountOne
  <2>4. b.shards = [e \in 1..(Len(s) + 1) |-> IF e = Len(s) + 1 THEN y ELSE s[e]]
    BY <2>1, AppendFacts DEF Shards
  <2>5. \A e \in 1..(Len(s) + 1) : e # Len(s) + 1 => e \in 1..Len(s)
    BY <1>1
  <2>6. a.size # 0
    BY <1>5 DEF Placing
  <2>7. ASSUME NEW e \in DOMAIN b.shards
        PROVE  b.shards[e] = y \/ (e \in DOMAIN s /\ b.shards[e] = s[e])
    BY <1>1, <2>4, <2>5
  <2> QED
    BY <1>1, <1>2, <2>2, <2>3, <2>6, <2>7
<1>6. CASE ~(a.size > 0 /\ SizeOf[x.key] + a.size > limit)
  <2>1. b.shards = [s EXCEPT ![Len(s)] = m]
    BY <1>1, <1>3, <1>4, <1>6 DEF PlaceNext
  <2>2. PICK h \in Shards : h = Front(s) /\ s = Append(h, l) /\ b.shards = Append(h, m)
    <3>1. Front(s) \in Shards
      BY <1>1, <1>3, LastApart DEF Shards
    <3>2. s = Append(Front(s), l)
      BY <1>1, <1>3, LastApart DEF Shards
    <3>3. [s EXCEPT ![Len(s)] = m] = Append(Front(s), m)
      <4>1. s \in Seq(Seq(IndexedPreimages)) /\ s # <<>>
        BY <1>1 DEF Shards
      <4>2. \A v \in Seq(IndexedPreimages) : [s EXCEPT ![Len(s)] = v] = Append(Front(s), v)
        BY <4>1, LastApart
      <4> QED
        BY <4>2
    <3> QED
      BY <2>1, <3>1, <3>2, <3>3
  <2>3. \A k : /\ Cardinality(InShards(s, k)) = Cardinality(InShards(h, k)) + Cardinality(InShard(l, k))
               /\ Cardinality(InShards(b.shards, k)) = Cardinality(InShards(h, k)) + Cardinality(InShard(m, k))
    <3>1. \A k : Cardinality(InShards(Append(h, l), k)) = Cardinality(InShards(h, k)) + Cardinality(InShard(l, k))
      BY CountAppend
    <3>2. \A k : Cardinality(InShards(Append(h, m), k)) = Cardinality(InShards(h, k)) + Cardinality(InShard(m, k))
      BY CountAppend
    <3> QED
      BY <2>2, <3>1, <3>2
  <2>4. \A k : Cardinality(InShard(m, k)) = Cardinality(InShard(l, k)) + (IF x.key = k THEN 1 ELSE 0)
    BY <1>4, CountNext
  <2>5. \A k : Cardinality(InShards(h, k)) \in Nat /\ Cardinality(InShard(l, k)) \in Nat
    BY ShardIsFinite, ShardsAreFinite
  <2>6. ASSUME NEW k
        PROVE  Cardinality(InShards(b.shards, k)) =
                 Cardinality(InShards(s, k)) + (IF x.key = k THEN 1 ELSE 0)
    <3>1. PICK c \in Nat, d \in Nat, u \in Nat :
            /\ c = Cardinality(InShards(h, k)) /\ d = Cardinality(InShard(l, k))
            /\ u = IF x.key = k THEN 1 ELSE 0
      BY <2>5
    <3>2. c + (d + u) = (c + d) + u
      OBVIOUS
    <3> QED
      BY <2>3, <2>4, <3>1, <3>2
  <2>7. ASSUME NEW e \in DOMAIN b.shards
        PROVE  \/ e \in DOMAIN s /\ b.shards[e] = s[e] /\ e # Len(s)
               \/ e \in DOMAIN s /\ b.shards[e] = Append(s[e], x)
    BY <1>1, <1>3, <1>4, <2>1
  <2> QED
    BY <1>1, <2>6, <2>7
<1> QED
  BY <1>5, <1>6

LEMMA PlaceCounts ==
  ASSUME recorded \in Seq(IndexedPreimages), Genuine(recorded), recorded # <<>>, NEW limit
  PROVE  /\ Place(limit) \in Shards
         /\ \A k \in Keys : Cardinality(InShards(Place(limit), k)) = Cardinality(InShard(recorded, k))
         /\ \A e \in DOMAIN Place(limit) : Place(limit)[e] # <<>> /\ Genuine(Place(limit)[e])
<1>1. PICK L \in Nat \ {0} : L = Len(recorded) /\ DOMAIN recorded = 1..L
  OBVIOUS
<1>2. PICK r : r = Reverse(recorded)
  OBVIOUS
<1>3. \A n \in 1..L : /\ r[n] = recorded[(L - n) + 1] /\ (L - n) + 1 \in 1..L
                     /\ r[n] \in IndexedPreimages
                     /\ r[n].value = r[n].key /\ r[n].prev = NoPrev
  <2> TAKE n \in 1..L
  <2>1. r[n] = recorded[(L - n) + 1] /\ (L - n) + 1 \in 1..L
    BY <1>1, <1>2 DEF Reverse
  <2>2. PICK p \in 1..L : p = (L - n) + 1
    BY <2>1
  <2> QED
    BY <1>1, <2>1, <2>2 DEF Genuine
<1>4. PICK base : base = [shards |-> << <<>> >>, size |-> 0]
  OBVIOUS
<1> DEFINE Prefix(n, k) == {p \in 1..n : r[p].key = k}
           Good(n, a) == /\ a \in Placing
                         /\ \A k \in Keys : Cardinality(InShards(a.shards, k)) = Cardinality(Prefix(n, k))
                         /\ \A e \in DOMAIN a.shards : Genuine(a.shards[e]) /\ (n = 0 \/ a.shards[e] # <<>>)
                         /\ n = 0 => a.size = 0 /\ Len(a.shards) = 1
           J == {z \in (0..L) \X Placing : Good(z[1], z[2])}
<1>5. <<0, base>> \in J
  <2>1. base \in Placing
    BY <1>4 DEF Placing
  <2>2. ASSUME NEW k \in Keys PROVE Cardinality(InShards(base.shards, k)) = Cardinality(Prefix(0, k))
    <3>1. Prefix(0, k) = {}
      OBVIOUS
    <3>2. InShards(base.shards, k) = {}
      BY <1>4 DEF InShards, InShard
    <3> HIDE DEF Prefix
    <3> QED
      BY <3>1, <3>2
  <2>3. \A e \in DOMAIN base.shards : Genuine(base.shards[e])
    BY <1>4 DEF Genuine
  <2>4. base.size = 0 /\ Len(base.shards) = 1
    BY <1>4
  <2>5. Good(0, base)
    <3> HIDE DEF Prefix
    <3> QED
      BY <2>1, <2>2, <2>3, <2>4
  <2>6. <<0, base>> \in (0..L) \X Placing /\ <<0, base>>[1] = 0 /\ <<0, base>>[2] = base
    BY <2>1
  <2> HIDE DEF Good
  <2> QED
    BY <2>5, <2>6
<1>6. ASSUME NEW n \in 1..L, NEW a, <<n - 1, a>> \in J
      PROVE  <<n, PlaceNext(a, r[n], limit)>> \in J
  <2>1. Good(n - 1, a)
    <3> HIDE DEF Good
    <3> QED
      BY <1>6
  <2>2. PICK x \in IndexedPreimages : x = r[n] /\ x.value = x.key /\ x.prev = NoPrev
    BY <1>3
  <2>3. PICK b : b = PlaceNext(a, x, limit)
    OBVIOUS
  <2>4. b \in Placing
    BY <2>1, <2>3, PlaceNextType
  <2>5. ASSUME NEW k \in Keys PROVE Cardinality(InShards(b.shards, k)) = Cardinality(Prefix(n, k))
    <3>1. Cardinality(InShards(b.shards, k)) =
            Cardinality(InShards(a.shards, k)) + (IF x.key = k THEN 1 ELSE 0)
      <4>1. a \in Placing
        BY <2>1
      <4> HIDE DEF Good, Prefix, J
      <4> QED
        BY <2>3, <4>1, PlaceNextCounts
    <3>2. Cardinality(InShards(a.shards, k)) = Cardinality(Prefix(n - 1, k))
      BY <2>1
    <3>3. IsFiniteSet(Prefix(n - 1, k)) /\ n \notin Prefix(n - 1, k)
      <4>1. IsFiniteSet(1..(n - 1)) /\ Prefix(n - 1, k) \in SUBSET (1..(n - 1))
        BY FS_Interval
      <4> QED
        BY <4>1, FS_Subset
    <3>4. Prefix(n, k) = IF x.key = k THEN Prefix(n - 1, k) \cup {n} ELSE Prefix(n - 1, k)
      BY <2>2
    <3>5. Cardinality(Prefix(n, k)) = Cardinality(Prefix(n - 1, k)) + (IF x.key = k THEN 1 ELSE 0)
      <4>1. Cardinality(Prefix(n - 1, k)) \in Nat
        BY <3>3, FS_CardinalityType
      <4> HIDE DEF Prefix
      <4>2. CASE x.key = k
        BY <3>3, <3>4, <4>2, FS_AddElement
      <4>3. CASE x.key # k
        BY <3>4, <4>1, <4>3
      <4> QED
        BY <4>2, <4>3
    <3> HIDE DEF Prefix
    <3> QED
      BY <3>1, <3>2, <3>5
  <2>6. ASSUME NEW e \in DOMAIN b.shards PROVE Genuine(b.shards[e]) /\ b.shards[e] # <<>>
    <3>0. PICK s \in Shards : s = a.shards /\ DOMAIN s = 1..Len(s) /\ Len(s) \in Nat
      BY <2>1 DEF Placing, Shards
    <3>1. \/ e \in DOMAIN s /\ b.shards[e] = s[e] /\ (e # Len(s) \/ a.size # 0)
          \/ b.shards[e] = <<x>>
          \/ e \in DOMAIN s /\ b.shards[e] = Append(s[e], x)
      BY <2>1, <2>3, <3>0, PlaceNextCounts
    <3>2. CASE e \in DOMAIN s /\ b.shards[e] = s[e] /\ (e # Len(s) \/ a.size # 0)
      <4>1. n - 1 # 0
        BY <2>1, <3>0, <3>2
      <4> QED
        BY <2>1, <3>0, <3>2, <4>1
    <3>3. CASE b.shards[e] = <<x>>
      BY <2>2, <3>3 DEF Genuine
    <3>4. CASE e \in DOMAIN s /\ b.shards[e] = Append(s[e], x)
      <4>1. PICK l \in Seq(IndexedPreimages) : l = s[e] /\ Genuine(l)
        BY <2>1, <3>0, <3>4 DEF Shards
      <4>2. PICK m : m = Append(l, x)
        OBVIOUS
      <4>3. m \in Seq(IndexedPreimages) /\ m = [p \in 1..(Len(l) + 1) |-> IF p = Len(l) + 1 THEN x ELSE l[p]]
        BY <4>2, AppendFacts
      <4>4. \A p \in 1..(Len(l) + 1) : p = Len(l) + 1 \/ p \in DOMAIN l
        OBVIOUS
      <4>5. Genuine(m)
        BY <2>2, <4>1, <4>3, <4>4 DEF Genuine
      <4>6. m # <<>>
        BY <4>2
      <4> QED
        BY <3>4, <4>1, <4>2, <4>5, <4>6
    <3> QED
      BY <3>1, <3>2, <3>3, <3>4
  <2>7. Good(n, b)
    <3> HIDE DEF Prefix
    <3> QED
      BY <2>4, <2>5, <2>6
  <2>8. <<n, b>> \in (0..L) \X Placing /\ <<n, b>>[1] = n /\ <<n, b>>[2] = b
    BY <2>4
  <2> HIDE DEF Good
  <2> QED
    BY <2>2, <2>3, <2>7, <2>8
<1>7. PICK a : <<L, a>> \in J /\ Place(limit) = a.shards
  <2> HIDE DEF J
  <2>1. <<0, [shards |-> << <<>> >>, size |-> 0]>> \in J
    BY <1>4, <1>5
  <2>2. \A n \in 1..Len(recorded) : \A a :
           <<n - 1, a>> \in J => <<n, PlaceNext(a, Reverse(recorded)[n], limit)>> \in J
    BY <1>1, <1>2, <1>6
  <2>3. \E a : <<Len(recorded), a>> \in J /\ Place(limit) = a.shards
    BY <2>1, <2>2, PlaceInduction
  <2> QED
    BY <1>1, <2>3
<1>8. Good(L, a)
  <2> HIDE DEF Good
  <2> QED
    BY <1>7
<1>9. ASSUME NEW k \in Keys PROVE Cardinality(Prefix(L, k)) = Cardinality(InShard(recorded, k))
  <2> DEFINE A == InShard(recorded, k)
             f == [p \in A |-> (L - p) + 1]
             B == {f[p] : p \in A}
  <2>1. A \subseteq 1..L /\ IsFiniteSet(A)
    BY <1>1, ShardIsFinite DEF InShard
  <2>2. B = Prefix(L, k)
    <3>1. B = {(L - p) + 1 : p \in A}
      OBVIOUS
    <3>2. ASSUME NEW q \in Prefix(L, k) PROVE q \in B
      <4>1. q \in 1..L /\ r[q].key = k /\ (L - q) + 1 \in 1..L /\ r[q] = recorded[(L - q) + 1]
        BY <1>3
      <4>2. (L - q) + 1 \in A
        BY <1>1, <4>1 DEF InShard
      <4>3. q = (L - ((L - q) + 1)) + 1
        BY <4>1
      <4> HIDE DEF A
      <4> QED
        BY <3>1, <4>2, <4>3
    <3>3. ASSUME NEW p \in A PROVE (L - p) + 1 \in Prefix(L, k)
      <4>1. p \in 1..L /\ recorded[p].key = k
        BY <1>1 DEF InShard
      <4>2. PICK q \in 1..L : q = (L - p) + 1
        BY <1>3, <4>1
      <4>3. (L - q) + 1 = p
        BY <4>1, <4>2
      <4>4. r[q] = recorded[p]
        BY <1>3, <4>3
      <4> QED
        BY <4>1, <4>2, <4>4
    <3> HIDE DEF A, B, Prefix
    <3> QED
      BY <3>1, <3>2, <3>3
  <2>3. \A p, q \in A : f[p] = f[q] => p = q
    BY <2>1
  <2>4. f = [p \in A |-> f[p]]
    OBVIOUS
  <2>5. Cardinality(B) = Cardinality(A)
    <3> HIDE DEF A, f
    <3> QED
      BY <2>1, <2>3, <2>4, SameSize
  <2> HIDE DEF A, B, Prefix
  <2> QED
    BY <2>2, <2>5 DEF A
<1>10. Place(limit) \in Shards
  BY <1>7, <1>8 DEF Placing, Shards
<1>11. L # 0
  OBVIOUS
<1> HIDE DEF Prefix, J
<1> QED
  BY <1>7, <1>8, <1>9, <1>10, <1>11

LEMMA GenuineIsValid ==
  ASSUME NEW shards, \A e \in DOMAIN shards : Genuine(shards[e])
  PROVE  Validate(shards)
BY DEF Validate, Genuine, ValidatePreimage

LEMMA PointersAreValid ==
  ASSUME NEW shards \in Shards, \A e \in DOMAIN shards : Genuine(shards[e])
  PROVE  /\ Validate(WithPointers(shards))
         /\ \A k : Cardinality(InShards(WithPointers(shards), k)) = Cardinality(InShards(shards, k))
<1>1. PICK w : w = WithPointers(shards)
  OBVIOUS
<1>2. DOMAIN w = DOMAIN shards /\ \A i \in DOMAIN shards : DOMAIN w[i] = DOMAIN shards[i]
  BY <1>1 DEF WithPointers
<1>3. ASSUME NEW i \in DOMAIN shards, NEW j \in DOMAIN shards[i]
      PROVE  /\ w[i][j].key = shards[i][j].key /\ w[i][j].value = shards[i][j].key
             /\ w[i][j].prev = NoPrev \/ w[i][j].prev \in Repeats(shards, i, j)
  <2>1. PICK x \in IndexedPreimages : x = shards[i][j] /\ x.value = x.key /\ x.prev = NoPrev
    <3>1. PICK s \in Seq(IndexedPreimages) : s = shards[i]
      BY DEF Shards
    <3>2. s[j] \in IndexedPreimages
      BY <3>1
    <3> QED
      BY <3>1, <3>2 DEF Genuine
  <2>2. PICK Q : Q = Repeats(shards, i, j)
    OBVIOUS
  <2>3. w[i][j] = IF NeedsValidation(x.key) /\ Q # {} THEN [x EXCEPT !.prev = Latest(Q)] ELSE x
    BY <1>1, <2>1, <2>2 DEF WithPointers
  <2>4. CASE NeedsValidation(x.key) /\ Q # {}
    <3>1. PICK N \in Nat : Q \subseteq (0..N) \X (0..N)
      <4>1. Len(shards) \in Nat /\ DOMAIN shards = 1..Len(shards) /\ MaxReads \in Nat
        BY OracleAssumption DEF Shards
      <4>2. PICK N \in Nat : N = Len(shards) + MaxReads
        BY <4>1
      <4>3. DOMAIN shards \subseteq 0..N /\ 1..MaxReads \subseteq 0..N
        BY <4>1, <4>2
      <4> QED
        BY <2>2, <4>3 DEF Repeats
    <3>2. Latest(Q) \in Q
      BY <2>4, <3>1, LatestExists
    <3>3. PICK y : y = [x EXCEPT !.prev = Latest(Q)]
      OBVIOUS
    <3>4. y.key = x.key /\ y.value = x.value /\ y.prev = Latest(Q)
      BY <3>3 DEF IndexedPreimages
    <3> QED
      BY <2>1, <2>2, <2>3, <2>4, <3>2, <3>3, <3>4
  <2>5. CASE ~(NeedsValidation(x.key) /\ Q # {})
    BY <2>1, <2>3, <2>5
  <2> QED
    BY <2>4, <2>5
<1>4. Validate(w)
  <2> SUFFICES ASSUME NEW e \in DOMAIN w, NEW p \in DOMAIN w[e]
               PROVE  IF w[e][p].prev = NoPrev THEN ValidatePreimage(w[e][p].key, w[e][p].value)
                                               ELSE PointsBack(w, e, p)
    BY DEF Validate
  <2>1. e \in DOMAIN shards /\ p \in DOMAIN shards[e]
    BY <1>2
  <2>2. ValidatePreimage(w[e][p].key, w[e][p].value)
    BY <1>3, <2>1 DEF ValidatePreimage
  <2>3. ASSUME w[e][p].prev # NoPrev PROVE PointsBack(w, e, p)
    <3>1. PICK q : q = w[e][p].prev /\ q \in Repeats(shards, e, p)
      BY <1>3, <2>1, <2>3
    <3>2. /\ q[1] \in DOMAIN shards /\ q[2] \in DOMAIN shards[q[1]]
          /\ q[1] < e \/ (q[1] = e /\ q[2] < p)
          /\ shards[q[1]][q[2]].key = shards[e][p].key
      BY <3>1 DEF Repeats
    <3>3. /\ w[q[1]][q[2]].key = shards[q[1]][q[2]].key
          /\ w[q[1]][q[2]].value = shards[q[1]][q[2]].key
      BY <1>3, <3>2
    <3> QED
      BY <1>2, <1>3, <2>1, <3>1, <3>2, <3>3 DEF PointsBack
  <2> QED
    BY <2>2, <2>3
<1>5. ASSUME NEW k PROVE Cardinality(InShards(w, k)) = Cardinality(InShards(shards, k))
  <2>1. \A e \in DOMAIN shards : InShard(w[e], k) = InShard(shards[e], k)
    BY <1>2, <1>3 DEF InShard
  <2> QED
    BY <1>2, <2>1, CountSameKeys
<1> QED
  BY <1>1, <1>4, <1>5

-----------------------------------------------------------------------------
(***************************************************************************)
(* What is left is what the reads to come take.                            *)
(***************************************************************************)

LEMMA LeftTypes ==
  ASSUME OracleInv, NEW k
  PROVE  /\ Cardinality(InShards(preimages, k)) \in Nat
         /\ Cardinality(InShards(frames, k)) \in Nat
         /\ Cardinality(InShard(queue, k)) \in Nat
         /\ IsFiniteSet(InShards(frames, k)) /\ IsFiniteSet(InShard(queue, k))
BY ShardIsFinite, ShardsAreFinite DEF OracleInv, Shards

LEMMA ReplayStart == OInit => ReplayInv
<1> SUFFICES ASSUME OInit, honest PROVE ReplayInv
  BY DEF ReplayInv
<1>1. /\ phase = "record" /\ preimages = <<>> /\ frames = <<>> /\ recorded = <<>> /\ queue = <<>>
      /\ want = NoKey /\ DOMAIN cache = {} /\ due = [k \in Keys |-> 0]
  BY DEF OInit, NoReads
<1>2. due \in [Keys -> Nat] /\ \A k \in Keys : due[k] = 0
  BY <1>1
<1>3. Genuine(recorded) /\ \A e \in DOMAIN frames : FALSE
  BY <1>1 DEF Genuine
<1>4. \A k \in Keys : Owed(k) = Cardinality(InShard(recorded, k))
  BY <1>1, <1>2, CountNone DEF Owed
<1> QED
  BY <1>1, <1>2, <1>3, <1>4 DEF ReplayInv

LEMMA RecordReplays ==
  ASSUME OracleInv, ReplayInv, honest, NEW k \in Keys, Record(k)
  PROVE  ReplayInv'
<1>1. PICK x \in IndexedPreimages : x = Entry(k, k, NoPrev) /\ x.key = k /\ x.value = k /\ x.prev = NoPrev
  <2>1. Entry(k, k, NoPrev) \in IndexedPreimages
    BY DEF Entry, NoPrev, IndexedPreimages
  <2>2. PICK x : x = Entry(k, k, NoPrev)
    OBVIOUS
  <2>3. x.key = k /\ x.value = k /\ x.prev = NoPrev
    BY <2>2 DEF Entry
  <2> QED
    BY <2>1, <2>2, <2>3
<1>2. /\ phase = "record" /\ due' = [due EXCEPT ![k] = @ + 1]
      /\ recorded' = IF k \in LocalKeys /\ due[k] > 0 THEN recorded ELSE Append(recorded, x)
      /\ UNCHANGED <<honest, phase, preimages, frames, queue, want, cache>>
  BY <1>1 DEF Record
<1>3. /\ due \in [Keys -> Nat] /\ queue = <<>> /\ want = NoKey /\ DOMAIN cache = {}
      /\ preimages = <<>> /\ frames = <<>> /\ Genuine(recorded)
      /\ \A l \in Keys : Owed(l) = Cardinality(InShard(recorded, l))
  BY <1>2 DEF ReplayInv
<1>4. /\ due' \in [Keys -> Nat] /\ due'[k] = due[k] + 1 /\ due[k] \in Nat
      /\ \A l \in Keys : l # k => due'[l] = due[l]
  BY <1>2, <1>3
<1>5. recorded \in Seq(IndexedPreimages)
  BY DEF OracleInv
<1>6. PICK t : t = Append(recorded, x)
  OBVIOUS
<1>7. Genuine(recorded')
  <2>1. t = [p \in 1..(Len(recorded) + 1) |-> IF p = Len(recorded) + 1 THEN x ELSE recorded[p]]
    BY <1>5, <1>6, AppendFacts
  <2>2. \A p \in 1..(Len(recorded) + 1) : p = Len(recorded) + 1 \/ p \in DOMAIN recorded
    BY <1>5
  <2>3. Genuine(t)
    BY <1>1, <1>3, <2>1, <2>2 DEF Genuine
  <2> QED
    BY <1>2, <1>3, <1>6, <2>3
<1>8. ASSUME NEW l \in Keys PROVE Owed(l)' = Cardinality(InShard(recorded', l))
  <2>1. Cardinality(InShard(t, l)) = Cardinality(InShard(recorded, l)) + (IF x.key = l THEN 1 ELSE 0)
    BY <1>5, <1>6, CountNext
  <2>2. Owed(l) = Cardinality(InShard(recorded, l)) /\ Cardinality(InShard(recorded, l)) \in Nat
    BY <1>3, <1>5, ShardIsFinite
  <2>3. Owed(l)' = IF l \in HashKeys THEN due'[l] ELSE IF l \in DOMAIN cache \/ due'[l] = 0 THEN 0 ELSE 1
    BY <1>2 DEF Owed
  <2>4. Owed(l) = IF l \in HashKeys THEN due[l] ELSE IF l \in DOMAIN cache \/ due[l] = 0 THEN 0 ELSE 1
    BY DEF Owed
  <2>5. CASE l # k
    <3>1. Owed(l)' = Owed(l)
      BY <1>4, <2>3, <2>4, <2>5
    <3>2. Cardinality(InShard(t, l)) = Cardinality(InShard(recorded, l))
      BY <1>1, <2>1, <2>2, <2>5
    <3> QED
      BY <1>2, <1>6, <2>2, <3>1, <3>2
  <2>6. CASE l = k
    <3>1. Cardinality(InShard(t, l)) = Owed(l) + 1
      BY <1>1, <2>1, <2>2, <2>6
    <3>2. CASE k \in HashKeys
      <4>1. k \notin LocalKeys
        BY <3>2, OracleAssumption
      <4>2. Owed(l)' = Owed(l) + 1
        BY <1>4, <2>3, <2>4, <2>6, <3>2
      <4> QED
        BY <1>2, <1>6, <3>1, <4>1, <4>2
    <3>3. CASE k \notin HashKeys /\ due[k] > 0
      <4>1. k \in LocalKeys
        BY <3>3 DEF Keys
      <4>2. due'[k] # 0 /\ due[k] # 0
        BY <1>4, <3>3
      <4>3. Owed(l)' = Owed(l)
        BY <1>3, <2>3, <2>4, <2>6, <3>3, <4>2
      <4> QED
        BY <1>2, <2>2, <3>3, <4>1, <4>3
    <3>4. CASE k \notin HashKeys /\ ~(due[k] > 0)
      <4>1. due[k] = 0 /\ due'[k] = 1
        BY <1>4, <3>4
      <4>2. Owed(l) = 0 /\ Owed(l)' = 1
        BY <1>3, <2>3, <2>4, <2>6, <3>4, <4>1
      <4> QED
        BY <1>2, <1>6, <3>1, <3>4, <4>2
    <3> QED
      BY <3>2, <3>3, <3>4
  <2> QED
    BY <2>5, <2>6
<1> QED
  BY <1>2, <1>3, <1>4, <1>7, <1>8 DEF ReplayInv

LEMMA EncodeReplays ==
  ASSUME OracleInv, ReplayInv, honest, Encode
  PROVE  ReplayInv'
<1>1. PICK limit \in ShardSizes :
        IF streamed
         THEN frames' = StreamedFrames(FinalizePreimages(limit, FALSE)) /\ UNCHANGED preimages
         ELSE preimages' = FinalizePreimages(limit, TRUE) /\ UNCHANGED frames
  BY DEF Encode
<1>2. /\ phase = "record" /\ recorded # <<>> /\ phase' = "load"
      /\ UNCHANGED <<honest, queue, want, cache, due>>
  BY DEF Encode
<1>3. /\ due \in [Keys -> Nat] /\ queue = <<>> /\ want = NoKey /\ DOMAIN cache = {}
      /\ preimages = <<>> /\ frames = <<>> /\ Genuine(recorded)
      /\ \A l \in Keys : Owed(l) = Cardinality(InShard(recorded, l))
  BY <1>2 DEF ReplayInv
<1>4. recorded \in Seq(IndexedPreimages)
  BY DEF OracleInv
<1>5. PICK s \in Shards :
        /\ s = Place(limit)
        /\ \A k \in Keys : Cardinality(InShards(s, k)) = Cardinality(InShard(recorded, k))
        /\ \A e \in DOMAIN s : s[e] # <<>> /\ Genuine(s[e])
  BY <1>2, <1>3, <1>4, PlaceCounts
<1>6. \A k \in Keys : Owed(k)' = Cardinality(InShards(s, k)) /\ Cardinality(InShards(s, k)) \in Nat
  BY <1>2, <1>3, <1>5, ShardsAreFinite DEF Owed
<1>7. CASE streamed
  <2>1. PICK t : t = Reverse(s) /\ frames' = t /\ preimages' = <<>>
    BY <1>1, <1>3, <1>5, <1>7 DEF StreamedFrames, FinalizePreimages
  <2>2. \A e \in DOMAIN t : t[e] # <<>> /\ Genuine(t[e])
    <3>1. DOMAIN s = 1..Len(s) /\ Len(s) \in Nat
      BY DEF Shards
    <3>2. DOMAIN t = 1..Len(s) /\ \A e \in 1..Len(s) : t[e] = s[(Len(s) - e) + 1]
      BY <2>1, <3>1 DEF Reverse
    <3>3. \A e \in 1..Len(s) : (Len(s) - e) + 1 \in 1..Len(s)
      BY <3>1
    <3> QED
      BY <1>5, <3>1, <3>2, <3>3
  <2>3. \A k \in Keys : Cardinality(InShards(t, k)) = Cardinality(InShards(s, k))
    BY <2>1, CountReverse
  <2>4. ASSUME NEW k \in Keys PROVE Owed(k)' = Left(k)'
    <3>1. Left(k)' = 0 + Cardinality(InShards(t, k)) + 0
      BY <1>2, <1>3, <2>1, CountNone DEF Left
    <3> QED
      BY <1>6, <2>3, <3>1
  <2>5. Validate(<<>>)
    BY DEF Validate
  <2> QED
    BY <1>2, <1>3, <2>1, <2>2, <2>4, <2>5 DEF ReplayInv
<1>8. CASE ~streamed
  <2>1. PICK t : t = WithPointers(s) /\ preimages' = t /\ frames' = <<>>
    BY <1>1, <1>3, <1>5, <1>8 DEF FinalizePreimages
  <2>2. Validate(t) /\ \A k : Cardinality(InShards(t, k)) = Cardinality(InShards(s, k))
    BY <1>5, <2>1, PointersAreValid
  <2>3. ASSUME NEW k \in Keys PROVE Owed(k)' = Left(k)'
    <3>1. Left(k)' = Cardinality(InShards(t, k)) + 0 + 0
      BY <1>2, <1>3, <2>1, CountNone DEF Left
    <3> QED
      BY <1>6, <2>2, <3>1
  <2> QED
    BY <1>2, <1>3, <2>1, <2>2, <2>3 DEF ReplayInv
<1> QED
  BY <1>7, <1>8

LEMMA LoadReplays ==
  ASSUME OracleInv, ReplayInv, honest, Load
  PROVE  ReplayInv'
<1>1. /\ phase = "load" /\ phase' = "replay"
      /\ UNCHANGED <<honest, recorded, preimages, frames, queue, want, cache, due>>
  BY DEF Load, ReplayInv
<1>2. \A k \in Keys : Owed(k)' = Owed(k) /\ Left(k)' = Left(k)
  BY <1>1 DEF Owed, Left
<1> QED
  BY <1>1, <1>2 DEF ReplayInv

LEMMA SeekReplays ==
  ASSUME OracleInv, ReplayInv, honest, NEW k \in Keys, Seek(k)
  PROVE  ReplayInv'
<1>1. /\ phase = "replay" /\ want = NoKey /\ want' = k /\ due[k] > 0 /\ k # NoKey
      /\ UNCHANGED <<honest, phase, recorded, preimages, frames, queue, cache, due>>
  BY OracleAssumption DEF Seek
<1>2. \A l \in Keys : Owed(l)' = Owed(l) /\ Left(l)' = Left(l)
  BY <1>1 DEF Owed, Left
<1>3. InShard(queue, k) = {}
  BY <1>1 DEF ReplayInv, InShard
<1> QED
  BY <1>1, <1>2, <1>3 DEF ReplayInv

LEMMA CachedReplays ==
  ASSUME OracleInv, ReplayInv, honest, NEW k \in Keys, GetCached(k)
  PROVE  ReplayInv'
<1>1. /\ phase = "replay" /\ want = NoKey /\ k \in DOMAIN cache /\ due[k] > 0
      /\ due' = [due EXCEPT ![k] = @ - 1]
      /\ UNCHANGED <<honest, phase, recorded, preimages, frames, queue, want, cache>>
  BY DEF GetCached, Answer
<1>2. k \notin HashKeys
  BY <1>1, OracleAssumption DEF OracleInv, Binding
<1>3. due \in [Keys -> Nat]
  BY DEF ReplayInv
<1>4. due' \in [Keys -> Nat] /\ \A l \in Keys : l # k => due'[l] = due[l]
  BY <1>1, <1>3
<1>5. \A l \in Keys : Owed(l)' = Owed(l) /\ Left(l)' = Left(l)
  BY <1>1, <1>2, <1>4 DEF Owed, Left
<1> QED
  BY <1>1, <1>4, <1>5 DEF ReplayInv

\* The frames are not at their end before what is looked for was found.
LEMMA ReadReplays ==
  ASSUME OracleInv, ReplayInv, honest, ReadShard
  PROVE  ReplayInv'
<1>1. /\ want # NoKey /\ preimages = <<>> /\ phase = "replay" /\ want \in Keys
      /\ UNCHANGED <<honest, recorded, queue, want, cache, due>>
  BY DEF ReadShard, OracleInv
<1>2. /\ due \in [Keys -> Nat] /\ due[want] > 0 /\ InShard(queue, want) = {}
      /\ \A k \in Keys : Owed(k) = Left(k)
      /\ \A e \in DOMAIN frames : frames[e] # <<>> /\ Genuine(frames[e])
  BY <1>1 DEF ReplayInv
<1>3. frames \in Shards
  BY DEF OracleInv, Shards
<1>4. want \notin DOMAIN cache
  BY DEF OracleInv
<1>5. frames # <<>>
  <2> SUFFICES ASSUME frames = <<>> PROVE FALSE
    OBVIOUS
  <2>1. Left(want) = 0 + 0 + 0
    BY <1>1, <1>2, CountNone, FS_EmptySet DEF Left
  <2>2. Owed(want) # 0
    BY <1>1, <1>2, <1>4 DEF Owed
  <2> QED
    BY <1>1, <1>2, <2>1, <2>2
<1>6. PICK h \in Seq(IndexedPreimages), r \in Shards : h = Head(frames) /\ r = Tail(frames)
  BY <1>3, <1>5, TailFacts DEF Shards
<1>7. Genuine(h) /\ \A e \in DOMAIN r : r[e] # <<>> /\ Genuine(r[e])
  <2>1. PICK f \in Shards : f = frames /\ f # <<>>
    BY <1>3, <1>5
  <2>2. 1 \in DOMAIN f /\ h = f[1] /\ \A e \in DOMAIN r : e + 1 \in DOMAIN f /\ r[e] = f[e + 1]
    BY <1>6, <2>1 DEF Shards
  <2> QED
    BY <1>2, <2>1, <2>2
<1>8. Validate(<<h>>)
  <2>1. \A e \in DOMAIN <<h>> : Genuine(<<h>>[e])
    BY <1>7
  <2> QED
    BY <2>1, GenuineIsValid
<1>9. preimages' = <<h>> /\ frames' = r /\ phase' = phase
  BY <1>5, <1>6, <1>8 DEF ReadShard
<1>10. ASSUME NEW k \in Keys PROVE Left(k)' = Left(k)
  <2>1. Cardinality(InShards(<<h>>, k)) = Cardinality(InShard(h, k))
    <3>1. Append(<<>>, h) = <<h>>
      OBVIOUS
    <3>2. <<>> \in Shards
      BY DEF Shards
    <3>3. Cardinality(InShards(Append(<<>>, h), k)) = Cardinality(InShards(<<>>, k)) + Cardinality(InShard(h, k))
      BY <3>2, CountAppend
    <3>4. Cardinality(InShard(h, k)) \in Nat
      BY ShardIsFinite
    <3> QED
      BY <3>1, <3>3, <3>4, CountNone
  <2>2. Cardinality(InShards(frames, k)) = Cardinality(InShard(h, k)) + Cardinality(InShards(r, k))
    BY <1>3, <1>5, <1>6, CountTail
  <2>3. PICK a \in Nat, b \in Nat, c \in Nat :
          /\ a = Cardinality(InShard(h, k)) /\ b = Cardinality(InShards(r, k))
          /\ c = Cardinality(InShard(queue, k))
    BY LeftTypes, ShardIsFinite, ShardsAreFinite
  <2>4. Left(k)' = a + b + c
    BY <1>1, <1>9, <2>1, <2>3 DEF Left
  <2>5. Left(k) = 0 + (a + b) + c
    BY <1>1, <2>2, <2>3, CountNone DEF Left
  <2> QED
    BY <2>4, <2>5
<1>11. \A k \in Keys : Owed(k)' = Owed(k)
  BY <1>1 DEF Owed
<1> QED
  BY <1>1, <1>2, <1>7, <1>9, <1>10, <1>11 DEF ReplayInv

LEMMA DropReplays ==
  ASSUME OracleInv, ReplayInv, honest, DropShard
  PROVE  ReplayInv'
<1>1. /\ want # NoKey /\ preimages # <<>> /\ preimages[Len(preimages)] = <<>>
      /\ preimages' = Front(preimages)
      /\ UNCHANGED <<honest, phase, recorded, frames, queue, want, cache, due>>
  BY DEF DropShard, LastShard
<1>2. phase = "replay"
  BY <1>1 DEF ReplayInv
<1>3. PICK f \in Shards : f = Front(preimages) /\ preimages = Append(f, <<>>)
  <2>1. preimages \in Shards /\ <<>> \in Seq(IndexedPreimages)
    BY DEF OracleInv, Shards
  <2> QED
    BY <1>1, <2>1, LastApart DEF Shards
<1>4. ASSUME NEW k \in Keys PROVE Cardinality(InShards(preimages, k)) = Cardinality(InShards(f, k))
  <2>1. <<>> \in Seq(IndexedPreimages)
    OBVIOUS
  <2>2. Cardinality(InShards(Append(f, <<>>), k)) = Cardinality(InShards(f, k)) + Cardinality(InShard(<<>>, k))
    BY <2>1, CountAppend
  <2>3. Cardinality(InShards(f, k)) \in Nat
    BY ShardsAreFinite
  <2>4. Cardinality(InShard(<<>>, k)) = 0
    BY CountNone
  <2>5. Cardinality(InShards(Append(f, <<>>), k)) = Cardinality(InShards(f, k))
    BY <2>2, <2>3, <2>4
  <2> QED
    BY <1>3, <2>5
<1>5. \A k \in Keys : Owed(k)' = Owed(k) /\ Left(k)' = Left(k)
  BY <1>1, <1>3, <1>4 DEF Owed, Left
<1> QED
  BY <1>1, <1>2, <1>5 DEF ReplayInv

\* What is on top of the shards, and what they hold with another shard on top.
LEMMA TopCounts ==
  ASSUME OracleInv, want # NoKey, preimages # <<>>, LastShard # <<>>
  PROVE  \E x \in IndexedPreimages, f \in Seq(IndexedPreimages) :
           /\ x = Last(LastShard) /\ f = Front(LastShard)
           /\ \A s \in Seq(IndexedPreimages), k \in Keys :
                /\ Cardinality(InShards([preimages EXCEPT ![Len(preimages)] = s], k)) \in Nat
                /\ Cardinality(InShards([preimages EXCEPT ![Len(preimages)] = s], k))
                    + Cardinality(InShard(f, k)) + (IF x.key = k THEN 1 ELSE 0) =
                      Cardinality(InShards(preimages, k)) + Cardinality(InShard(s, k))
<1>1. PICK x \in IndexedPreimages, f \in Seq(IndexedPreimages) : x = Last(LastShard) /\ f = Front(LastShard)
  BY TopIsRight
<1>2. PICK h \in Shards, l \in Seq(IndexedPreimages) :
        /\ h = Front(preimages) /\ l = LastShard /\ preimages = Append(h, l)
        /\ \A s \in Seq(IndexedPreimages) : [preimages EXCEPT ![Len(preimages)] = s] = Append(h, s)
  <2>1. preimages \in Seq(Seq(IndexedPreimages)) /\ <<>> \in Seq(IndexedPreimages)
    BY DEF OracleInv
  <2>2. /\ Front(preimages) \in Shards /\ LastShard \in Seq(IndexedPreimages)
        /\ preimages = Append(Front(preimages), LastShard)
    BY <2>1, LastApart DEF LastShard, Shards
  <2>3. \A s \in Seq(IndexedPreimages) :
          [preimages EXCEPT ![Len(preimages)] = s] = Append(Front(preimages), s)
    BY <2>1, LastApart
  <2> QED
    BY <2>2, <2>3
<1>3. l = Append(f, x)
  <2>1. l # <<>> /\ f = Front(l) /\ x = l[Len(l)]
    BY <1>1, <1>2 DEF Last
  <2> QED
    BY <2>1, LastApart
<1>4. ASSUME NEW s \in Seq(IndexedPreimages), NEW k \in Keys
      PROVE  /\ Cardinality(InShards([preimages EXCEPT ![Len(preimages)] = s], k)) \in Nat
             /\ Cardinality(InShards([preimages EXCEPT ![Len(preimages)] = s], k))
                 + Cardinality(InShard(f, k)) + (IF x.key = k THEN 1 ELSE 0) =
                   Cardinality(InShards(preimages, k)) + Cardinality(InShard(s, k))
  <2>1. PICK a \in Nat, b \in Nat, c \in Nat, u \in Nat :
          /\ a = Cardinality(InShards(h, k)) /\ b = Cardinality(InShard(f, k))
          /\ c = Cardinality(InShard(s, k)) /\ u = IF x.key = k THEN 1 ELSE 0
    BY ShardIsFinite, ShardsAreFinite
  <2>2. Cardinality(InShard(l, k)) = b + u
    BY <1>3, <2>1, CountNext
  <2>3. Cardinality(InShards(preimages, k)) = a + (b + u)
    <3>1. Cardinality(InShards(Append(h, l), k)) = Cardinality(InShards(h, k)) + Cardinality(InShard(l, k))
      BY CountAppend
    <3> QED
      BY <1>2, <2>1, <2>2, <3>1
  <2>4. Cardinality(InShards([preimages EXCEPT ![Len(preimages)] = s], k)) = a + c
    <3>1. Cardinality(InShards(Append(h, s), k)) = Cardinality(InShards(h, k)) + Cardinality(InShard(s, k))
      BY CountAppend
    <3> QED
      BY <1>2, <2>1, <3>1
  <2>5. (a + c) + b + u = (a + (b + u)) + c /\ a + c \in Nat
    OBVIOUS
  <2> QED
    BY <2>1, <2>3, <2>4, <2>5
<1> QED
  BY <1>1, <1>4

LEMMA OtherReplays ==
  ASSUME OracleInv, ReplayInv, honest, PopOther
  PROVE  ReplayInv'
<1>1. want # NoKey /\ preimages # <<>> /\ LastShard # <<>> /\ want \in Keys
  BY DEF PopOther, OracleInv
<1>2. PICK x \in IndexedPreimages, f \in Seq(IndexedPreimages) :
           /\ x = Last(LastShard) /\ f = Front(LastShard)
           /\ \A s \in Seq(IndexedPreimages), k \in Keys :
                /\ Cardinality(InShards([preimages EXCEPT ![Len(preimages)] = s], k)) \in Nat
                /\ Cardinality(InShards([preimages EXCEPT ![Len(preimages)] = s], k))
                    + Cardinality(InShard(f, k)) + (IF x.key = k THEN 1 ELSE 0) =
                      Cardinality(InShards(preimages, k)) + Cardinality(InShard(s, k))
  BY <1>1, TopCounts
<1>3. PICK y \in IndexedPreimages, q \in Seq(IndexedPreimages) :
        y = [x EXCEPT !.prev = NoPrev] /\ y.key = x.key /\ q = <<y>>
  <2>1. PICK y : y = [x EXCEPT !.prev = NoPrev]
    OBVIOUS
  <2>2. y \in IndexedPreimages /\ y.key = x.key
    BY <2>1 DEF IndexedPreimages, NoPrev
  <2>3. <<y>> \in Seq(IndexedPreimages)
    BY <2>2, Singleton
  <2> QED
    BY <2>1, <2>2, <2>3
<1>4. /\ x.key # want /\ queue' = q \o queue
      /\ preimages' = [preimages EXCEPT ![Len(preimages)] = f]
      /\ UNCHANGED <<honest, phase, recorded, frames, want, cache, due>>
  BY <1>2, <1>3 DEF PopOther, LastShard
<1>5. phase = "replay"
  BY <1>1 DEF ReplayInv
<1>6. queue \in Seq(IndexedPreimages)
  BY DEF OracleInv
<1>7. ASSUME NEW k \in Keys
      PROVE  Cardinality(InShard(queue', k)) = (IF x.key = k THEN 1 ELSE 0) + Cardinality(InShard(queue, k))
  <2>1. Cardinality(InShard(q \o queue, k)) = Cardinality(InShard(q, k)) + Cardinality(InShard(queue, k))
    BY <1>6, CountConcat
  <2>2. Cardinality(InShard(q, k)) = IF x.key = k THEN 1 ELSE 0
    BY <1>3, CountOne
  <2> QED
    BY <1>4, <2>1, <2>2
<1>8. ASSUME NEW k \in Keys PROVE Left(k)' = Left(k)
  <2>1. PICK a \in Nat, b \in Nat, c \in Nat, d \in Nat, g \in Nat, u \in Nat :
          /\ a = Cardinality(InShards(preimages, k)) /\ b = Cardinality(InShards(frames, k))
          /\ c = Cardinality(InShard(queue, k)) /\ d = Cardinality(InShards(preimages', k))
          /\ g = Cardinality(InShard(f, k)) /\ u = IF x.key = k THEN 1 ELSE 0
    BY <1>2, <1>4, LeftTypes, ShardIsFinite
  <2>2. d + g + u = a + g
    BY <1>2, <1>4, <2>1
  <2>3. Left(k) = a + b + c
    BY <2>1 DEF Left
  <2>4. Left(k)' = d + b + (u + c)
    BY <1>4, <1>7, <2>1 DEF Left
  <2> QED
    BY <2>2, <2>3, <2>4
<1>9. \A k \in Keys : Owed(k)' = Owed(k)
  BY <1>4 DEF Owed
<1>10. InShard(queue', want) = {}
  <2>1. InShard(queue, want) = {}
    BY <1>1 DEF ReplayInv
  <2>2. Cardinality(InShard(queue', want)) = 0
    <3>1. Cardinality(InShard(queue', want)) =
            (IF x.key = want THEN 1 ELSE 0) + Cardinality(InShard(queue, want))
      BY <1>1, <1>7
    <3>2. Cardinality(InShard(queue, want)) = 0
      BY <2>1, FS_EmptySet
    <3> QED
      BY <1>4, <3>1, <3>2
  <2>3. q \o queue \in Seq(IndexedPreimages)
    BY <1>6
  <2>4. IsFiniteSet(InShard(queue', want))
    BY <1>4, <2>3, ShardIsFinite
  <2> QED
    BY <2>2, <2>4, FS_EmptySet
<1> QED
  BY <1>1, <1>4, <1>5, <1>8, <1>9, <1>10 DEF ReplayInv

LEMMA MatchReplays ==
  ASSUME OracleInv, ReplayInv, honest, PopMatch
  PROVE  ReplayInv'
<1>1. want # NoKey /\ preimages # <<>> /\ LastShard # <<>> /\ want \in Keys /\ want \notin DOMAIN cache
  BY DEF PopMatch, OracleInv
<1>2. PICK x \in IndexedPreimages, f \in Seq(IndexedPreimages) :
           /\ x = Last(LastShard) /\ f = Front(LastShard)
           /\ \A s \in Seq(IndexedPreimages), k \in Keys :
                /\ Cardinality(InShards([preimages EXCEPT ![Len(preimages)] = s], k)) \in Nat
                /\ Cardinality(InShards([preimages EXCEPT ![Len(preimages)] = s], k))
                    + Cardinality(InShard(f, k)) + (IF x.key = k THEN 1 ELSE 0) =
                      Cardinality(InShards(preimages, k)) + Cardinality(InShard(s, k))
  BY <1>1, TopCounts
<1>3. queue \in Seq(IndexedPreimages)
  BY DEF OracleInv
<1>4. PICK s \in Seq(IndexedPreimages) : s = f \o queue
  BY <1>3, ConcatType
<1>5. /\ x.key = want /\ queue' = <<>> /\ want' = NoKey
      /\ preimages' = [preimages EXCEPT ![Len(preimages)] = s]
      /\ due' = [due EXCEPT ![want] = @ - 1]
      /\ cache' = IF want \in LocalKeys THEN Remembered(want, x.value) ELSE cache
      /\ UNCHANGED <<honest, phase, recorded, frames>>
  BY <1>2, <1>4 DEF PopMatch, LastShard, Answer
<1>6. phase = "replay" /\ due \in [Keys -> Nat] /\ due[want] > 0
  BY <1>1 DEF ReplayInv
<1>7. /\ due' \in [Keys -> Nat] /\ due'[want] = due[want] - 1
      /\ \A k \in Keys : k # want => due'[k] = due[k]
  BY <1>1, <1>5, <1>6
<1>8. ASSUME NEW k \in Keys
      PROVE  Left(k) = Left(k)' + (IF want = k THEN 1 ELSE 0) /\ Left(k)' \in Nat
  <2>1. PICK a \in Nat, b \in Nat, c \in Nat, d \in Nat, g \in Nat, u \in Nat :
          /\ a = Cardinality(InShards(preimages, k)) /\ b = Cardinality(InShards(frames, k))
          /\ c = Cardinality(InShard(queue, k)) /\ d = Cardinality(InShards(preimages', k))
          /\ g = Cardinality(InShard(f, k)) /\ u = IF x.key = k THEN 1 ELSE 0
    BY <1>2, <1>5, LeftTypes, ShardIsFinite
  <2>2. Cardinality(InShard(s, k)) = g + c
    BY <1>3, <1>4, <2>1, CountConcat
  <2>3. d + g + u = a + (g + c)
    BY <1>2, <1>5, <2>1, <2>2
  <2>4. Left(k) = a + b + c
    BY <2>1 DEF Left
  <2>5. Left(k)' = d + b + 0
    BY <1>5, <2>1, CountNone DEF Left
  <2>6. a + b + c = (d + b + 0) + u /\ d + b + 0 \in Nat
    BY <2>3
  <2> QED
    BY <1>5, <2>1, <2>4, <2>5, <2>6
<1>9. ASSUME NEW k \in Keys PROVE Owed(k) = Owed(k)' + (IF want = k THEN 1 ELSE 0) /\ Owed(k)' \in Nat
  <2>1. Owed(k)' = IF k \in HashKeys THEN due'[k] ELSE IF k \in DOMAIN cache' \/ due'[k] = 0 THEN 0 ELSE 1
    BY DEF Owed
  <2>2. Owed(k) = IF k \in HashKeys THEN due[k] ELSE IF k \in DOMAIN cache \/ due[k] = 0 THEN 0 ELSE 1
    BY DEF Owed
  <2>3. due[k] \in Nat /\ due'[k] \in Nat
    BY <1>6, <1>7
  <2>4. DOMAIN cache' = IF want \in LocalKeys THEN DOMAIN cache \cup {want} ELSE DOMAIN cache
    BY <1>5 DEF Remembered
  <2>5. CASE k # want
    <3>1. k \in DOMAIN cache' <=> k \in DOMAIN cache
      BY <2>4, <2>5
    <3>2. Owed(k)' = Owed(k) /\ Owed(k) \in Nat
      BY <1>7, <2>1, <2>2, <2>3, <2>5, <3>1
    <3> QED
      BY <2>5, <3>2
  <2>6. CASE k = want /\ k \in HashKeys
    BY <1>6, <1>7, <2>1, <2>2, <2>3, <2>6
  <2>7. CASE k = want /\ k \notin HashKeys
    <3>1. want \in LocalKeys
      BY <2>7 DEF Keys
    <3>2. Owed(k)' = 0
      BY <2>1, <2>4, <2>7, <3>1
    <3>3. Owed(k) = 1
      BY <1>1, <1>6, <2>2, <2>7
    <3> QED
      BY <2>7, <3>2, <3>3
  <2> QED
    BY <2>5, <2>6, <2>7
<1>10. ASSUME NEW k \in Keys PROVE Owed(k)' = Left(k)'
  <2>1. Owed(k) = Left(k)
    BY <1>6 DEF ReplayInv
  <2>2. \A a, b, u \in Nat : a + u = b + u => a = b
    OBVIOUS
  <2>3. PICK u \in Nat : u = IF want = k THEN 1 ELSE 0
    OBVIOUS
  <2>4. PICK a \in Nat, b \in Nat : a = Owed(k)' /\ b = Left(k)'
    BY <1>8, <1>9
  <2>5. a + u = b + u
    BY <1>8, <1>9, <2>1, <2>3, <2>4
  <2> QED
    BY <2>2, <2>4, <2>5
<1> QED
  BY <1>5, <1>6, <1>7, <1>10 DEF ReplayInv

LEMMA ReplayStep == OracleInv /\ ReplayInv /\ [ONext]_ovars => ReplayInv'
<1> SUFFICES ASSUME OracleInv, ReplayInv, [ONext]_ovars PROVE ReplayInv'
  OBVIOUS
<1>1. honest' = honest
  BY DEF ONext, ovars, Record, Encode, Load, GetCached, Seek, ReadShard, PopMatch, PopOther, DropShard
<1>2. CASE ~honest
  BY <1>1, <1>2 DEF ReplayInv
<1>3. CASE honest /\ UNCHANGED ovars
  <2>1. \A k \in Keys : Owed(k)' = Owed(k) /\ Left(k)' = Left(k)
    BY <1>3 DEF ovars, Owed, Left
  <2> QED
    BY <1>3, <2>1 DEF ovars, ReplayInv
<1> QED
  BY <1>2, <1>3, RecordReplays, EncodeReplays, LoadReplays, SeekReplays, CachedReplays,
     ReadReplays, DropReplays, OtherReplays, MatchReplays DEF ONext

LEMMA ServesFromInv == OracleInv /\ ReplayInv => ReplayServesAll
<1> SUFFICES ASSUME OracleInv, ReplayInv, honest, phase = "replay", want = NoKey, due = NoReads, frames # <<>>
             PROVE  FALSE
  BY DEF ReplayServesAll, ReplayInv
<1>1. frames \in Shards
  BY DEF OracleInv, Shards
<1>2. PICK s \in Seq(IndexedPreimages) : 1 \in DOMAIN frames /\ s = frames[1] /\ s # <<>>
  <2>1. 1 \in DOMAIN frames /\ frames[1] \in Seq(IndexedPreimages)
    BY <1>1 DEF Shards
  <2> QED
    BY <2>1 DEF ReplayInv
<1>3. PICK k \in Keys : k = s[1].key /\ 1 \in DOMAIN s
  <2>1. 1 \in DOMAIN s /\ s[1] \in IndexedPreimages
    BY <1>2
  <2>2. \A x \in IndexedPreimages : x.key \in Keys
    BY DEF IndexedPreimages
  <2> QED
    BY <2>1, <2>2
<1>4. <<1, 1>> \in InShards(frames, k)
  <2>1. 1 \in InShard(s, k)
    BY <1>3 DEF InShard
  <2> QED
    BY <1>2, <2>1, InShardsIs
<1>5. Cardinality(InShards(frames, k)) # 0
  BY <1>4, LeftTypes, FS_EmptySet
<1>6. Owed(k) = 0
  BY DEF Owed, NoReads
<1>7. Left(k) # 0
  <2>1. PICK a \in Nat, b \in Nat, c \in Nat :
          /\ a = Cardinality(InShards(preimages, k)) /\ b = Cardinality(InShards(frames, k))
          /\ c = Cardinality(InShard(queue, k))
    BY LeftTypes
  <2>2. a + b + c # 0
    BY <1>5, <2>1
  <2> QED
    BY <2>1, <2>2 DEF Left
<1> QED
  BY <1>6, <1>7 DEF ReplayInv

(***************************************************************************)
(* A run that makes the recorded reads in any order is served: whatever    *)
(* was recorded and however it was cut into shards, preloaded or streamed, *)
(* get() finds every preimage, puts back all that it set aside, and reads  *)
(* the stream to its end.                                                  *)
(***************************************************************************)
THEOREM HonestReplayIsServed == OSpec => []ReplayServesAll
<1>1. OracleInv /\ ReplayInv /\ [ONext]_ovars => (OracleInv /\ ReplayInv)'
  BY OracleStep, ReplayStep
<1> QED
  BY <1>1, OracleStart, ReplayStart, ServesFromInv, PTL DEF OSpec
=============================================================================
