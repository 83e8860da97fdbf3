--------------------------- MODULE WitnessOracle ---------------------------
(***************************************************************************)
(* The preimage oracle of the proving program.  The host records every     *)
(* preimage that the client reads, finalizes the record into shards, and   *)
(* passes the shards to the guest, preloaded or streamed as frames.  The   *)
(* guest replays the reads, in an order that may differ.  A host may also  *)
(* pass shards that it did not record (forged).                            *)
(*                                                                         *)
(* A key that commits to its preimage is in HashKeys and its preimage is   *)
(* written as the key itself; Wrong is the preimage of no key.             *)
(***************************************************************************)
EXTENDS Integers, Sequences, SequencesExt, FiniteSets

CONSTANTS HashKeys,      \* keys of type Keccak256 or Sha256
          LocalKeys,     \* keys of local data, authenticated by nothing
          Wrong,
          NoKey,
          SizeOf,        \* length of the value of a key
          ShardSizes,    \* shard size limits
          MaxReads,      \* bound on the preimages recorded
          MaxRepeats,    \* bound on the reads of one key
          Forgeries      \* sequences of shards that a host may invent

Keys == HashKeys \cup LocalKeys
NoPrev == <<0, 0>>
Entry(k, v, p) == [key |-> k, value |-> v, prev |-> p]
IndexedPreimages == [key : Keys, value : Keys \cup {Wrong}, prev : Nat \X Nat]

\* Keys of the two kinds differ in their type.
ASSUME OracleAssumption ==
  /\ HashKeys \cap LocalKeys = {} /\ NoKey \notin Keys
  /\ SizeOf \in [Keys -> Nat] /\ MaxReads \in Nat
  /\ Forgeries \subseteq Seq(Seq(IndexedPreimages))

VARIABLES honest,        \* the shards are the finalized record
          streamed,      \* the oracle is the streamed one
          phase,         \* "record", "load", "replay" or "panic"
          recorded,      \* preimages saved by the host, oldest first
          preimages,     \* VecOracle.preimages of the guest
          frames,        \* frames of the guest's input that were not read yet
          queue,         \* QUEUE
          want,          \* key that get() is looking for
          cache,         \* LocalOnceOracle.cache
          due,           \* for each key, the reads that the replay still makes
          answers        \* for each key, the values that reads have returned

ovars == <<honest, streamed, phase, recorded, preimages, frames, queue, want, cache,
           due, answers>>

NeedsValidation(k) == k \in HashKeys

ValidatePreimage(k, v) == NeedsValidation(k) => v = k

\* Mutant: an entry may point to itself.
PointsBackOrHere(shards, e, p) ==
  LET x == shards[e][p]
      i == x.prev[1]
      j == x.prev[2] IN
  /\ i < e \/ (i = e /\ j <= p)
  /\ i \in DOMAIN shards /\ j \in DOMAIN shards[i]
  /\ x.key = shards[i][j].key /\ x.value = shards[i][j].value

\* A pointer must lead to an earlier entry with the same key and value.
PointsBack(shards, e, p) ==
  LET x == shards[e][p]
      i == x.prev[1]
      j == x.prev[2] IN
  /\ i < e \/ (i = e /\ j < p)
  /\ i \in DOMAIN shards /\ j \in DOMAIN shards[i]
  /\ x.key = shards[i][j].key /\ x.value = shards[i][j].value

Validate(shards) ==
  \A e \in DOMAIN shards : \A p \in DOMAIN shards[e] :
    LET x == shards[e][p] IN
    NeedsValidation(x.key) =>
      IF x.prev = NoPrev THEN ValidatePreimage(x.key, x.value) ELSE PointsBack(shards, e, p)

-----------------------------------------------------------------------------
\* finalize_preimages: the last read comes first, in shards of limited size.
PlaceNext(acc, x, limit) ==
  IF acc.size > 0 /\ SizeOf[x.key] + acc.size > limit
    THEN [shards |-> Append(acc.shards, <<x>>), size |-> SizeOf[x.key]]
    ELSE [shards |-> [acc.shards EXCEPT ![Len(acc.shards)] = Append(@, x)],
          size |-> acc.size + SizeOf[x.key]]

Place(limit) ==
  LET placed[n \in 0..Len(recorded)] ==
        IF n = 0 THEN [shards |-> << <<>> >>, size |-> 0]
                 ELSE PlaceNext(placed[n - 1], Reverse(recorded)[n], limit)
  IN placed[Len(recorded)].shards

\* The places before (i, j) that hold its key, and the latest of them.
Repeats(shards, i, j) ==
  {q \in (DOMAIN shards) \X (1..MaxReads) :
     /\ q[2] \in DOMAIN shards[q[1]]
     /\ q[1] < i \/ (q[1] = i /\ q[2] < j)
     /\ shards[q[1]][q[2]].key = shards[i][j].key}

Latest(Q) == CHOOSE q \in Q : \A r \in Q : r[1] < q[1] \/ (r[1] = q[1] /\ r[2] <= q[2])

\* A repeated preimage points to its latest occurrence before it.
WithPointers(shards) ==
  [i \in DOMAIN shards |-> [j \in DOMAIN shards[i] |->
     IF NeedsValidation(shards[i][j].key) /\ Repeats(shards, i, j) # {}
       THEN [shards[i][j] EXCEPT !.prev = Latest(Repeats(shards, i, j))]
       ELSE shards[i][j]]]

FinalizePreimages(limit, withPointers) ==
  IF withPointers THEN WithPointers(Place(limit)) ELSE Place(limit)

\* encode_witness_frames: preloaded shards are passed in order, streamed ones from the last.
StreamedFrames(shards) == Reverse(shards)

-----------------------------------------------------------------------------
NoReads == [k \in Keys |-> 0]

\* run_core_client reads local data from the preloaded oracle only.
Readable == IF streamed THEN HashKeys ELSE Keys

OInit ==
  /\ honest \in BOOLEAN /\ streamed \in BOOLEAN
  /\ IF honest
       THEN phase = "record" /\ preimages = <<>> /\ frames = <<>>
       ELSE /\ phase = "load"
            /\ \E s \in Forgeries : IF streamed THEN preimages = <<>> /\ frames = s
                                                ELSE preimages = s /\ frames = <<>>
  /\ recorded = <<>> /\ queue = <<>> /\ want = NoKey
  /\ cache = [k \in {} |-> Wrong]
  /\ due = NoReads
  /\ answers = [k \in Keys |-> {}]

\* The host reads key k: a local key reaches the oracle, and the record, once.
Record(k) ==
  /\ phase = "record" /\ k \in Readable
  /\ Len(recorded) < MaxReads /\ due[k] < MaxRepeats
  /\ due' = [due EXCEPT ![k] = @ + 1]
  /\ recorded' = IF k \in LocalKeys /\ due[k] > 0 THEN recorded
                                                  ELSE Append(recorded, Entry(k, k, NoPrev))
  /\ UNCHANGED <<honest, streamed, phase, preimages, frames, queue, want, cache, answers>>

\* The host finalizes and encodes the witness; only preloaded shards carry pointers.
Encode ==
  /\ phase = "record" /\ recorded # <<>>
  /\ \E limit \in ShardSizes :
       IF streamed
         THEN frames' = StreamedFrames(FinalizePreimages(limit, FALSE)) /\ UNCHANGED preimages
         ELSE preimages' = FinalizePreimages(limit, TRUE) /\ UNCHANGED frames
  /\ phase' = "load"
  /\ UNCHANGED <<honest, streamed, recorded, queue, want, cache, due, answers>>

\* run_stateless_client validates what is preloaded before anything is read.
Load ==
  /\ phase = "load"
  /\ phase' = IF Validate(preimages) THEN "replay" ELSE "panic"
  /\ UNCHANGED <<honest, streamed, recorded, preimages, frames, queue, want, cache, due, answers>>

Answer(k, v) ==
  /\ answers' = [answers EXCEPT ![k] = @ \cup {v}]
  /\ due' = [due EXCEPT ![k] = IF honest THEN @ - 1 ELSE @]

\* LocalOnceOracle.get for a local key that it has seen.
GetCached(k) ==
  /\ phase = "replay" /\ want = NoKey /\ k \in DOMAIN cache
  /\ honest => due[k] > 0
  /\ Answer(k, cache[k])
  /\ UNCHANGED <<honest, streamed, phase, recorded, preimages, frames, queue, want, cache>>

\* get: the search for key k begins.
Seek(k) ==
  /\ phase = "replay" /\ want = NoKey /\ k \in Readable \ DOMAIN cache
  /\ honest => due[k] > 0
  /\ want' = k
  /\ UNCHANGED <<honest, streamed, phase, recorded, preimages, frames, queue, cache, due, answers>>

\* Nothing is left in memory: the next frame is read as a shard and validated.
ReadShard ==
  /\ want # NoKey /\ preimages = <<>> /\ phase = "replay"
  /\ IF frames # <<>> /\ Validate(<<Head(frames)>>)
       THEN preimages' = <<Head(frames)>> /\ frames' = Tail(frames) /\ UNCHANGED phase
       ELSE phase' = "panic" /\ UNCHANGED <<preimages, frames>>
  /\ UNCHANGED <<honest, streamed, recorded, queue, want, cache, due, answers>>

LastShard == preimages[Len(preimages)]

\* LocalOnceOracle.get: the value of a local key is kept.
Remembered(k, v) == [l \in DOMAIN cache \cup {k} |-> IF l = k THEN v ELSE cache[l]]

\* Mutant: the entries set aside stay aside.
PopMatchAlone ==
  /\ want # NoKey /\ preimages # <<>> /\ LastShard # <<>>
  /\ LET x == Last(LastShard) IN
     /\ x.key = want
     /\ preimages' = [preimages EXCEPT ![Len(preimages)] = Front(@)]
     /\ Answer(want, x.value)
     /\ cache' = IF want \in LocalKeys THEN Remembered(want, x.value) ELSE cache
  /\ want' = NoKey
  /\ UNCHANGED <<honest, streamed, phase, recorded, frames, queue>>

\* The last entry is the one: the entries set aside go back on top of its shard.
PopMatch ==
  /\ want # NoKey /\ preimages # <<>> /\ LastShard # <<>>
  /\ LET x == Last(LastShard) IN
     /\ x.key = want
     /\ preimages' = [preimages EXCEPT ![Len(preimages)] = Front(@) \o queue]
     /\ Answer(want, x.value)
     /\ cache' = IF want \in LocalKeys THEN Remembered(want, x.value) ELSE cache
  /\ queue' = <<>> /\ want' = NoKey
  /\ UNCHANGED <<honest, streamed, phase, recorded, frames>>

\* The last entry is another one: it is set aside, without its pointer.
PopOther ==
  /\ want # NoKey /\ preimages # <<>> /\ LastShard # <<>>
  /\ LET x == Last(LastShard) IN
     /\ x.key # want
     /\ queue' = <<[x EXCEPT !.prev = NoPrev]>> \o queue
  /\ preimages' = [preimages EXCEPT ![Len(preimages)] = Front(@)]
  /\ UNCHANGED <<honest, streamed, phase, recorded, frames, want, cache, due, answers>>

\* The shard is exhausted.
DropShard ==
  /\ want # NoKey /\ preimages # <<>> /\ LastShard = <<>>
  /\ preimages' = Front(preimages)
  /\ UNCHANGED <<honest, streamed, phase, recorded, frames, queue, want, cache, due, answers>>

ONext ==
  \/ Encode \/ Load \/ ReadShard \/ PopMatch \/ PopOther \/ DropShard
  \/ \E k \in Keys : Record(k) \/ GetCached(k) \/ Seek(k)

OSpec == OInit /\ [][ONext]_ovars

-----------------------------------------------------------------------------
(* PROPERTIES *)

\* Whatever shards the host passes, with or without pointers, preloaded or streamed: a
\* read by hash returns the committed preimage, also when the entry was validated by its
\* pointer only, set aside or moved between shards, and a local key has one value for the
\* whole run (VecOracle::validate, VecOracle::get, LocalOnceOracle::get).
AnswersAreBinding ==
  \A k \in Keys : /\ k \in HashKeys => answers[k] \subseteq {k}
                  /\ Cardinality(answers[k]) <= 1

\* A run that makes the recorded reads in any other order finds every preimage: get()
\* never exhausts the shards, leaves nothing aside between reads, and when the last read
\* is done the stream was read to its end (the frames that follow hold the receipts).
ReplayServesAll ==
  honest => /\ phase # "panic"
            /\ want = NoKey => queue = <<>>
            /\ (phase = "replay" /\ want = NoKey /\ due = NoReads) => frames = <<>>

-----------------------------------------------------------------------------
(***************************************************************************)
(* The inductive invariant behind AnswersAreBinding: see GuestProofs.      *)
(***************************************************************************)

RightShard(s) == \A p \in DOMAIN s : ValidatePreimage(s[p].key, s[p].value)
Right(shards) == \A e \in DOMAIN shards : RightShard(shards[e])

\* The answers a so far: to a hash the preimage, to a local key what the cache c holds.
Binding(c, a) ==
  /\ c = [k \in DOMAIN c |-> c[k]] /\ DOMAIN c \subseteq LocalKeys
  /\ a = [k \in Keys |-> a[k]]
  /\ \A k \in HashKeys : a[k] \subseteq {k}
  /\ \A k \in LocalKeys : a[k] = IF k \in DOMAIN c THEN {c[k]} ELSE {}

\* What can be popped was validated.
OracleInv ==
  /\ recorded \in Seq(IndexedPreimages) /\ queue \in Seq(IndexedPreimages)
  /\ preimages \in Seq(Seq(IndexedPreimages)) /\ frames \in Seq(Seq(IndexedPreimages))
  /\ want \in Keys \cup {NoKey} /\ want \notin DOMAIN cache
  /\ want # NoKey => phase \in {"replay", "panic"}
  /\ phase = "replay" \/ want # NoKey => Right(preimages)
  /\ RightShard(queue)
  /\ Binding(cache, answers)

-----------------------------------------------------------------------------
(***************************************************************************)
(* The inductive invariant behind ReplayServesAll: see GuestProofs.        *)
(***************************************************************************)

\* The places of key k in a shard, and in all of them.
InShard(s, k) == {p \in DOMAIN s : s[p].key = k}
InShards(shards, k) == UNION {{e} \X InShard(shards[e], k) : e \in DOMAIN shards}

\* The entries that the reads to come take: a local key needs one for all its reads.
Owed(k) == IF k \in HashKeys THEN due[k]
           ELSE IF k \in DOMAIN cache \/ due[k] = 0 THEN 0 ELSE 1

Left(k) == Cardinality(InShards(preimages, k)) + Cardinality(InShards(frames, k))
           + Cardinality(InShard(queue, k))

\* As recorded.
Genuine(s) == \A p \in DOMAIN s : s[p].value = s[p].key /\ s[p].prev = NoPrev

ReplayInv ==
  honest =>
    /\ phase \in {"record", "load", "replay"} /\ due \in [Keys -> Nat]
    /\ phase # "replay" => queue = <<>> /\ want = NoKey /\ DOMAIN cache = {}
    /\ phase = "record" =>
         /\ preimages = <<>> /\ frames = <<>> /\ Genuine(recorded)
         /\ \A k \in Keys : Owed(k) = Cardinality(InShard(recorded, k))
    /\ phase = "load" => Validate(preimages)
    /\ phase # "record" => \A k \in Keys : Owed(k) = Left(k)
    /\ \A e \in DOMAIN frames : frames[e] # <<>> /\ Genuine(frames[e])
    /\ IF want = NoKey THEN queue = <<>> ELSE due[want] > 0 /\ InShard(queue, want) = {}
=============================================================================
