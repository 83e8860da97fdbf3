------------------------------ MODULE MCGuest ------------------------------
(***************************************************************************)
(* Instances of the proving program for TLC: its oracle, its client, and   *)
(* the proofs it is asked for.  A behaviour is one of the three.           *)
(***************************************************************************)
EXTENDS WitnessOracle, FaultProof

CONSTANTS key1, key2, local1

MCSizes == (key1 :> 2) @@ (key2 :> 1) @@ (local1 :> 1)

\* Up to three entries in up to two shards, right or wrong, with any pointers.
Pointers == {NoPrev} \cup ({1, 2} \X {1, 2, 3})
HashEntries == {Entry(k, v, p) : k \in HashKeys, v \in HashKeys \cup {Wrong}, p \in Pointers}
Entries == {e \in HashEntries : e.value \in {e.key, Wrong}}
           \cup {Entry(local1, v, NoPrev) : v \in {local1, Wrong}}
OfOne == {e \in Entries : e.key = key1}
MCForgeries == {<<s>> : s \in SeqOf(Entries, 2)}
               \cup {<<s, t>> : s \in SeqOf(Entries, 1), t \in SeqOf(Entries, 1)}
               \cup {<<s, t>> : s \in {q \in SeqOf(OfOne, 2) : Len(q) = 2}, t \in SeqOf(OfOne, 1)}

Boots(l1s, agreeds, numbers, configs) ==
  [l1 : l1s, agreed : agreeds, number : numbers, config : configs]

\* Cached executions: traces with any attributes, and derivations that use them.
Caching ==
  [boots |-> Boots({NoHead}, {Genesis, Root(1, Absent)}, {1, 2}, {Absent, Sentinel})
             \cup Boots({2}, {Genesis}, {2}, {Absent, Sentinel}),
   attributes |-> Attributes, proposal |-> NoProposal, caching |-> TRUE, proofs |-> 3]

\* Stitching: derivations from any output, with two L1 heads.
Stitching ==
  [boots |-> Boots({1, 2}, {Genesis, Root(1, Absent), Root(1, Given), Root(2, Absent)}, {0, 1, 2},
                   {Absent, Given}),
   attributes |-> {}, proposal |-> NoProposal, caching |-> FALSE, proofs |-> 3]

\* Proposals: the outputs of each field right, wrong or zero, in blobs of two fields.
Fields == {0, HashToFe(Root(1, Absent)), HashToFe(Root(2, Absent)), HashToFe(Root(3, Absent))}
Blobs == [1..FieldsPerBlob -> Fields]
Proposals == [head : {0}, count : {2}, span : {2}, blobs : SeqOf(Blobs, 1)]
             \cup [head : {0, 1}, count : {3}, span : {1}, blobs : {s \in SeqOf(Blobs, 2) : s # <<>>}]
             \cup [head : {0}, count : {4}, span : {1}, blobs : {s \in SeqOf(Blobs, 2) : s # <<>>}]
             \cup [head : {0}, count : {1}, span : {3}, blobs : {<<>>}]

Proposing(p) ==
  [boots |-> Boots({4}, {Genesis} \cup {Root(n, Absent) : n \in 1..3}, 0..4, {Absent}),
   attributes |-> {}, proposal |-> p, caching |-> FALSE, proofs |-> 2]

MCHosts == {Caching, Stitching} \cup {Proposing(p) : p \in Proposals}

\* Disputes: one output, one blob, one full blob, and two blobs.
MCShapes == [head : {0}, count : {1}, span : {2}] \cup [head : {0, 1}, count : {2}, span : {1}]
            \cup [head : {0}, count : {3}, span : {1}] \cup [head : {0}, count : {4}, span : {1}]
MCElements == {0} \cup {HashToFe(Root(n, Absent)) : n \in 1..3} \cup {HashToFe(Root(2, Given))}
MCClaims == {Root(n, Absent) : n \in 1..4} \cup {Root(2, Given)}

OracleOff == /\ honest = TRUE /\ streamed = TRUE /\ phase = "off"
             /\ recorded = <<>> /\ preimages = <<>> /\ frames = <<>> /\ queue = <<>>
             /\ want = NoKey /\ cache = <<>> /\ due = NoReads
             /\ answers = [k \in Keys |-> {}]

ClientOff == host = Caching /\ proven = {} /\ run = [pc |-> "off"]
DisputeOff == game = <<>> /\ job = [pc |-> "off"] /\ status = "off"

GuestVars == <<ovars, clientVars, disputeVars>>

GuestInit ==
  \/ OInit /\ ClientOff /\ DisputeOff
  \/ ClientInit /\ OracleOff /\ DisputeOff
  \/ DisputeInit /\ OracleOff /\ ClientOff

GuestNext ==
  \/ ONext /\ UNCHANGED <<clientVars, disputeVars>>
  \/ ClientNext /\ UNCHANGED <<ovars, disputeVars>>
  \/ DisputeNext /\ UNCHANGED <<ovars, clientVars>>

GuestSpec == GuestInit /\ [][GuestNext]_GuestVars
=============================================================================
