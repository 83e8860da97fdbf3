-------------------------- MODULE KailuaTournament --------------------------
(***************************************************************************)
(* The proposal tree: every game is a tournament among the proposals that  *)
(* extend it.  A proposal is known to its tournament by its signature, the *)
(* hash of its output root and blob hashes; whether a signature is correct *)
(* is relative to the tournament, so one constant ValidSig names the       *)
(* correct one in each.                                                    *)
(***************************************************************************)
EXTENDS KailuaTreasury, PruneChildren, Sequences

CONSTANTS
  Sigs,          \* signatures: (root claim, blob hashes) pairs
  NoSig,         \* the zero signature
  ValidSig,      \* the signature of the correct extension of a proposal
  OutputFaulty,  \* signatures with a wrong output root
  TrailFaulty,   \* signatures with non-zero data after the last output
  ClaimOf        \* the root claim of a signature

ASSUME TournamentAssumption ==
  /\ ValidSig \in Sigs /\ NoSig \notin Sigs
  /\ OutputFaulty \subseteq Sigs /\ TrailFaulty \subseteq Sigs
  /\ Sigs \ {ValidSig} = OutputFaulty \cup TrailFaulty

VARIABLES
  gameCount,            \* games the factory has created
  parent,               \* parentGame
  sig,                  \* signature of the game
  dup,                  \* duplicationCounter
  height,               \* l2BlockNumber, in proposals above the root
  createdAt,
  resolved,             \* the games whose status is DEFENDER_WINS
  children,             \* children[t], the array
  contenderIndex, opponentIndex,
  contenderDuplicates,  \* the positions in the array, a set (see PruneChildren)
  validChildSignature,
  proofStatus,          \* proofStatus[t][s]
  prover                \* prover[t][s]

gameVars == <<gameCount, parent, sig, dup, height, createdAt>>
pruneVars == <<contenderIndex, opponentIndex, contenderDuplicates>>
proofVars == <<validChildSignature, proofStatus, prover>>
tournamentVars == <<gameVars, resolved, children, pruneVars, proofVars>>

TournamentTypeOK ==
  /\ gameCount \in 1..MaxGames
  /\ parent \in [Games -> Games]
  /\ sig \in [Games -> Sigs \cup {NoSig}]
  /\ dup \in [Games -> Nat]
  /\ height \in [Games -> Nat]
  /\ createdAt \in [Games -> Nat]
  /\ resolved \in SUBSET Games
  /\ children \in [Games -> Seq(Games)]
  /\ contenderIndex \in [Games -> Nat]
  /\ opponentIndex \in [Games -> Nat]
  /\ contenderDuplicates \in [Games -> SUBSET Nat]
  /\ validChildSignature \in [Games -> Sigs \cup {NoSig}]
  /\ proofStatus \in [Games -> [Sigs -> {"NONE", "FAULT", "VALIDITY"}]]
  /\ prover \in [Games -> [Sigs -> Accounts \cup {NoAccount}]]

\* Only the treasury's instance exists, at the time it was deployed.
TournamentInit(time) ==
  /\ gameCount = 1
  /\ parent = [g \in Games |-> Root]
  /\ sig = [g \in Games |-> NoSig]
  /\ dup = [g \in Games |-> 0]
  /\ height = [g \in Games |-> 0]
  /\ createdAt = [g \in Games |-> IF g = Root THEN time ELSE 0]
  /\ resolved = {}
  /\ children = [g \in Games |-> <<>>]
  /\ contenderIndex = [g \in Games |-> 0]
  /\ opponentIndex = [g \in Games |-> 0]
  /\ contenderDuplicates = [g \in Games |-> {}]
  /\ validChildSignature = [g \in Games |-> NoSig]
  /\ proofStatus = [g \in Games |-> [s \in Sigs |-> "NONE"]]
  /\ prover = [g \in Games |-> [s \in Sigs |-> NoAccount]]

\* children[i], with the array's own positions 0..length-1.
Child(t, i) == children[t][i + 1]
ChildCount(t) == Len(children[t])
Positions(t) == 0..(ChildCount(t) - 1)

\* contenderIndex < children.length && children[contenderIndex] is resolved
ContenderResolved(t) ==
  contenderIndex[t] < ChildCount(t) /\ Child(t, contenderIndex[t]) \in resolved

IsViableSignature(t, s) ==
  IF validChildSignature[t] # NoSig THEN s = validChildSignature[t]
  ELSE proofStatus[t][s] # "FAULT"

GetPayoutRecipient(t, s) ==
  IF prover[t][s] # NoAccount THEN prover[t][s]
  ELSE IF validChildSignature[t] # NoSig THEN prover[t][validChildSignature[t]]
  ELSE NoAccount

(***************************************************************************)
(* Proofs.  The verifier accepts a validity proof only of the correct      *)
(* signature and an output fault proof only of one with a wrong output;    *)
(* a trail fault is read off the blob itself.                              *)
(***************************************************************************)
UpdateProofStatus(t, s, q, outcome) ==
  /\ proofStatus[t][s] = "NONE"
  /\ proofStatus' = [proofStatus EXCEPT ![t][s] = outcome]
  /\ prover' = [prover EXCEPT ![t][s] = q]

\* Mutant: proofs are accepted after the tournament is decided.
ProvableAfterDecision(t, g) == g \notin resolved

\* The checks on the disputed child that the three proving functions share.
Provable(t, g) == g \notin resolved /\ ~ContenderResolved(t)

ProveValidity(t, i, q) ==
  /\ Provable(t, Child(t, i))
  /\ sig[Child(t, i)] = ValidSig
  /\ validChildSignature' = [validChildSignature EXCEPT ![t] = sig[Child(t, i)]]
  /\ UpdateProofStatus(t, sig[Child(t, i)], q, "VALIDITY")
  /\ UNCHANGED <<gameVars, resolved, children, pruneVars>>

ProveOutputFault(t, i, q) ==
  /\ Provable(t, Child(t, i))
  /\ sig[Child(t, i)] \in OutputFaulty
  /\ UpdateProofStatus(t, sig[Child(t, i)], q, "FAULT")
  /\ UNCHANGED <<gameVars, resolved, children, pruneVars, validChildSignature>>

ProveTrailFault(t, i, q) ==
  /\ Provable(t, Child(t, i))
  /\ sig[Child(t, i)] \in TrailFaulty
  /\ UpdateProofStatus(t, sig[Child(t, i)], q, "FAULT")
  /\ UNCHANGED <<gameVars, resolved, children, pruneVars, validChildSignature>>

(***************************************************************************)
(* pruneChildren(k) of tournament t returns the child ret (NoGame for the  *)
(* null address).  PruneChildren.tla has the algorithm; here is the        *)
(* tournament it runs on and what it writes.                               *)
(***************************************************************************)
Tournament(t) ==
  [n |-> ChildCount(t),
   sig |-> [i \in Positions(t) |-> sig[Child(t, i)]],
   viable |-> [i \in Positions(t) |-> IsViableSignature(t, sig[Child(t, i)])],
   out |-> [i \in Positions(t) |-> IsChildEliminated(Child(t, i))],
   created |-> [i \in Positions(t) |-> createdAt[Child(t, i)]],
   settled |-> ContenderResolved(t),
   ci |-> contenderIndex[t],
   oi |-> opponentIndex[t],
   dups |-> contenderDuplicates[t]]

Prune(t, k, ret) ==
  /\ t \in resolved
  /\ ChildCount(t) > 0
  /\ \E o \in Outcomes(Tournament(t), k) :
       /\ ret = IF o.ret = NoChild THEN NoGame ELSE Child(t, o.ret)
       /\ contenderIndex' = [contenderIndex EXCEPT ![t] = o.ci]
       /\ opponentIndex' = [opponentIndex EXCEPT ![t] = o.oi]
       /\ contenderDuplicates' = [contenderDuplicates EXCEPT ![t] = o.dups]
       /\ LET E == {Child(t, i) : i \in o.elim}
          IN Eliminate(E, [g \in E |-> GetPayoutRecipient(t, sig[g])])

(***************************************************************************)
(* The factory creates game g, a proposal of signature s with duplication  *)
(* counter d on t, and initialize() registers it with its parent.          *)
(***************************************************************************)
UuidExists(t, s, d) ==
  \E g \in Games : /\ g # Root /\ g < gameCount
                   /\ parent[g] = t /\ ClaimOf[sig[g]] = ClaimOf[s] /\ dup[g] = d

Initialize(g, t, s, d, time) ==
  /\ ~UuidExists(t, s, d)
  /\ d > 0 => UuidExists(t, s, d - 1)
  /\ IsViableSignature(t, s)
  /\ ~ContenderResolved(t)
  /\ gameCount' = gameCount + 1
  /\ parent' = [parent EXCEPT ![g] = t]
  /\ sig' = [sig EXCEPT ![g] = s]
  /\ dup' = [dup EXCEPT ![g] = d]
  /\ height' = [height EXCEPT ![g] = height[t] + 1]
  /\ createdAt' = [createdAt EXCEPT ![g] = time]
  /\ children' = [children EXCEPT ![t] = Append(@, g)]
  /\ UNCHANGED <<resolved, pruneVars, proofVars>>
=============================================================================
