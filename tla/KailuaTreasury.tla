--------------------------- MODULE KailuaTreasury ---------------------------
(***************************************************************************)
(* The treasury contract: who proposed which game, the bond each proposer  *)
(* has locked, who was eliminated, and to whom an eliminated bond is owed. *)
(* Games are named by their index in the DisputeGameFactory; game 0 is the *)
(* treasury's own instance, the root of the proposal tree.                 *)
(***************************************************************************)
EXTENDS Integers, FiniteSets

CONSTANTS
  Accounts,     \* the addresses that act: proposers, provers, the factory owner
  Owner,        \* DISPUTE_GAME_FACTORY.owner(), who also proposed the root
  NoAccount,    \* address(0)
  MaxGames,     \* bound on the number of games ever created
  Deposits,     \* values msg.value can have in propose
  BondAmounts,  \* values the owner may set participationBond to
  InitialBond,  \* participationBond as the deployment set it
  Vanguards,    \* addresses the owner may assign as vanguard
  Advantages    \* vanguardAdvantage values the owner may assign

ASSUME TreasuryAssumption ==
  /\ IsFiniteSet(Accounts) /\ Owner \in Accounts /\ NoAccount \notin Accounts
  /\ MaxGames \in Nat \ {0}
  /\ Deposits \subseteq Nat /\ BondAmounts \subseteq Nat /\ InitialBond \in Nat
  /\ Vanguards \subseteq Accounts \cup {NoAccount} /\ Advantages \subseteq Nat

VARIABLES
  proposerOf,         \* proposerOf[g]: NoAccount until g is recorded
  eliminationRound,   \* the game index a proposer was eliminated at, 0 if never
  eliminations,       \* eliminations[q]: the proposers q is owed or was paid for
  eliminationsPaid,   \* eliminationsPaid[q]: those of them already paid out
  paidBonds,          \* the collateral each proposer has locked
  participationBond,
  lastProposal,       \* lastProposal[a]: a game, or NoGame
  lastResolved,       \* the game that resolved last
  vanguard, vanguardAdvantage,
  balance,            \* the ETH the treasury contract holds
  isLocked            \* a claim is transferring ETH: control is with its recipient

treasuryVars ==
  <<proposerOf, eliminationRound, eliminations, eliminationsPaid, paidBonds,
    participationBond, lastProposal, lastResolved, vanguard, vanguardAdvantage,
    balance, isLocked>>

Games == 0..(MaxGames - 1)
Root == 0
NoGame == -1

\* The type of balance is left to BondsBacked, which says what it equals.
TreasuryTypeOK ==
  /\ proposerOf \in [Games -> Accounts \cup {NoAccount}]
  /\ eliminationRound \in [Accounts -> Games]
  /\ eliminations \in [Accounts \cup {NoAccount} -> SUBSET Accounts]
  /\ eliminationsPaid \in [Accounts \cup {NoAccount} -> SUBSET Accounts]
  /\ paidBonds \in [Accounts -> Nat]
  /\ participationBond \in Nat
  /\ lastProposal \in [Accounts -> Games \cup {NoGame}]
  /\ lastResolved \in Games \cup {NoGame}
  /\ vanguard \in Accounts \cup {NoAccount}
  /\ vanguardAdvantage \in Nat
  /\ isLocked \in BOOLEAN

\* The treasury after deployment: the owner has proposed the root instance.
TreasuryInit ==
  /\ proposerOf = [g \in Games |-> IF g = Root THEN Owner ELSE NoAccount]
  /\ eliminationRound = [a \in Accounts |-> 0]
  /\ eliminations = [q \in Accounts \cup {NoAccount} |-> {}]
  /\ eliminationsPaid = [q \in Accounts \cup {NoAccount} |-> {}]
  /\ paidBonds = [a \in Accounts |-> 0]
  /\ participationBond = InitialBond
  /\ lastProposal = [a \in Accounts |-> IF a = Owner THEN Root ELSE NoGame]
  /\ lastResolved = NoGame
  /\ vanguard = NoAccount /\ vanguardAdvantage = 0
  /\ balance = 0
  /\ isLocked = FALSE

\* Mutant: a proposer eliminated at any time counts as eliminated at every game.
EliminatedAtAnyRound(g) ==
  proposerOf[g] # NoAccount /\ eliminationRound[proposerOf[g]] # 0

\* isChildEliminated: the proposer was eliminated at or before this game.
IsChildEliminated(g) ==
  /\ proposerOf[g] # NoAccount
  /\ eliminationRound[proposerOf[g]] # 0
  /\ eliminationRound[proposerOf[g]] <= g

(***************************************************************************)
(* eliminate(child, prover) for every child of the set E, as one call of   *)
(* pruneChildren makes them, with payee[g] the prover passed for g.  The   *)
(* calls come from the children's parent.  One for a proposer that is      *)
(* already eliminated reverts, and pruneChildren with it.                  *)
(***************************************************************************)
CanEliminate(E) ==
  \A g \in E : proposerOf[g] # NoAccount /\ eliminationRound[proposerOf[g]] = 0

Eliminate(E, payee) ==
  /\ CanEliminate(E)
  /\ eliminationRound' =
       [a \in Accounts |-> IF \E g \in E : proposerOf[g] = a
                           THEN CHOOSE g \in E : proposerOf[g] = a
                           ELSE eliminationRound[a]]
  /\ eliminations' =
       [q \in Accounts \cup {NoAccount} |->
          eliminations[q] \cup {proposerOf[g] : g \in {h \in E : payee[h] = q}}]

(***************************************************************************)
(* claimEliminationBonds: q collects the bonds of some of the proposers it *)
(* eliminated and was not paid for yet (the argument claims says how many; *)
(* the order of the list is abstracted).  The ETH leaves in a call to q,   *)
(* which may call back into anything but the two claim functions until     *)
(* PayReturns.                                                             *)
(***************************************************************************)
SumOver(bonds, S) ==
  LET sum[X \in SUBSET S] ==
        IF X = {} THEN 0
        ELSE LET a == CHOOSE x \in X : TRUE IN bonds[a] + sum[X \ {a}]
  IN sum[S]

SumBonds(S) == SumOver(paidBonds, S)

ClaimEliminationBonds(q) ==
  /\ ~isLocked
  /\ \E S \in (SUBSET (eliminations[q] \ eliminationsPaid[q])) \ {{}} :
       /\ eliminationsPaid' = [eliminationsPaid EXCEPT ![q] = @ \cup S]
       /\ paidBonds' = [a \in Accounts |-> IF a \in S THEN 0 ELSE paidBonds[a]]
       /\ balance' = balance - SumBonds(S)
       /\ isLocked' = (\E a \in S : paidBonds[a] > 0)
  /\ UNCHANGED <<proposerOf, eliminationRound, eliminations, participationBond,
                 lastProposal, lastResolved, vanguard, vanguardAdvantage>>

\* Mutants: the bond is paid to an eliminated proposer; without clearing its record.
ClaimWhenEliminated(a, noPending) ==
  /\ ~isLocked
  /\ noPending
  /\ paidBonds[a] > 0
  /\ paidBonds' = [paidBonds EXCEPT ![a] = 0]
  /\ balance' = balance - paidBonds[a]
  /\ isLocked' = TRUE
  /\ UNCHANGED <<proposerOf, eliminationRound, eliminations, eliminationsPaid,
                 participationBond, lastProposal, lastResolved, vanguard,
                 vanguardAdvantage>>

ClaimWithoutClearing(a, noPending) ==
  /\ ~isLocked
  /\ eliminationRound[a] = 0
  /\ noPending
  /\ paidBonds[a] > 0
  /\ balance' = balance - paidBonds[a]
  /\ isLocked' = TRUE
  /\ UNCHANGED <<proposerOf, eliminationRound, eliminations, eliminationsPaid, paidBonds,
                 participationBond, lastProposal, lastResolved, vanguard,
                 vanguardAdvantage>>

\* claimProposerBond, once no proposal of a is pending (noPending).
ClaimProposerBond(a, noPending) ==
  /\ ~isLocked
  /\ eliminationRound[a] = 0
  /\ noPending
  /\ paidBonds[a] > 0
  /\ paidBonds' = [paidBonds EXCEPT ![a] = 0]
  /\ balance' = balance - paidBonds[a]
  /\ isLocked' = TRUE
  /\ UNCHANGED <<proposerOf, eliminationRound, eliminations, eliminationsPaid,
                 participationBond, lastProposal, lastResolved, vanguard,
                 vanguardAdvantage>>

\* The recipient's call returns and the nonReentrant modifier unlocks.
PayReturns ==
  /\ isLocked
  /\ isLocked' = FALSE
  /\ UNCHANGED <<proposerOf, eliminationRound, eliminations, eliminationsPaid, paidBonds,
                 participationBond, lastProposal, lastResolved, vanguard,
                 vanguardAdvantage, balance>>

\* setParticipationBond, by the factory owner.
SetParticipationBond(amount) ==
  /\ participationBond' = amount
  /\ UNCHANGED <<proposerOf, eliminationRound, eliminations, eliminationsPaid, paidBonds,
                 lastProposal, lastResolved, vanguard, vanguardAdvantage, balance,
                 isLocked>>

\* assignVanguard, by the factory owner.
AssignVanguard(a, advantage) ==
  /\ vanguard' = a
  /\ vanguardAdvantage' = advantage
  /\ UNCHANGED <<proposerOf, eliminationRound, eliminations, eliminationsPaid, paidBonds,
                 participationBond, lastProposal, lastResolved, balance, isLocked>>

(***************************************************************************)
(* The treasury's part of propose: check the proposer and its bond, take   *)
(* the deposit, and record the game g that the factory created.            *)
(***************************************************************************)
RecordProposal(a, g, deposit) ==
  /\ eliminationRound[a] = 0
  /\ paidBonds[a] + deposit >= participationBond
  /\ paidBonds' = [paidBonds EXCEPT ![a] = @ + deposit]
  /\ balance' = balance + deposit
  /\ proposerOf' = [proposerOf EXCEPT ![g] = a]
  /\ lastProposal' = [lastProposal EXCEPT ![a] = g]
  /\ UNCHANGED <<eliminationRound, eliminations, eliminationsPaid, participationBond,
                 lastResolved, vanguard, vanguardAdvantage, isLocked>>
=============================================================================
