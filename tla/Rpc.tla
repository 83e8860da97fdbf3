-------------------------------- MODULE Rpc --------------------------------
(***************************************************************************)
(* The RPC server: a task that feeds the canonical proposals of each       *)
(* sync() into a cache, and handlers that answer queries from it at any    *)
(* time.  A withdrawal is proven against the game that a handler names.    *)
(***************************************************************************)
EXTENDS SyncSafety

VARIABLE served  \* KailuaServerCache: L2 heights to games

rpcVars == <<syncVars, served>>

RpcInit == SyncInit /\ served = [h \in {} |-> None]

\* Mutant: non-canonical proposals are tracked too.
TrackedAll(new) == new

\* "Ignore non-canonical proposals that will never be resolved"
Tracked(new) == {i \in new : proposals[i].canonical}

\* "Send new entries to cache": of two at one height the later one stays.
Extend(new) ==
  [h \in DOMAIN served \cup {Block(i) : i \in new} |->
     IF \E i \in new : Block(i) = h THEN Max({i \in new : Block(i) = h}) ELSE served[h]]

\* handle_sync: a step of sync(), and the cache extended when it returns its proposals.
HandleSync ==
  /\ AgentStep
  /\ served' = IF pc = "resolve" /\ ~CanFollow THEN Extend(Tracked(Returned)) ELSE served

\* game_address_for_block_by_number
GameAddressFor(number) ==
  LET heights == {h \in DOMAIN served : h >= number}
  IN IF heights = {} THEN None ELSE served[Min(heights)]

RpcCrash == Crash /\ served' = [h \in {} |-> None]

RpcNext ==
  \/ HandleSync \/ RpcCrash
  \/ Environment /\ UNCHANGED served

RpcSpec == RpcInit /\ [][RpcNext]_rpcVars

-----------------------------------------------------------------------------
\* A game that game_address_for_block_by_number names covers the block, is correct, and
\* never loses its tournament, so that a withdrawal proven against it can be finalized:
\* whatever is proposed, eliminated and resolved since it was cached, also when the agent
\* has freed the proposal long ago.
AnswersBecomeFinal ==
  \A number \in 0..MaxSafe : LET g == GameAddressFor(number) IN
    g # None => /\ Block(g) >= number /\ games[g].good
                /\ g # Root /\ Decided(games[g].parent) => g \in resolved
-----------------------------------------------------------------------------
\* The inductive invariant behind it: what is served stays on the chain of games that the
\* agent follows, or that are resolved.
ServedInv ==
  /\ pc = "off" => DOMAIN served = {}
  /\ \A h \in DOMAIN served :
       /\ h \in Nat /\ served[h] \in Indices /\ Block(served[h]) = h
       /\ games[served[h]].ours /\ games[served[h]].good
       /\ served[h] \in Followed \cup resolved
=============================================================================
