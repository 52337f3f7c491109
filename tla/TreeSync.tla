------------------------------ MODULE TreeSync ------------------------------
(***************************************************************************)
(* The contract's tree and a client's copy of it. The contract inserts     *)
(* pairs and emits each leaf with its index; the client appends the leaves *)
(* one at a time, in index order, as far behind as its last scan.          *)
(***************************************************************************)
EXTENDS MerkleTreeWithHistory

VARIABLE layers

Client == INSTANCE MerkleTree WITH zeroValue <- ZERO_VALUE

syncVars == <<vars, layers>>

SyncInit == Init /\ Client!Init

ContractInserts ==
  \E leaf1 \in Leaf, leaf2 \in Leaf \cup {ZERO_VALUE} :
    insert(leaf1, leaf2) /\ UNCHANGED layers

ClientAppends ==
  /\ Client!size < nextIndex
  /\ Client!insert(leaves[Client!size + 1])
  /\ UNCHANGED vars

SyncNext == ContractInserts \/ ClientAppends

SyncSpec == SyncInit /\ [][SyncNext]_syncVars

(* A client that has appended the leaves of the newest pair has the        *)
(* contract's newest root: two algorithms, frontier and layer cache, pairs *)
(* and single leaves, agree on every tree (client/src/tree.ts:1-5).        *)
CaughtUpRootsAgree ==
  Client!size = nextIndex => Client!root = roots[currentRootIndex]

(* However far behind it is, a client at a pair boundary holds a root the  *)
(* contract accepts exactly when it trails by fewer insertions than the    *)
(* ring has slots.                                                         *)
LaggingRootAccepted ==
  Client!size % 2 = 0 =>
    (isKnownRoot(Client!root)
       <=> (nextIndex - Client!size) \div 2 < ROOT_HISTORY_SIZE)

(* Every path the client hands to the prover leads, by the circuit's check,*)
(* from its leaf to the client's root: also from an odd number of leaves.  *)
PathsVerify ==
  \A i \in 0 .. Client!size - 1 :
    Client!MerkleProof(layers[0][i + 1], i, Client!path(i)) = Client!root
=============================================================================
