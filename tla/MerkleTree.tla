----------------------------- MODULE MerkleTree -----------------------------
(***************************************************************************)
(* The client's Merkle tree (client/src/tree.ts), which every wallet, the  *)
(* ASP approver and the agent rebuild from events, and the path check of   *)
(* the circuit (circuits/merkleTree.circom) its paths are made for.        *)
(***************************************************************************)
EXTENDS Integers, Sequences

CONSTANTS levels, zeroValue

VARIABLE layers   \* layers[0]: the leaves; layers[k]: the nodes of height k

poseidon2(left, right) == <<left, right>>

zeros[i \in 0 .. levels - 1] ==
  IF i = 0 THEN zeroValue ELSE poseidon2(zeros[i - 1], zeros[i - 1])

Init == layers = [level \in 0 .. levels |-> << >>]

size == Len(layers[0])

(* layer[i] ?? zeros[level]                                                *)
NodeOr0(layer, i, level) == IF i < Len(layer) THEN layer[i + 1] ELSE zeros[level]

(* layer[i] = node, on a layer that has all its nodes before i.            *)
Store(layer, i, node) ==
  IF i < Len(layer) THEN [layer EXCEPT ![i + 1] = node] ELSE Append(layer, node)

ParentIndex(leafIndex, level) == leafIndex \div 2 ^ level

(* insert and rebuildFrom: append the leaf, rehash the path above it.      *)
insert(leaf) ==
  LET rebuilt[level \in 0 .. levels] ==
        IF level = 0
        THEN Append(layers[0], leaf)
        ELSE LET p == ParentIndex(size, level)
             IN  Store(layers[level], p,
                       poseidon2(NodeOr0(rebuilt[level - 1], 2 * p, level - 1),
                                 NodeOr0(rebuilt[level - 1], 2 * p + 1, level - 1)))
  IN  layers' = [level \in 0 .. levels |-> rebuilt[level]]

root ==
  IF layers[levels] # << >>
  THEN layers[levels][1]
  ELSE poseidon2(zeros[levels - 1], zeros[levels - 1])

Sibling_Right(i) == i + 1

Sibling(i) == IF i % 2 = 0 THEN i + 1 ELSE i - 1    \* idx ^ 1

path(index) ==
  [level \in 0 .. levels - 1 |->
     NodeOr0(layers[level], Sibling(index \div 2 ^ level), level)]

(* The root the circuit reconstructs for a leaf: bit i of pathIndices says *)
(* on which side of its sibling the node of height i goes.                 *)
MerkleProof(leaf, pathIndices, pathElements) ==
  LET levelHash[i \in 0 .. levels] ==
        IF i = 0
        THEN leaf
        ELSE LET below == levelHash[i - 1]
                 other == pathElements[i - 1]
             IN  IF (pathIndices \div 2 ^ (i - 1)) % 2 = 0
                 THEN poseidon2(below, other)
                 ELSE poseidon2(other, below)
  IN  levelHash[levels]
=============================================================================
