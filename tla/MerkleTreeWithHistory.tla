----------------------- MODULE MerkleTreeWithHistory -----------------------
(***************************************************************************)
(* The append-only, pair-inserting Merkle tree of the pool contract        *)
(* (src/MerkleTreeWithHistory.sol): the frontier filledSubtrees from which *)
(* the next root is computed, and the ring of recent roots a proof may be  *)
(* made against.                                                           *)
(*                                                                         *)
(* Poseidon is modelled as a free constructor: the hash of two nodes is    *)
(* the pair of them, so two nodes are equal only if their inputs are.      *)
(*                                                                         *)
(* An operator Name_Fault is operator Name with a fault put into it: the   *)
(* README lists which property tells the two apart.                        *)
(***************************************************************************)
EXTENDS Integers, Sequences

CONSTANTS
  levels,             \* depth of the tree (23 in the deployed pool)
  ROOT_HISTORY_SIZE,  \* slots of the root ring (100)
  Leaf,               \* commitments that may be inserted
  ZERO_VALUE,         \* the empty leaf; also the sibling of a swap's claim note
  Unset               \* the value 0 of a storage slot never written

ASSUME LevelsAssumption == levels \in 1 .. 31
ASSUME HistoryAssumption == ROOT_HISTORY_SIZE \in Nat \ {0}
ASSUME LeafAssumption == ZERO_VALUE \notin Leaf

VARIABLES
  filledSubtrees,     \* per level, the last left node still waiting for its sibling
  roots,              \* the ring of roots
  currentRootIndex,   \* slot of the newest root
  nextIndex,          \* number of leaves inserted
  leaves              \* auxiliary: the leaves, in order

vars == <<filledSubtrees, roots, currentRootIndex, nextIndex, leaves>>

Slot == 0 .. ROOT_HISTORY_SIZE - 1

hashLeftRight(left, right) == <<left, right>>

(* Root of an empty subtree of height i.                                   *)
zeros[i \in 0 .. levels] ==
  IF i = 0 THEN ZERO_VALUE ELSE hashLeftRight(zeros[i - 1], zeros[i - 1])

-----------------------------------------------------------------------------
Init ==
  /\ filledSubtrees = [i \in 0 .. levels - 1 |-> zeros[i]]
  /\ roots = [s \in Slot |-> IF s = 0 THEN zeros[levels] ELSE Unset]
  /\ currentRootIndex = 0
  /\ nextIndex = 0
  /\ leaves = << >>

IsLeftChild_Flipped(pair) == pair % 2 = 1

IsLeftChild(pair) == pair % 2 = 0

(* One iteration of the loop of _insert: at an even position the node is a *)
(* left child, is remembered and hashed with an empty right sibling; at an *)
(* odd one the remembered left sibling completes it.                       *)
Climb(node, i) ==
  LET isLeft == IsLeftChild(node.pair)
  IN  [ pair   |-> node.pair \div 2,
        hash   |-> IF isLeft THEN hashLeftRight(node.hash, zeros[i])
                             ELSE hashLeftRight(node.filled[i], node.hash),
        filled |-> IF isLeft THEN [node.filled EXCEPT ![i] = node.hash]
                             ELSE node.filled ]

(* The node of height i above the inserted pair, for every height.         *)
PathAbove(leaf1, leaf2) ==
  LET at[i \in 1 .. levels] ==
        IF i = 1
        THEN [ pair   |-> nextIndex \div 2,
               hash   |-> hashLeftRight(leaf1, leaf2),
               filled |-> filledSubtrees ]
        ELSE Climb(at[i - 1], i - 1)
  IN  at

NextSlot_OneShort(s) == (s + 1) % (ROOT_HISTORY_SIZE - 1)

NextSlot(s) == (s + 1) % ROOT_HISTORY_SIZE

HasRoom_Unchecked == TRUE

HasRoom == nextIndex # 2 ^ levels

insert(leaf1, leaf2) ==
  LET top == PathAbove(leaf1, leaf2)[levels]
  IN  /\ HasRoom
      /\ filledSubtrees' = top.filled
      /\ currentRootIndex' = NextSlot(currentRootIndex)
      /\ roots' = [roots EXCEPT ![NextSlot(currentRootIndex)] = top.hash]
      /\ nextIndex' = nextIndex + 2
      /\ leaves' = leaves \o <<leaf1, leaf2>>

(* Every caller inserts a commitment first; the second leaf is another     *)
(* commitment (a join-split) or ZERO_VALUE (a swap's claim note).          *)
Next == \E leaf1 \in Leaf, leaf2 \in Leaf \cup {ZERO_VALUE} : insert(leaf1, leaf2)

Spec == Init /\ [][Next]_vars

Scanned_StopsEarly == Slot \ {NextSlot(currentRootIndex)}

(* The slots isKnownRoot looks at: backwards from the newest, once around. *)
Scanned ==
  { IF k <= currentRootIndex THEN currentRootIndex - k
                             ELSE currentRootIndex - k + ROOT_HISTORY_SIZE : k \in Slot }

isKnownRoot(root) ==
  /\ root # Unset
  /\ \E s \in Scanned : roots[s] = root

-----------------------------------------------------------------------------
(* Reference definition: the nodes of height h, by position, of the tree   *)
(* whose leaves are ls, positions past the end being ZERO_VALUE.           *)
RefNode(ls) ==
  LET node[h \in 0 .. levels] ==
        IF h = 0
        THEN [i \in Nat |-> IF i < Len(ls) THEN ls[i + 1] ELSE ZERO_VALUE]
        ELSE [i \in Nat |-> hashLeftRight(node[h - 1][2 * i], node[h - 1][2 * i + 1])]
  IN  node

RefRoot(ls) == RefNode(ls)[levels][0]

(* The slot holding the root of `a` insertions ago.                        *)
SlotOfAge(a) ==
  IF a <= currentRootIndex THEN currentRootIndex - a
                           ELSE currentRootIndex - a + ROOT_HISTORY_SIZE

TypeOK ==
  /\ nextIndex = Len(leaves)
  /\ nextIndex \in 0 .. 2 ^ levels
  /\ currentRootIndex \in Slot
  /\ DOMAIN roots = Slot
  /\ DOMAIN filledSubtrees = 0 .. levels - 1

(* The root of a insertions ago, found a slots behind the newest, is the   *)
(* root of the whole tree as it was then: the frontier computation of      *)
(* _insert agrees with hashing the full tree, for every insertion whose    *)
(* root the ring still holds.                                              *)
RootsAreSnapshots ==
  \A a \in Slot :
    roots[SlotOfAge(a)] = IF 2 * a <= nextIndex
                          THEN RefRoot(SubSeq(leaves, 1, nextIndex - 2 * a))
                          ELSE Unset

(* isKnownRoot accepts the root of exactly the ROOT_HISTORY_SIZE newest    *)
(* trees: neither an older tree nor the value of an unwritten slot passes, *)
(* and a proof made against a tree ROOT_HISTORY_SIZE - 1 insertions old    *)
(* still does.                                                             *)
KnownRootsAreRecent ==
  /\ ~isKnownRoot(Unset)
  /\ \A n \in { m \in 0 .. nextIndex : m % 2 = 0 } :
       isKnownRoot(RefRoot(SubSeq(leaves, 1, n)))
         <=> (nextIndex - n) \div 2 < ROOT_HISTORY_SIZE

(* The ring of roots behaves as a shift register of the newest roots.      *)
Register == INSTANCE RootRegister
              WITH Size     <- ROOT_HISTORY_SIZE,
                   register <- [a \in Slot |-> roots[SlotOfAge(a)]]

ImplementsRootRegister == Register!Spec
=============================================================================
