--------------------------- MODULE TreeSync_proofs ---------------------------
(***************************************************************************)
(* Theorems about the contract's tree and a client's copy of it, for every *)
(* depth, ring size and sequence of insertions, and about the calls of     *)
(* sync that bring the copy up to date, for every chain.                   *)
(*                                                                         *)
(* Both algorithms are compared with one reference, the nodes of the whole *)
(* tree over the leaves (RefNode). The contract's frontier holds, at every *)
(* height where a left node waits, that node of the tree (Frontier), so    *)
(* the hashes on the way up from a new pair are the nodes above it         *)
(* (PathIsUpward) and the ring holds the roots of the latest trees. The    *)
(* client's layers are the nodes of the tree up to its last leaf           *)
(* (ClientInv), so its root and its paths are those of the same tree.      *)
(*                                                                         *)
(* For the calls of sync: a scan of the leaves of some blocks appends those*)
(* past the end of the tree (NewLeavesAre), so that a tree on the chain's  *)
(* history stays on it and then holds all blocks up to the last one scanned*)
(* (ScannedTree). The notes are those of the tree whatever its history, the*)
(* spent notes while it is the chain's (AccountInv), and the blocks up to  *)
(* the cursor are in the tree until a reorganisation (SkipInv).            *)
(***************************************************************************)
EXTENDS TreeSync, ClientSync, SumTheorems

(* Powers of two, from the number of subsets of 1 .. n.                    *)
LEMMA PowersOfTwo ==
  ASSUME NEW n, n \in Nat
  PROVE  2 ^ n \in Nat \ {0} /\ 2 ^ (n + 1) = 2 * 2 ^ n
<1> DEFINE A == SUBSET (1 .. n)
           B == { s \cup {n + 1} : s \in A }
           f == [s \in A |-> s \cup {n + 1}]
<1>1. /\ IsFiniteSet(1 .. n) /\ Cardinality(1 .. n) = n
      /\ IsFiniteSet(1 .. n + 1) /\ Cardinality(1 .. n + 1) = n + 1
  BY FS_Interval
<1>2. IsFiniteSet(A) /\ Cardinality(A) = 2 ^ n
  BY <1>1, FS_SUBSET
<1>3. Cardinality(SUBSET (1 .. n + 1)) = 2 ^ (n + 1)
  BY <1>1, FS_SUBSET
<1>4. SUBSET (1 .. n + 1) = A \cup B
  <2>1. ASSUME NEW s \in SUBSET (1 .. n + 1) PROVE s \in A \cup B
    <3>1. CASE n + 1 \in s
      <4>1. s \ {n + 1} \in A /\ s = (s \ {n + 1}) \cup {n + 1}
        BY <3>1
      <4> QED BY <4>1
    <3>2. CASE n + 1 \notin s
      BY <3>2
    <3> QED BY <3>1, <3>2
  <2>2. 1 .. n \subseteq 1 .. n + 1 /\ n + 1 \in 1 .. n + 1
    OBVIOUS
  <2>3. ASSUME NEW s \in A PROVE s \in SUBSET (1 .. n + 1) /\ s \cup {n + 1} \in SUBSET (1 .. n + 1)
    BY <2>2
  <2>4. A \cup B \subseteq SUBSET (1 .. n + 1)
    <3>1. A \subseteq SUBSET (1 .. n + 1)
      BY <2>2
    <3>2. ASSUME NEW t \in B PROVE t \in SUBSET (1 .. n + 1)
      <4>1. PICK s \in A : t = s \cup {n + 1}
        OBVIOUS
      <4> QED BY <2>3, <4>1
    <3> HIDE DEF A, B
    <3> QED BY <3>1, <3>2
  <2> HIDE DEF A, B
  <2> QED BY <2>1, <2>4
<1>5. A \cap B = {}
  OBVIOUS
<1>6. f \in Bijection(A, B)
  <2>1. f \in Surjection(A, B)
    BY DEF Surjection
  <2>2. \A s, t \in A : s \cup {n + 1} = t \cup {n + 1} => s = t
    <3>1. \A s \in A : s = (s \cup {n + 1}) \ {n + 1}
      OBVIOUS
    <3> QED BY <3>1
  <2>3. f \in [A -> B] /\ \A s \in A : f[s] = s \cup {n + 1}
    OBVIOUS
  <2>5. \A s, t \in A : f[s] = f[t] => s = t
    <3> HIDE DEF f, A
    <3> QED BY <2>2, <2>3
  <2> HIDE DEF f, A, B
  <2>4. f \in Injection(A, B)
    BY <2>3, <2>5 DEF Injection, IsInjective
  <2> QED BY <2>1, <2>4 DEF Bijection
<1> HIDE DEF A, B, f
<1>7. IsFiniteSet(B) /\ Cardinality(B) = Cardinality(A)
  BY <1>2, <1>6, FS_Bijection DEF ExistsBijection
<1>8. Cardinality(A \cup B) = Cardinality(A) + Cardinality(B) - 0
  BY <1>2, <1>5, <1>7, FS_Union, FS_EmptySet
<1>9. Cardinality(A) \in Nat /\ Cardinality(A) # 0
  BY <1>2, FS_CardinalityType, FS_EmptySet DEF A
<1>10. 2 ^ (n + 1) = 2 ^ n + 2 ^ n /\ 2 ^ n \in Nat /\ 2 ^ n # 0
  <2>1. Cardinality(A \cup B) = 2 ^ (n + 1)
    BY <1>3, <1>4
  <2>2. Cardinality(B) = 2 ^ n /\ Cardinality(A) = 2 ^ n
    BY <1>2, <1>7
  <2>3. 2 ^ n \in Nat /\ 2 ^ n # 0
    BY <1>2, <1>9
  <2>4. 2 ^ (n + 1) = 2 ^ n + 2 ^ n - 0
    BY <1>8, <2>1, <2>2
  <2> QED BY <2>3, <2>4
<1>11. \A a, b : a \in Nat /\ a # 0 /\ b = a + a => a \in Nat \ {0} /\ b = 2 * a
  OBVIOUS
<1> QED BY <1>10, <1>11

(* Halving the index of a node at a height is its index one height up.     *)
LEMMA Parents ==
  ASSUME NEW h, h \in Nat, NEW x, x \in Nat
  PROVE  /\ x \div 2 ^ h \in Nat /\ (x \div 2 ^ h) \div 2 = x \div 2 ^ (h + 1)
         /\ x \div 2 ^ 0 = x
         /\ x < 2 ^ h => x \div 2 ^ h = 0
<1>1. 2 ^ h \in Nat \ {0} /\ 2 ^ (h + 1) = 2 * 2 ^ h
  BY PowersOfTwo
<1>2. ASSUME NEW p, p = 2 ^ h
      PROVE  /\ x \div p \in Nat /\ (x \div p) \div 2 = x \div (2 * p)
             /\ x < p => x \div p = 0
  <2>1. p \in Nat \ {0}
    BY <1>1, <1>2
  <2> QED BY ONLY <2>1, x \in Nat
<1>3. 2 ^ 0 = 1
  OBVIOUS
<1> QED BY <1>1, <1>2, <1>3

(* A node's index grows by at most one when the leaf's index does.         *)
LEMMA NextParent ==
  ASSUME NEW h, h \in Nat, NEW x, x \in Nat
  PROVE  (x + 1) \div 2 ^ h \in {x \div 2 ^ h, x \div 2 ^ h + 1}
<1>1. ASSUME NEW p \in Nat \ {0} PROVE (x + 1) \div p \in {x \div p, x \div p + 1}
  OBVIOUS
<1> QED BY <1>1, PowersOfTwo

(* The nodes of a tree, height by height.                                  *)
Above(nodes) == [i \in Nat |-> hashLeftRight(nodes[2 * i], nodes[2 * i + 1])]
Bottom(ls) == [i \in Nat |-> IF i < Len(ls) THEN ls[i + 1] ELSE ZERO_VALUE]
Nodes(ls, f, n) == f = [h \in 0 .. n |-> IF h = 0 THEN Bottom(ls) ELSE Above(f[h - 1])]

(* The nodes are well defined up to every height.                          *)
LEMMA NodesExist ==
  ASSUME NEW ls, NEW n \in Nat
  PROVE  \E f : Nodes(ls, f, n)
<1> DEFINE N == { k \in Nat : \E f : Nodes(ls, f, k) }
<1>1. 0 \in N
  <2> DEFINE f == [h \in 0 .. 0 |-> Bottom(ls)]
  <2>1. \A h \in 0 .. 0 : h = 0
    OBVIOUS
  <2>2. Nodes(ls, f, 0)
    BY <2>1 DEF Nodes
  <2> QED BY <2>2
<1>2. ASSUME NEW k \in N PROVE k + 1 \in N
  <2>1. PICK f : Nodes(ls, f, k)
    OBVIOUS
  <2> DEFINE g == [h \in 0 .. k + 1 |-> IF h = k + 1 THEN Above(f[k]) ELSE f[h]]
  <2>2. ASSUME NEW h \in 0 .. k + 1
        PROVE  g[h] = IF h = 0 THEN Bottom(ls) ELSE Above(g[h - 1])
    <3>1. CASE h = k + 1
      <4>1. h # 0 /\ h - 1 = k /\ k \in 0 .. k + 1 /\ k # k + 1
        BY <3>1
      <4>2. g[k] = f[k] /\ g[h] = Above(f[k])
        BY <3>1, <4>1
      <4> QED BY <4>1, <4>2
    <3>2. CASE h # k + 1
      <4>1. h \in 0 .. k /\ (h # 0 => h - 1 \in 0 .. k /\ h - 1 \in 0 .. k + 1 /\ h - 1 # k + 1)
        BY <3>2
      <4>2. g[h] = f[h] /\ (h # 0 => g[h - 1] = f[h - 1])
        BY <3>2, <4>1
      <4>3. f[h] = IF h = 0 THEN Bottom(ls) ELSE Above(f[h - 1])
        <5> HIDE DEF g
        <5> QED BY <2>1, <4>1 DEF Nodes
      <4> QED BY <4>2, <4>3
    <3> QED BY <3>1, <3>2
  <2>3. Nodes(ls, g, k + 1)
    <3>1. g = [h \in 0 .. k + 1 |-> g[h]]
      OBVIOUS
    <3> HIDE DEF g
    <3> QED BY <2>2, <3>1 DEF Nodes
  <2> QED BY <2>3
<1> HIDE DEF N
<1>3. N = Nat
  BY <1>1, <1>2, NaturalsBySteps DEF N
<1> QED BY <1>3 DEF N

(* The reference definition is those nodes.                                *)
LEMMA RefNodes ==
  ASSUME NEW ls
  PROVE  /\ RefNode(ls) = [h \in 0 .. levels |-> RefNode(ls)[h]]
         /\ RefNode(ls)[0] = Bottom(ls)
         /\ \A h \in 0 .. levels - 1 : RefNode(ls)[h + 1] = Above(RefNode(ls)[h])
<1>1. levels \in Nat
  BY LevelsAssumption
<1>2. \E f : Nodes(ls, f, levels)
  BY <1>1, NodesExist
<1>3. RefNode(ls) = CHOOSE f : Nodes(ls, f, levels)
  BY DEF RefNode, Nodes, Bottom, Above
<1>4. Nodes(ls, RefNode(ls), levels)
  BY <1>2, <1>3
<1>5. \A h \in 0 .. levels - 1 : h + 1 \in 0 .. levels /\ h + 1 # 0 /\ (h + 1) - 1 = h
  BY <1>1
<1>6. ASSUME NEW f, Nodes(ls, f, levels)
      PROVE  /\ f = [h \in 0 .. levels |-> f[h]]
             /\ f[0] = Bottom(ls)
             /\ \A h \in 0 .. levels - 1 : f[h + 1] = Above(f[h])
  <2>1. \A h \in 0 .. levels : f[h] = IF h = 0 THEN Bottom(ls) ELSE Above(f[h - 1])
    BY <1>6 DEF Nodes
  <2>2. f = [h \in 0 .. levels |-> f[h]]
    BY <1>6 DEF Nodes
  <2>3. 0 \in 0 .. levels
    BY <1>1
  <2> QED BY <1>5, <2>1, <2>2, <2>3
<1> QED BY <1>4, <1>6

(* Node by node:                                                          *)
LEMMA RefLeaf ==
  ASSUME NEW ls, NEW i, i \in Nat
  PROVE  RefNode(ls)[0][i] = IF i < Len(ls) THEN ls[i + 1] ELSE ZERO_VALUE
<1>1. Bottom(ls)[i] = IF i < Len(ls) THEN ls[i + 1] ELSE ZERO_VALUE
  BY DEF Bottom
<1> QED BY <1>1, RefNodes

(* and the hash of the two nodes under it.                                 *)
LEMMA RefAbove ==
  ASSUME NEW ls
  PROVE  \A h \in 0 .. levels - 1 : \A i \in Nat :
           RefNode(ls)[h + 1][i] = hashLeftRight(RefNode(ls)[h][2 * i], RefNode(ls)[h][2 * i + 1])
<1>1. \A nodes : \A i \in Nat : Above(nodes)[i] = hashLeftRight(nodes[2 * i], nodes[2 * i + 1])
  BY DEF Above
<1> QED BY <1>1, RefNodes

(* Induction up to n.                                                      *)
LEMMA HeightsBySteps ==
  ASSUME NEW n \in Nat, NEW T, 0 \in T, \A h \in 0 .. n - 1 : h \in T => h + 1 \in T
  PROVE  0 .. n \subseteq T
<1> DEFINE N == { h \in Nat : h <= n => h \in T }
<1>1. 0 \in N
  OBVIOUS
<1>2. ASSUME NEW h \in N PROVE h + 1 \in N
  <2>1. CASE h + 1 <= n
    BY <2>1
  <2>2. CASE ~ (h + 1 <= n)
    BY <2>2
  <2> QED BY <2>1, <2>2
<1>3. N \subseteq Nat
  OBVIOUS
<1> HIDE DEF N
<1>4. N = Nat
  BY <1>1, <1>2, <1>3, NaturalsBySteps
<1> QED BY <1>4 DEF N

(* The contract's zeros, by height.                                        *)
LEMMA Zeros ==
  /\ zeros[0] = ZERO_VALUE
  /\ \A h \in 0 .. levels - 1 : zeros[h + 1] = hashLeftRight(zeros[h], zeros[h])
<1> DEFINE T == { h \in 0 .. levels : \A i \in Nat : RefNode(<<>>)[h][i] = RefNode(<<>>)[h][0] }
           Fill(f) == f = [h \in 0 .. levels |->
                             IF h = 0 THEN ZERO_VALUE ELSE hashLeftRight(f[h - 1], f[h - 1])]
           z == [h \in 0 .. levels |-> RefNode(<<>>)[h][0]]
<1>0. levels \in Nat
  BY LevelsAssumption
<1>1. 0 \in T
  BY <1>0, RefLeaf
<1>2. ASSUME NEW h \in 0 .. levels - 1, h \in T PROVE h + 1 \in T
  <2>1. h + 1 \in 0 .. levels
    BY <1>0
  <2>2. ASSUME NEW i \in Nat PROVE RefNode(<<>>)[h + 1][i] = RefNode(<<>>)[h + 1][0]
    <3>0. \A e : \A k \in Nat :
            RefNode(e)[h + 1][k] = hashLeftRight(RefNode(e)[h][2 * k], RefNode(e)[h][2 * k + 1])
      BY RefAbove
    <3>1. /\ RefNode(<<>>)[h + 1][i] = hashLeftRight(RefNode(<<>>)[h][2 * i], RefNode(<<>>)[h][2 * i + 1])
          /\ RefNode(<<>>)[h + 1][0] = hashLeftRight(RefNode(<<>>)[h][2 * 0], RefNode(<<>>)[h][2 * 0 + 1])
      BY <3>0
    <3>2. /\ RefNode(<<>>)[h][2 * i] = RefNode(<<>>)[h][0] /\ RefNode(<<>>)[h][2 * i + 1] = RefNode(<<>>)[h][0]
          /\ RefNode(<<>>)[h][2 * 0] = RefNode(<<>>)[h][0] /\ RefNode(<<>>)[h][2 * 0 + 1] = RefNode(<<>>)[h][0]
      BY <1>2
    <3> QED BY <3>1, <3>2
  <2> QED BY <2>1, <2>2
<1>3. 0 .. levels \subseteq T
  <2> HIDE DEF T
  <2> QED BY <1>0, <1>1, <1>2, HeightsBySteps
<1>4. ASSUME NEW h \in 0 .. levels
      PROVE  z[h] = IF h = 0 THEN ZERO_VALUE ELSE hashLeftRight(z[h - 1], z[h - 1])
  <2>1. CASE h = 0
    <3>1. RefNode(<<>>)[0][0] = ZERO_VALUE
      BY RefLeaf
    <3> QED BY <2>1, <3>1
  <2>2. CASE h # 0
    <3>1. PICK g \in 0 .. levels - 1 : h = g + 1 /\ h - 1 = g /\ g \in 0 .. levels
      BY <1>0, <2>2
    <3>0. \A e : \A k \in Nat :
            RefNode(e)[g + 1][k] = hashLeftRight(RefNode(e)[g][2 * k], RefNode(e)[g][2 * k + 1])
      BY RefAbove
    <3>2. RefNode(<<>>)[h][0] = hashLeftRight(RefNode(<<>>)[g][2 * 0], RefNode(<<>>)[g][2 * 0 + 1])
      BY <3>0, <3>1
    <3>3. /\ RefNode(<<>>)[g][2 * 0] = RefNode(<<>>)[g][0]
          /\ RefNode(<<>>)[g][2 * 0 + 1] = RefNode(<<>>)[g][0]
      BY <1>3, <3>1
    <3> QED BY <2>2, <3>1, <3>2, <3>3
  <2> QED BY <2>1, <2>2
<1>5. Fill(z)
  <2>1. z = [h \in 0 .. levels |-> z[h]]
    OBVIOUS
  <2> HIDE DEF z
  <2> QED BY <1>4, <2>1
<1> HIDE DEF z
<1>6. zeros = CHOOSE f : Fill(f)
  BY DEF zeros
<1>7. Fill(zeros)
  BY <1>5, <1>6
<1>8. ASSUME NEW f, Fill(f)
      PROVE  /\ f[0] = ZERO_VALUE
             /\ \A h \in 0 .. levels - 1 : f[h + 1] = hashLeftRight(f[h], f[h])
  <2>1. \A h \in 0 .. levels : f[h] = IF h = 0 THEN ZERO_VALUE ELSE hashLeftRight(f[h - 1], f[h - 1])
    BY <1>8
  <2>2. \A h \in 0 .. levels - 1 : h + 1 \in 0 .. levels /\ h + 1 # 0 /\ (h + 1) - 1 = h
    BY <1>0
  <2>3. 0 \in 0 .. levels
    BY <1>0
  <2> QED BY <2>1, <2>2, <2>3
<1> HIDE DEF Fill
<1> QED BY <1>7, <1>8

(* To the right of the last leaf the nodes are those of an empty tree.     *)
LEMMA EmptyRight ==
  ASSUME NEW ls, Len(ls) \in Nat, NEW h \in 0 .. levels, NEW i \in Nat,
         Len(ls) = 0 \/ i > (Len(ls) - 1) \div 2 ^ h
  PROVE  RefNode(ls)[h][i] = zeros[h]
<1> DEFINE Beyond(g, k) == Len(ls) = 0 \/ k > (Len(ls) - 1) \div 2 ^ g
           T == { g \in 0 .. levels : \A k \in Nat : Beyond(g, k) => RefNode(ls)[g][k] = zeros[g] }
<1>0. levels \in Nat
  BY LevelsAssumption
<1>1. 0 \in T
  <2>1. ASSUME NEW k \in Nat, Beyond(0, k) PROVE RefNode(ls)[0][k] = zeros[0]
    <3>1. ~ (k < Len(ls))
      BY <2>1, Parents
    <3> QED BY <3>1, RefLeaf, Zeros
  <2> QED BY <1>0, <2>1
<1>2. ASSUME NEW g \in 0 .. levels - 1, g \in T PROVE g + 1 \in T
  <2>1. ASSUME NEW k \in Nat, Beyond(g + 1, k) PROVE RefNode(ls)[g + 1][k] = zeros[g + 1]
    <3>1. Beyond(g, 2 * k) /\ Beyond(g, 2 * k + 1)
      <4>1. CASE Len(ls) = 0
        BY <4>1
      <4>2. CASE Len(ls) # 0
        <5>1. Len(ls) - 1 \in Nat /\ g \in Nat
          BY <1>0, <4>2
        <5>2. PICK q \in Nat : q = (Len(ls) - 1) \div 2 ^ g /\ q \div 2 = (Len(ls) - 1) \div 2 ^ (g + 1)
          BY <5>1, Parents
        <5>3. k > q \div 2
          BY <2>1, <4>2, <5>2
        <5>4. 2 * k > q /\ 2 * k + 1 > q
          BY <5>3
        <5> QED BY <5>2, <5>4
      <4> QED BY <4>1, <4>2
    <3>2. 2 * k \in Nat /\ 2 * k + 1 \in Nat
      OBVIOUS
    <3>3. RefNode(ls)[g][2 * k] = zeros[g] /\ RefNode(ls)[g][2 * k + 1] = zeros[g]
      <4> HIDE DEF Beyond
      <4> QED BY <1>2, <3>1, <3>2
    <3>4. RefNode(ls)[g + 1][k] = hashLeftRight(RefNode(ls)[g][2 * k], RefNode(ls)[g][2 * k + 1])
      BY RefAbove
    <3>5. zeros[g + 1] = hashLeftRight(zeros[g], zeros[g])
      BY Zeros
    <3> QED BY <3>3, <3>4, <3>5
  <2>2. g + 1 \in 0 .. levels
    BY <1>0
  <2> QED BY <2>1, <2>2
<1>3. 0 .. levels \subseteq T
  <2> HIDE DEF T
  <2> QED BY <1>0, <1>1, <1>2, HeightsBySteps
<1> QED BY <1>3

(* Two sequences with the same first n elements.                           *)
AgreeTo(ls, longer, n) ==
  /\ n \in Nat /\ Len(ls) \in Nat /\ Len(longer) \in Nat
  /\ n <= Len(ls) /\ n <= Len(longer)
  /\ \A k \in 1 .. n : ls[k] = longer[k]

(* A node whose leaves are all there is the same in every longer tree.     *)
LEMMA FullLeft ==
  ASSUME NEW ls, NEW longer, NEW n, AgreeTo(ls, longer, n),
         NEW h, h \in 0 .. levels, NEW i, i \in Nat, i < n \div 2 ^ h
  PROVE  RefNode(ls)[h][i] = RefNode(longer)[h][i]
<1>01. n \in Nat /\ Len(ls) \in Nat /\ Len(longer) \in Nat /\ n <= Len(ls) /\ n <= Len(longer)
       /\ \A k \in 1 .. n : ls[k] = longer[k]
  BY DEF AgreeTo
<1> DEFINE T == { g \in 0 .. levels :
                    \A k \in Nat : k < n \div 2 ^ g => RefNode(ls)[g][k] = RefNode(longer)[g][k] }
<1>0. levels \in Nat
  BY LevelsAssumption
<1>1. 0 \in T
  <2>1. ASSUME NEW k \in Nat, k < n \div 2 ^ 0 PROVE RefNode(ls)[0][k] = RefNode(longer)[0][k]
    <3>0. n \div 2 ^ 0 = n
      BY <1>01, Parents
    <3>1. k < n /\ k < Len(ls) /\ k < Len(longer) /\ k + 1 \in 1 .. n
      BY <1>01, <2>1, <3>0
    <3>2. ls[k + 1] = longer[k + 1]
      BY <1>01, <3>1
    <3> QED BY <3>1, <3>2, RefLeaf
  <2> QED BY <1>0, <2>1
<1>2. ASSUME NEW g \in 0 .. levels - 1, g \in T PROVE g + 1 \in T
  <2>1. ASSUME NEW k \in Nat, k < n \div 2 ^ (g + 1) PROVE RefNode(ls)[g + 1][k] = RefNode(longer)[g + 1][k]
    <3>0. g \in Nat
      BY <1>0
    <3>1. PICK q \in Nat : q = n \div 2 ^ g /\ q \div 2 = n \div 2 ^ (g + 1)
      BY <1>01, <3>0, Parents
    <3>2. k < q \div 2
      BY <2>1, <3>1
    <3>3. 2 * k < q /\ 2 * k + 1 < q /\ 2 * k \in Nat /\ 2 * k + 1 \in Nat
      BY <3>2
    <3>4. /\ RefNode(ls)[g][2 * k] = RefNode(longer)[g][2 * k]
          /\ RefNode(ls)[g][2 * k + 1] = RefNode(longer)[g][2 * k + 1]
      BY <1>2, <3>1, <3>3
    <3>5. /\ RefNode(ls)[g + 1][k] = hashLeftRight(RefNode(ls)[g][2 * k], RefNode(ls)[g][2 * k + 1])
          /\ RefNode(longer)[g + 1][k] = hashLeftRight(RefNode(longer)[g][2 * k], RefNode(longer)[g][2 * k + 1])
      BY RefAbove
    <3> QED BY <3>4, <3>5
  <2>2. g + 1 \in 0 .. levels
    BY <1>0
  <2> QED BY <2>1, <2>2
<1>3. 0 .. levels \subseteq T
  <2> HIDE DEF T
  <2> QED BY <1>0, <1>1, <1>2, HeightsBySteps
<1> QED BY <1>3

(* The index of the last leaf of a pair, and that of the next pair.        *)
LEMMA PairParents ==
  ASSUME NEW n, n \in Nat, n % 2 = 0, NEW h, h \in Nat \ {0}
  PROVE  /\ (n + 1) \div 2 ^ h = n \div 2 ^ h
         /\ (n + 2) \div 2 ^ h \in {n \div 2 ^ h, n \div 2 ^ h + 1}
<1>1. PICK m \in Nat : n = 2 * m
  <2>1. n = 2 * (n \div 2) /\ n \div 2 \in Nat
    OBVIOUS
  <2> QED BY <2>1
<1>2. PICK g \in Nat : h = g + 1
  <2>1. h - 1 \in Nat /\ h = (h - 1) + 1
    OBVIOUS
  <2> QED BY <2>1
<1>3. 2 ^ h = 2 * 2 ^ g /\ 2 ^ g \in Nat \ {0}
  BY <1>2, PowersOfTwo
<1>4. ASSUME NEW p \in Nat \ {0}
      PROVE  /\ (2 * m + 1) \div (2 * p) = m \div p /\ (2 * m) \div (2 * p) = m \div p
             /\ (2 * m + 2) \div (2 * p) = (m + 1) \div p
             /\ (m + 1) \div p \in {m \div p, m \div p + 1}
  <2>1. PICK q \in Nat, r \in Nat : m = p * q + r /\ r < p /\ m \div p = q
    <3>1. m = p * (m \div p) + (m % p) /\ m \div p \in Nat /\ m % p \in Nat /\ m % p < p
      OBVIOUS
    <3> QED BY <3>1
  <2>2. 2 * m = (2 * p) * q + 2 * r /\ 2 * m + 1 = (2 * p) * q + (2 * r + 1)
    BY <2>1
  <2>3. \A x \in Nat, d \in Nat \ {0}, b \in Nat, c \in Nat : x = d * b + c /\ c < d => x \div d = b
    OBVIOUS
  <2>4. 2 * p \in Nat \ {0} /\ 2 * r \in Nat /\ 2 * r + 1 \in Nat /\ 2 * r < 2 * p /\ 2 * r + 1 < 2 * p
    BY <2>1
  <2>5. (2 * m + 1) \div (2 * p) = q /\ (2 * m) \div (2 * p) = q
    BY <2>2, <2>3, <2>4
  <2>6. CASE r + 1 < p
    <3>1. m + 1 = p * q + (r + 1) /\ 2 * m + 2 = (2 * p) * q + (2 * r + 2)
      BY <2>1
    <3>2. 2 * r + 2 \in Nat /\ 2 * r + 2 < 2 * p /\ r + 1 \in Nat
      BY <2>6
    <3>3. (m + 1) \div p = q /\ (2 * m + 2) \div (2 * p) = q
      BY <2>3, <2>4, <2>6, <3>1, <3>2
    <3> QED BY <2>1, <2>5, <3>3
  <2>7. CASE ~ (r + 1 < p)
    <3>1. r + 1 = p
      BY <2>1, <2>7
    <3>2. p * (q + 1) = p * q + p /\ (2 * p) * (q + 1) = (2 * p) * q + 2 * p
      OBVIOUS
    <3>3. m + 1 = p * (q + 1) + 0 /\ 2 * m + 2 = (2 * p) * (q + 1) + 0
      BY <2>1, <2>2, <3>1, <3>2
    <3>4. (m + 1) \div p = q + 1 /\ (2 * m + 2) \div (2 * p) = q + 1
      BY <2>3, <2>4, <3>3
    <3> QED BY <2>1, <2>5, <3>4
  <2> QED BY <2>6, <2>7
<1> QED BY <1>1, <1>3, <1>4

-----------------------------------------------------------------------------
(* The part of the type invariant the ring arithmetic needs.               *)
RingOK ==
  /\ currentRootIndex \in Slot
  /\ DOMAIN roots = Slot

(* The newest-root slot always moves to the next one, wrapping at the end. *)
LEMMA NextSlotWraps ==
  ASSUME NEW s \in Slot
  PROVE  NextSlot(s) = IF s = ROOT_HISTORY_SIZE - 1 THEN 0 ELSE s + 1
<1> USE HistoryAssumption DEF Slot, NextSlot
<1>1. CASE s = ROOT_HISTORY_SIZE - 1
  BY <1>1
<1>2. CASE s # ROOT_HISTORY_SIZE - 1
  BY <1>2
<1> QED BY <1>1, <1>2

(* _insert writes one slot and moves to it; every root before it is found  *)
(* one slot further back.                                                  *)
LEMMA RingShift ==
  ASSUME RingOK, NEW leaf1, NEW leaf2, insert(leaf1, leaf2)
  PROVE  /\ RingOK'
         /\ roots'[SlotOfAge(0)'] = PathAbove(leaf1, leaf2)[levels].hash
         /\ \A a \in Slot \ {0} : a - 1 \in Slot /\ roots'[SlotOfAge(a)'] = roots[SlotOfAge(a - 1)]
<1> DEFINE c == currentRootIndex
<1>1. /\ c' = IF c = ROOT_HISTORY_SIZE - 1 THEN 0 ELSE c + 1
      /\ c \in Slot /\ c' \in Slot
  BY NextSlotWraps, HistoryAssumption DEF insert, RingOK, Slot
<1>2. DOMAIN roots' = Slot /\ roots'[c'] = PathAbove(leaf1, leaf2)[levels].hash
  BY <1>1 DEF insert, RingOK
<1>3. \A s \in Slot : s # c' => roots'[s] = roots[s]
  BY DEF insert, RingOK
<1>4. SlotOfAge(0)' = c'
  BY <1>1 DEF SlotOfAge, Slot
<1>5. ASSUME NEW a \in Slot \ {0}
      PROVE  a - 1 \in Slot /\ roots'[SlotOfAge(a)'] = roots[SlotOfAge(a - 1)]
  <2>1. /\ SlotOfAge(a)' \in Slot
        /\ SlotOfAge(a)' # c'
        /\ SlotOfAge(a)' = SlotOfAge(a - 1)
        /\ a - 1 \in Slot
    BY <1>1, HistoryAssumption DEF SlotOfAge, Slot
  <2> QED BY <1>3, <2>1
<1> QED BY <1>1, <1>2, <1>4, <1>5 DEF RingOK, Slot

(* The ring keeps its shape.                                               *)
THEOREM RingCorrect == Spec => []RingOK
<1>1. Init => RingOK
  BY HistoryAssumption DEF Init, RingOK, Slot
<1>2. RingOK /\ [Next]_vars => RingOK'
  <2> SUFFICES ASSUME RingOK, [Next]_vars PROVE RingOK'
    OBVIOUS
  <2>1. CASE Next
    BY <2>1, RingShift DEF Next
  <2>2. CASE UNCHANGED vars
    BY <2>2 DEF vars, RingOK, Slot
  <2> QED BY <2>1, <2>2
<1> QED BY <1>1, <1>2, PTL DEF Spec

(* The ring of roots is a shift register of the ROOT_HISTORY_SIZE newest   *)
(* roots: an insertion puts its root at age 0, ages every other root by    *)
(* one, and drops only the oldest.                                         *)
THEOREM RingImplementsRegister == Spec => ImplementsRootRegister
<1> DEFINE reg == [a \in Slot |-> roots[SlotOfAge(a)]]
<1>1. Init => Register!Init
  <2> SUFFICES ASSUME Init PROVE Register!Init
    OBVIOUS
  <2>1. \A a \in Slot \ {0} : SlotOfAge(a) \in Slot \ {0}
    BY HistoryAssumption DEF Init, Slot, SlotOfAge
  <2>2. \A s \in Slot \ {0} : roots[s] = Unset
    BY DEF Init
  <2>3. \A a \in Slot \ {0} : reg[a] = Unset
    BY <2>1, <2>2
  <2> QED BY <2>3 DEF Register!Init, Register!Age, Slot
<1>2. RingOK /\ [Next]_vars => [Register!Push]_reg
  <2> SUFFICES ASSUME RingOK, [Next]_vars PROVE Register!Push \/ UNCHANGED reg
    OBVIOUS
  <2>1. ASSUME NEW leaf1, NEW leaf2, insert(leaf1, leaf2)
        PROVE  Register!Push
    <3>1. ASSUME NEW a \in Slot \ {0} PROVE reg'[a] = reg[a - 1]
      <4>1. a - 1 \in Slot /\ roots'[SlotOfAge(a)'] = roots[SlotOfAge(a - 1)]
        BY <2>1, RingShift
      <4>2. reg'[a] = roots'[SlotOfAge(a)']
        BY DEF Slot
      <4> QED BY <4>1, <4>2
    <3>2. DOMAIN reg' = Slot
      BY DEF Slot
    <3> QED BY <3>1, <3>2 DEF Register!Push, Register!Age, Slot
  <2>2. CASE UNCHANGED vars
    BY <2>2 DEF vars, SlotOfAge, Slot
  <2> QED BY <2>1, <2>2 DEF Next
<1> QED
  BY <1>1, <1>2, RingCorrect, PTL DEF Spec, ImplementsRootRegister, Register!Spec

(* What isKnownRoot accepts is exactly what the register holds, so a proof *)
(* is accepted for the ROOT_HISTORY_SIZE newest roots and no others.       *)
KnownIsRegistered ==
  \A r : isKnownRoot(r) <=> r # Unset /\ \E a \in Slot : roots[SlotOfAge(a)] = r

(* The backward scan of isKnownRoot visits every slot of the ring.         *)
LEMMA KnownRegistered == KnownIsRegistered
BY DEF KnownIsRegistered, isKnownRoot, Scanned, SlotOfAge

(* isKnownRoot scans the whole ring: it accepts the roots of the register  *)
(* and no other value.                                                     *)
THEOREM KnownRootsAreRegistered == Spec => []KnownIsRegistered
<1>1. KnownIsRegistered
  BY KnownRegistered
<1> QED BY <1>1, PTL

-----------------------------------------------------------------------------
(* The leaves are the insertions' pairs, the first of each a commitment.   *)
LeavesOK ==
  /\ leaves \in Seq(Leaf \cup {ZERO_VALUE}) /\ nextIndex = Len(leaves)
  /\ nextIndex % 2 = 0 /\ nextIndex <= 2 ^ levels
  /\ \A k \in 1 .. Len(leaves) : k % 2 = 1 => leaves[k] \in Leaf

(* The frontier: where a node still waits for its sibling, it is kept.     *)
Frontier ==
  /\ filledSubtrees = [g \in 0 .. levels - 1 |-> filledSubtrees[g]]
  /\ \A h \in 1 .. levels - 1 :
       (nextIndex \div 2 ^ h) % 2 = 1 =>
         filledSubtrees[h] = RefNode(leaves)[h][nextIndex \div 2 ^ h - 1]

(* What _insert computes on the way up from a pair after which the leaves  *)
(* are ls, in terms of the nodes of the whole tree.                        *)
Filled(ls, h) ==
  [g \in 0 .. levels - 1 |->
     IF g \in 1 .. h - 1 /\ (nextIndex \div 2 ^ g) % 2 = 0
     THEN RefNode(ls)[g][nextIndex \div 2 ^ g] ELSE filledSubtrees[g]]
Upward(ls) ==
  [h \in 1 .. levels |->
     [ pair   |-> nextIndex \div 2 ^ h,
       hash   |-> RefNode(ls)[h][nextIndex \div 2 ^ h],
       filled |-> Filled(ls, h) ]]

Extended(ls, leaf1, leaf2) ==
  /\ Len(ls) = nextIndex + 2
  /\ \A k \in 1 .. nextIndex : ls[k] = leaves[k]
  /\ ls[nextIndex + 1] = leaf1 /\ ls[nextIndex + 2] = leaf2

(* The hash of the pair, before the first iteration.                       *)
LEMMA UpwardStart ==
  ASSUME LeavesOK, Frontier, NEW leaf1, NEW leaf2, NEW ls, Extended(ls, leaf1, leaf2)
  PROVE  Upward(ls)[1] = [ pair   |-> nextIndex \div 2,
                           hash   |-> hashLeftRight(leaf1, leaf2),
                           filled |-> filledSubtrees ]
<1>1. levels \in Nat /\ 1 \in 1 .. levels /\ 0 \in 0 .. levels - 1
  BY LevelsAssumption
<1>2. nextIndex \in Nat /\ nextIndex % 2 = 0
  BY DEF LeavesOK
<1>3. PICK q \in Nat : q = nextIndex \div 2 /\ nextIndex \div 2 ^ 1 = q /\ nextIndex = 2 * q
  <2>1. nextIndex \div 2 ^ 1 = nextIndex \div 2 /\ nextIndex \div 2 \in Nat
    <3>1. 2 ^ (0 + 1) = 2 * 2 ^ 0 /\ 2 ^ 0 = 1
      BY PowersOfTwo
    <3>2. 0 + 1 = 1
      OBVIOUS
    <3>3. 2 ^ 1 = 2
      OBVIOUS
    <3> QED BY <1>2, <3>3
  <2>2. nextIndex = 2 * (nextIndex \div 2)
    BY <1>2
  <2> QED BY <2>1, <2>2
<1>4. RefNode(ls)[1][q] = hashLeftRight(leaf1, leaf2)
  <2>1. RefNode(ls)[0 + 1][q] = hashLeftRight(RefNode(ls)[0][2 * q], RefNode(ls)[0][2 * q + 1])
    BY <1>1, RefAbove
  <2>2. 2 * q \in Nat /\ 2 * q + 1 \in Nat /\ 2 * q < Len(ls) /\ 2 * q + 1 < Len(ls)
    BY <1>2, <1>3 DEF Extended
  <2>3. RefNode(ls)[0][2 * q] = ls[2 * q + 1] /\ RefNode(ls)[0][2 * q + 1] = ls[(2 * q + 1) + 1]
    BY <2>2, RefLeaf
  <2>4. ls[2 * q + 1] = leaf1 /\ ls[(2 * q + 1) + 1] = leaf2
    BY <1>3 DEF Extended
  <2> QED BY <2>1, <2>3, <2>4
<1>5. Filled(ls, 1) = filledSubtrees
  <2>1. \A g \in 0 .. levels - 1 : g \notin 1 .. 1 - 1
    BY <1>1
  <2>2. filledSubtrees = [g \in 0 .. levels - 1 |-> filledSubtrees[g]]
    BY DEF Frontier
  <2> QED BY <2>1, <2>2 DEF Filled
<1> QED BY <1>1, <1>3, <1>4, <1>5 DEF Upward

(* One iteration of the loop of _insert.                                   *)
LEMMA UpwardClimbs ==
  ASSUME LeavesOK, Frontier, NEW leaf1, NEW leaf2, NEW ls, Extended(ls, leaf1, leaf2),
         NEW h, h \in 1 .. levels - 1
  PROVE  Upward(ls)[h + 1] = Climb(Upward(ls)[h], h)
<1>1. /\ levels \in Nat /\ h \in Nat /\ h \in Nat \ {0} /\ h \in 0 .. levels /\ h \in 1 .. levels
      /\ h + 1 \in 1 .. levels /\ h \in 0 .. levels - 1
  BY LevelsAssumption
<1>2. nextIndex \in Nat /\ nextIndex % 2 = 0 /\ nextIndex = Len(leaves) /\ Len(ls) = nextIndex + 2
  BY DEF LeavesOK, Extended
<1>3. PICK q \in Nat : /\ q = nextIndex \div 2 ^ h /\ q \div 2 = nextIndex \div 2 ^ (h + 1)
                       /\ (nextIndex + 1) \div 2 ^ h = q
  <2>1. nextIndex \div 2 ^ h \in Nat /\ (nextIndex \div 2 ^ h) \div 2 = nextIndex \div 2 ^ (h + 1)
    BY <1>1, <1>2, Parents
  <2>2. (nextIndex + 1) \div 2 ^ h = nextIndex \div 2 ^ h
    BY <1>1, <1>2, PairParents
  <2> QED BY <2>1, <2>2
<1> DEFINE W == Upward(ls)[h]
<1>4. W.pair = q /\ W.hash = RefNode(ls)[h][q] /\ W.filled = Filled(ls, h)
  BY <1>1, <1>3 DEF Upward
<1>5. Upward(ls)[h + 1] = [ pair |-> q \div 2, hash |-> RefNode(ls)[h + 1][q \div 2], filled |-> Filled(ls, h + 1) ]
  BY <1>1, <1>3 DEF Upward
<1>6. q \div 2 \in Nat
  OBVIOUS
<1>7. RefNode(ls)[h + 1][q \div 2]
        = hashLeftRight(RefNode(ls)[h][2 * (q \div 2)], RefNode(ls)[h][2 * (q \div 2) + 1])
  BY <1>1, <1>6, RefAbove
<1>8. DOMAIN Filled(ls, h) = 0 .. levels - 1 /\ DOMAIN Filled(ls, h + 1) = 0 .. levels - 1
  BY DEF Filled
<1>9. \A g \in 0 .. levels - 1 : g # h => (g \in 1 .. h - 1 <=> g \in 1 .. (h + 1) - 1)
  BY <1>1
<1>10. \A g \in 0 .. levels - 1 : g # h => Filled(ls, h + 1)[g] = Filled(ls, h)[g]
  BY <1>9 DEF Filled
<1>11. h \notin 1 .. h - 1 /\ h \in 1 .. (h + 1) - 1
  BY <1>1
<1>12. CASE q % 2 = 0
  <2>1. 2 * (q \div 2) = q
    BY <1>12
  <2>2. RefNode(ls)[h][q + 1] = zeros[h]
    <3>1. Len(ls) \in Nat /\ Len(ls) - 1 = nextIndex + 1
      BY <1>2
    <3>2. q + 1 > (Len(ls) - 1) \div 2 ^ h
      BY <1>3, <3>1
    <3>3. q + 1 \in Nat
      OBVIOUS
    <3> QED BY <1>1, <3>1, <3>2, <3>3, EmptyRight
  <2>3. RefNode(ls)[h + 1][q \div 2] = hashLeftRight(W.hash, zeros[h])
    BY <1>4, <1>7, <2>1, <2>2
  <2>4. Filled(ls, h + 1)[h] = RefNode(ls)[h][q]
    BY <1>1, <1>3, <1>11, <1>12 DEF Filled
  <2>5. Filled(ls, h + 1) = [W.filled EXCEPT ![h] = W.hash]
    <3> DEFINE F == Filled(ls, h)
               G == Filled(ls, h + 1)
    <3>1. G = [g \in 0 .. levels - 1 |-> G[g]]
      BY DEF Filled
    <3> HIDE DEF F, G, W
    <3>2. [F EXCEPT ![h] = RefNode(ls)[h][q]] = [g \in 0 .. levels - 1 |-> IF g = h THEN RefNode(ls)[h][q] ELSE F[g]]
      BY <1>1, <1>8 DEF F
    <3>3. \A g \in 0 .. levels - 1 : G[g] = IF g = h THEN RefNode(ls)[h][q] ELSE F[g]
      BY <1>10, <2>4 DEF F, G
    <3>4. G = [F EXCEPT ![h] = RefNode(ls)[h][q]]
      BY <3>1, <3>2, <3>3
    <3> QED BY <1>4, <3>4 DEF F, G
  <2>6. Climb(W, h) = [ pair |-> q \div 2, hash |-> hashLeftRight(W.hash, zeros[h]),
                        filled |-> [W.filled EXCEPT ![h] = W.hash] ]
    <3> HIDE DEF W
    <3> QED BY <1>4, <1>12 DEF Climb, IsLeftChild
  <2> QED BY <1>5, <2>3, <2>5, <2>6
<1>13. CASE q % 2 # 0
  <2>1. 2 * (q \div 2) = q - 1 /\ 2 * (q \div 2) + 1 = q /\ q % 2 = 1 /\ q - 1 \in Nat
    BY <1>13
  <2>2. W.filled[h] = filledSubtrees[h]
    BY <1>1, <1>4, <1>11 DEF Filled
  <2>3. filledSubtrees[h] = RefNode(leaves)[h][q - 1]
    BY <1>3, <2>1 DEF Frontier
  <2>4. RefNode(leaves)[h][q - 1] = RefNode(ls)[h][q - 1]
    <3>1. AgreeTo(leaves, ls, nextIndex)
      BY <1>2 DEF Extended, AgreeTo
    <3>2. q - 1 < nextIndex \div 2 ^ h
      BY <1>3
    <3> QED BY <1>1, <2>1, <3>1, <3>2, FullLeft
  <2>5. RefNode(ls)[h + 1][q \div 2] = hashLeftRight(W.filled[h], W.hash)
    BY <1>4, <1>7, <2>1, <2>2, <2>3, <2>4
  <2>6. Filled(ls, h + 1) = W.filled
    <3>1. Filled(ls, h + 1)[h] = filledSubtrees[h] /\ Filled(ls, h)[h] = filledSubtrees[h]
      BY <1>1, <1>3, <1>11, <2>1 DEF Filled
    <3>2. \A g \in 0 .. levels - 1 : Filled(ls, h + 1)[g] = Filled(ls, h)[g]
      BY <1>10, <3>1
    <3> DEFINE F == Filled(ls, h)
               G == Filled(ls, h + 1)
    <3>3. G = [g \in 0 .. levels - 1 |-> G[g]] /\ F = [g \in 0 .. levels - 1 |-> F[g]]
      BY DEF Filled
    <3> HIDE DEF F, G
    <3>4. G = F
      BY <3>2, <3>3 DEF F, G
    <3> QED BY <1>4, <3>4 DEF F, G
  <2>7. Climb(W, h) = [ pair |-> q \div 2, hash |-> hashLeftRight(W.filled[h], W.hash), filled |-> W.filled ]
    <3> HIDE DEF W
    <3> QED BY <1>4, <2>1 DEF Climb, IsLeftChild
  <2> QED BY <1>5, <2>5, <2>6, <2>7
<1> QED BY <1>12, <1>13

(* All of _insert's way up.                                                *)
LEMMA PathIsUpward ==
  ASSUME LeavesOK, Frontier, NEW leaf1, NEW leaf2, NEW ls, Extended(ls, leaf1, leaf2)
  PROVE  PathAbove(leaf1, leaf2)[levels] = Upward(ls)[levels]
<1> DEFINE S == [ pair |-> nextIndex \div 2, hash |-> hashLeftRight(leaf1, leaf2), filled |-> filledSubtrees ]
           Fill(f) == f = [h \in 1 .. levels |-> IF h = 1 THEN S ELSE Climb(f[h - 1], h - 1)]
           W == Upward(ls)
           P == PathAbove(leaf1, leaf2)
           T == { h \in 0 .. levels - 1 : P[h + 1] = W[h + 1] }
<1>0. levels \in Nat /\ levels - 1 \in Nat /\ (levels - 1) + 1 = levels
  BY LevelsAssumption
<1>1. W[1] = S
  BY UpwardStart
<1>2. \A h \in 1 .. levels - 1 : W[h + 1] = Climb(W[h], h)
  BY UpwardClimbs
<1>3. W = [h \in 1 .. levels |-> W[h]]
  BY DEF Upward
<1> HIDE DEF W, S
<1>4. Fill(W)
  <2>1. ASSUME NEW h \in 1 .. levels PROVE W[h] = IF h = 1 THEN S ELSE Climb(W[h - 1], h - 1)
    <3>1. CASE h = 1
      BY <1>1, <3>1
    <3>2. CASE h # 1
      <4>1. PICK g \in 1 .. levels - 1 : h = g + 1 /\ h - 1 = g
        BY <1>0, <3>2
      <4> QED BY <1>2, <3>2, <4>1
    <3> QED BY <3>1, <3>2
  <2> QED BY <1>3, <2>1
<1>5. P = CHOOSE f : Fill(f)
  BY DEF PathAbove, S
<1>6. Fill(P)
  BY <1>4, <1>5
<1> HIDE DEF P
<1>7. \A h \in 1 .. levels : P[h] = IF h = 1 THEN S ELSE Climb(P[h - 1], h - 1)
  BY <1>6
<1>8. 0 \in T
  <2>1. 1 \in 1 .. levels /\ 0 \in 0 .. levels - 1 /\ 0 + 1 = 1
    BY <1>0
  <2> QED BY <1>1, <1>7, <2>1
<1>9. ASSUME NEW h \in 0 .. (levels - 1) - 1, h \in T PROVE h + 1 \in T
  <2>1. PICK g \in 1 .. levels - 1 : g = h + 1 /\ (g + 1) - 1 = g /\ g + 1 # 1 /\ g + 1 \in 1 .. levels /\ g \in 0 .. levels - 1
    BY <1>0
  <2>2. P[g + 1] = Climb(P[g], g)
    BY <1>7, <2>1
  <2>3. P[g] = W[g]
    BY <1>9, <2>1
  <2>4. P[g + 1] = W[g + 1]
    BY <1>2, <2>2, <2>3
  <2> QED BY <2>1, <2>4
<1>10. 0 .. levels - 1 \subseteq T
  <2> HIDE DEF T
  <2> QED BY <1>0, <1>8, <1>9, HeightsBySteps
<1>11. P[(levels - 1) + 1] = W[(levels - 1) + 1]
  <2>1. levels - 1 \in 0 .. levels - 1
    BY <1>0
  <2> QED BY <1>10, <2>1
<1> QED BY <1>0, <1>11 DEF P, W

(* Sequences two elements longer.                                          *)
LEMMA Appended ==
  ASSUME NEW S, NEW s, s \in Seq(S), NEW x, x \in S, NEW y, y \in S
  PROVE  /\ s \o <<x, y>> \in Seq(S) /\ Len(s) \in Nat /\ Len(s \o <<x, y>>) = Len(s) + 2
         /\ \A k \in 1 .. Len(s) : (s \o <<x, y>>)[k] = s[k]
         /\ (s \o <<x, y>>)[Len(s) + 1] = x /\ (s \o <<x, y>>)[Len(s) + 2] = y
OBVIOUS

(* A prefix stays a prefix of a longer sequence.                           *)
LEMMA PrefixKept ==
  ASSUME NEW S, NEW s, s \in Seq(S), NEW t, t \in Seq(S), NEW n, n \in Nat, n <= Len(s), n <= Len(t),
         \A k \in 1 .. Len(s) : t[k] = s[k]
  PROVE  SubSeq(t, 1, n) = SubSeq(s, 1, n)
OBVIOUS

(* The prefix of full length is the sequence.                              *)
LEMMA WholePrefix ==
  ASSUME NEW S, NEW s, s \in Seq(S) PROVE SubSeq(s, 1, Len(s)) = s
OBVIOUS

(* An insertion leaves room for whole pairs.                               *)
LEMMA RoomForPairs ==
  ASSUME LeavesOK, HasRoom
  PROVE  /\ nextIndex \in Nat /\ nextIndex < 2 ^ levels /\ nextIndex + 2 <= 2 ^ levels
         /\ (nextIndex + 2) % 2 = 0
<1>1. PICK g \in Nat : levels = g + 1
  <2>1. levels - 1 \in Nat /\ levels = (levels - 1) + 1
    BY LevelsAssumption
  <2> QED BY <2>1
<1>2. PICK p \in Nat : p = 2 ^ g /\ 2 ^ levels = 2 * p
  BY <1>1, PowersOfTwo
<1>3. nextIndex \in Nat /\ nextIndex % 2 = 0 /\ nextIndex <= 2 * p /\ nextIndex # 2 * p
  BY <1>2 DEF LeavesOK, HasRoom
<1>4. nextIndex < 2 * p /\ nextIndex + 2 <= 2 * p /\ (nextIndex + 2) % 2 = 0
  BY ONLY <1>3, p \in Nat
<1> QED BY <1>2, <1>3, <1>4

(* An insertion of leaves that may be inserted.                            *)
Insertion(leaf1, leaf2) ==
  leaf1 \in Leaf /\ leaf2 \in Leaf \cup {ZERO_VALUE} /\ insert(leaf1, leaf2)

(* An insertion adds its pair to the leaves and changes none.              *)
LEMMA LeavesKept ==
  ASSUME LeavesOK, NEW leaf1, NEW leaf2, Insertion(leaf1, leaf2)
  PROVE  /\ LeavesOK' /\ Extended(leaves', leaf1, leaf2) /\ AgreeTo(leaves, leaves', nextIndex)
         /\ Len(leaves') = nextIndex + 2 /\ nextIndex' = nextIndex + 2
         /\ \A n \in 0 .. nextIndex : SubSeq(leaves', 1, n) = SubSeq(leaves, 1, n)
         /\ SubSeq(leaves', 1, nextIndex') = leaves'
<1> DEFINE S == Leaf \cup {ZERO_VALUE}
<1>1. leaf1 \in S /\ leaf2 \in S /\ leaf1 \in Leaf
  BY DEF Insertion
<1>2. leaves \in Seq(S) /\ nextIndex = Len(leaves)
  BY DEF LeavesOK
<1>3. leaves' = leaves \o <<leaf1, leaf2>> /\ nextIndex' = nextIndex + 2 /\ HasRoom
  BY DEF Insertion, insert
<1> HIDE DEF S
<1>4. /\ leaves' \in Seq(S) /\ Len(leaves) \in Nat /\ Len(leaves') = nextIndex + 2
      /\ \A k \in 1 .. nextIndex : leaves'[k] = leaves[k]
      /\ leaves'[nextIndex + 1] = leaf1 /\ leaves'[nextIndex + 2] = leaf2
  BY <1>1, <1>2, <1>3, Appended
<1>5. nextIndex \in Nat /\ nextIndex + 2 <= 2 ^ levels /\ (nextIndex + 2) % 2 = 0 /\ nextIndex % 2 = 0
  BY <1>3, RoomForPairs DEF LeavesOK
<1>6. ASSUME NEW k \in 1 .. Len(leaves'), k % 2 = 1 PROVE leaves'[k] \in Leaf
  <2>1. k \in 1 .. nextIndex \/ k = nextIndex + 1 \/ k = nextIndex + 2
    BY <1>4, <1>5
  <2>2. k # nextIndex + 2
    BY <1>5, <1>6
  <2>3. CASE k \in 1 .. nextIndex
    <3>1. leaves[k] \in Leaf
      BY <1>2, <1>6, <2>3 DEF LeavesOK
    <3> QED BY <1>4, <2>3, <3>1
  <2>4. CASE k = nextIndex + 1
    BY <1>1, <1>4, <2>4
  <2> QED BY <2>1, <2>2, <2>3, <2>4
<1>7. LeavesOK'
  <2>1. leaves' \in Seq(Leaf \cup {ZERO_VALUE})
    BY <1>4 DEF S
  <2> QED BY <1>3, <1>4, <1>5, <1>6, <2>1 DEF LeavesOK
<1>8. ASSUME NEW n \in 0 .. nextIndex PROVE SubSeq(leaves', 1, n) = SubSeq(leaves, 1, n)
  <2>1. n \in Nat /\ n <= Len(leaves) /\ n <= Len(leaves') /\ \A k \in 1 .. Len(leaves) : leaves'[k] = leaves[k]
    BY <1>2, <1>4, <1>5
  <2> QED BY <1>2, <1>4, <2>1, PrefixKept
<1>9. SubSeq(leaves', 1, nextIndex') = leaves'
  BY <1>3, <1>4, WholePrefix
<1>10. AgreeTo(leaves, leaves', nextIndex)
  BY <1>2, <1>4, <1>5 DEF AgreeTo
<1> QED BY <1>3, <1>4, <1>7, <1>8, <1>9, <1>10 DEF Extended

(* An insertion keeps the frontier, and its new root is the root of the    *)
(* whole tree.                                                             *)
LEMMA FrontierKept ==
  ASSUME LeavesOK, Frontier, NEW leaf1, NEW leaf2, Insertion(leaf1, leaf2)
  PROVE  /\ Frontier'
         /\ PathAbove(leaf1, leaf2)[levels].hash = RefRoot(leaves')
<1> DEFINE ls == leaves'
           top == PathAbove(leaf1, leaf2)[levels]
<1>0. levels \in Nat /\ levels \in 1 .. levels
  BY LevelsAssumption
<1>1. /\ LeavesOK' /\ Extended(ls, leaf1, leaf2) /\ AgreeTo(leaves, ls, nextIndex)
      /\ nextIndex' = nextIndex + 2 /\ nextIndex \in Nat /\ nextIndex % 2 = 0 /\ nextIndex < 2 ^ levels
  <2>1. HasRoom
    BY DEF Insertion, insert
  <2> QED BY <2>1, LeavesKept, RoomForPairs DEF LeavesOK
<1>2. top = Upward(ls)[levels]
  BY <1>1, PathIsUpward
<1>3. /\ top.hash = RefNode(ls)[levels][nextIndex \div 2 ^ levels]
      /\ top.filled = Filled(ls, levels)
  BY <1>0, <1>2 DEF Upward
<1>4. nextIndex \div 2 ^ levels = 0
  BY <1>0, <1>1, Parents
<1>5. filledSubtrees' = Filled(ls, levels)
  BY <1>3 DEF Insertion, insert
<1>6. filledSubtrees' = [g \in 0 .. levels - 1 |-> filledSubtrees'[g]]
  BY <1>5 DEF Filled
<1>7. ASSUME NEW h \in 1 .. levels - 1, (nextIndex' \div 2 ^ h) % 2 = 1
      PROVE  filledSubtrees'[h] = RefNode(ls)[h][nextIndex' \div 2 ^ h - 1]
  <2>1. h \in Nat /\ h \in Nat \ {0} /\ h \in 0 .. levels - 1 /\ h \in 0 .. levels
    BY <1>0
  <2>2. PICK q \in Nat : q = nextIndex \div 2 ^ h
    BY <1>1, <2>1, Parents
  <2>3. PICK r \in Nat : r = nextIndex' \div 2 ^ h /\ r \in {q, q + 1}
    <3>1. (nextIndex + 2) \div 2 ^ h \in {nextIndex \div 2 ^ h, nextIndex \div 2 ^ h + 1}
      BY <1>1, <2>1, PairParents
    <3> QED BY <1>1, <2>2, <3>1
  <2>4. r % 2 = 1
    BY <1>7, <2>3
  <2>5. filledSubtrees'[h] = IF q % 2 = 0 THEN RefNode(ls)[h][q] ELSE filledSubtrees[h]
    BY <1>5, <2>1, <2>2 DEF Filled
  <2>6. CASE r = q
    <3>1. q - 1 \in Nat /\ q - 1 < nextIndex \div 2 ^ h /\ q % 2 = 1
      BY <2>2, <2>4, <2>6
    <3>2. filledSubtrees[h] = RefNode(leaves)[h][q - 1]
      BY <2>2, <3>1 DEF Frontier
    <3>3. RefNode(leaves)[h][q - 1] = RefNode(ls)[h][q - 1]
      BY <1>1, <2>1, <3>1, FullLeft
    <3> QED BY <2>3, <2>5, <2>6, <3>1, <3>2, <3>3
  <2>7. CASE r = q + 1
    <3>1. q % 2 = 0 /\ r - 1 = q
      BY <2>4, <2>7
    <3> QED BY <2>3, <2>5, <3>1
  <2> QED BY <2>3, <2>6, <2>7
<1> QED BY <1>3, <1>4, <1>6, <1>7 DEF Frontier, RefRoot

(* An insertion ages the roots of the trees before it by one slot.         *)
LEMMA SnapshotsKept ==
  ASSUME RingOK, LeavesOK, Frontier, RootsAreSnapshots,
         NEW leaf1, NEW leaf2, Insertion(leaf1, leaf2)
  PROVE  RootsAreSnapshots'
<1> DEFINE n == nextIndex
<1>1. insert(leaf1, leaf2)
  BY DEF Insertion
<1>2. /\ n \in Nat /\ n' = n + 2 /\ SubSeq(leaves', 1, n') = leaves'
      /\ \A m \in 0 .. n : SubSeq(leaves', 1, m) = SubSeq(leaves, 1, m)
  BY LeavesKept DEF LeavesOK
<1>3. /\ roots'[SlotOfAge(0)'] = RefRoot(leaves')
      /\ \A a \in Slot \ {0} : a - 1 \in Slot /\ roots'[SlotOfAge(a)'] = roots[SlotOfAge(a - 1)]
  BY <1>1, RingShift, FrontierKept
<1>4. \A a \in Slot : roots[SlotOfAge(a)] = IF 2 * a <= n THEN RefRoot(SubSeq(leaves, 1, n - 2 * a)) ELSE Unset
  BY DEF RootsAreSnapshots
<1>5. Slot' = Slot /\ Slot \subseteq Nat
  BY HistoryAssumption DEF Slot
<1>6. ASSUME NEW a \in Slot
      PROVE  roots'[SlotOfAge(a)'] = IF 2 * a <= n' THEN RefRoot(SubSeq(leaves', 1, n' - 2 * a)) ELSE Unset
  <2>1. CASE a = 0
    <3>1. 2 * a <= n' /\ n' - 2 * a = n'
      BY <1>2, <2>1
    <3> QED BY <1>2, <1>3, <2>1, <3>1
  <2>2. CASE a # 0
    <3>1. PICK b \in Slot : b = a - 1 /\ roots'[SlotOfAge(a)'] = roots[SlotOfAge(b)]
      BY <1>3, <2>2
    <3>2. b \in Nat /\ (2 * a <= n' <=> 2 * b <= n) /\ n' - 2 * a = n - 2 * b /\ (2 * b <= n => n - 2 * b \in 0 .. n)
      BY <1>2, <1>5, <3>1
    <3>3. roots[SlotOfAge(b)] = IF 2 * b <= n THEN RefRoot(SubSeq(leaves, 1, n - 2 * b)) ELSE Unset
      BY <1>4
    <3>4. CASE 2 * b <= n
      <4>1. SubSeq(leaves', 1, n - 2 * b) = SubSeq(leaves, 1, n - 2 * b)
        BY <1>2, <3>2, <3>4
      <4> QED BY <3>1, <3>2, <3>3, <3>4, <4>1
    <3>5. CASE ~ (2 * b <= n)
      BY <3>1, <3>2, <3>3, <3>5
    <3> QED BY <3>4, <3>5
  <2> QED BY <2>1, <2>2
<1> HIDE DEF n
<1> QED BY <1>5, <1>6 DEF RootsAreSnapshots, n, RefRoot, RefNode, hashLeftRight

(* The inductive invariant of the contract's tree.                         *)
TreeInv == RingOK /\ LeavesOK /\ Frontier /\ RootsAreSnapshots

(* The deployed tree is empty and its one root that of no leaves.          *)
LEMMA TreeStarts == Init => TreeInv
<1> SUFFICES ASSUME Init PROVE TreeInv
  OBVIOUS
<1>0. levels \in Nat /\ levels \in 0 .. levels /\ ROOT_HISTORY_SIZE \in Nat \ {0}
  BY LevelsAssumption, HistoryAssumption
<1>1. RingOK
  BY <1>0 DEF Init, RingOK, Slot
<1>2. LeavesOK
  <2>1. 2 ^ levels \in Nat \ {0}
    BY <1>0, PowersOfTwo
  <2> QED BY <2>1 DEF Init, LeavesOK
<1>3. Frontier
  <2>1. filledSubtrees = [g \in 0 .. levels - 1 |-> filledSubtrees[g]]
    BY DEF Init
  <2>2. ASSUME NEW h \in 1 .. levels - 1 PROVE (nextIndex \div 2 ^ h) % 2 = 0
    <3>0. h \in Nat
      OBVIOUS
    <3>1. 2 ^ h \in Nat \ {0}
      BY <3>0, PowersOfTwo
    <3>2. nextIndex \div 2 ^ h = 0
      BY <3>1 DEF Init
    <3> QED BY <3>2
  <2>3. 0 # 1
    OBVIOUS
  <2> QED BY <2>1, <2>2, <2>3 DEF Frontier
<1>4. RootsAreSnapshots
  <2>1. ASSUME NEW a \in Slot
        PROVE  /\ SlotOfAge(a) \in Slot /\ (SlotOfAge(a) = 0 <=> a = 0)
               /\ (2 * a <= nextIndex <=> a = 0) /\ a \in Nat
    BY <1>0 DEF Init, Slot, SlotOfAge
  <2>2. SubSeq(leaves, 1, nextIndex - 2 * 0) = << >> /\ Len(<< >>) = 0
    BY DEF Init
  <2>3. RefRoot(<< >>) = zeros[levels]
    <3>1. RefNode(<< >>)[levels][0] = zeros[levels]
      BY <1>0, <2>2, EmptyRight
    <3> QED BY <3>1 DEF RefRoot
  <2>4. \A s \in Slot : roots[s] = IF s = 0 THEN zeros[levels] ELSE Unset
    BY DEF Init
  <2>5. ASSUME NEW a \in Slot
        PROVE  roots[SlotOfAge(a)] = IF 2 * a <= nextIndex THEN RefRoot(SubSeq(leaves, 1, nextIndex - 2 * a)) ELSE Unset
    <3>1. CASE a = 0
      BY <2>1, <2>2, <2>3, <2>4, <3>1
    <3>2. CASE a # 0
      BY <2>1, <2>4, <3>2
    <3> QED BY <3>1, <3>2
  <2> QED BY <2>5 DEF RootsAreSnapshots
<1> QED BY <1>1, <1>2, <1>3, <1>4 DEF TreeInv

(* Every insertion keeps the invariant.                                    *)
LEMMA TreeSteps == TreeInv /\ [Next]_vars => TreeInv'
<1> SUFFICES ASSUME TreeInv, [Next]_vars PROVE TreeInv'
  OBVIOUS
<1> USE DEF TreeInv
<1>1. ASSUME NEW leaf1 \in Leaf, NEW leaf2 \in Leaf \cup {ZERO_VALUE}, insert(leaf1, leaf2)
      PROVE  TreeInv'
  <2>1. Insertion(leaf1, leaf2)
    BY <1>1 DEF Insertion
  <2>2. RingOK'
    BY <1>1, RingShift
  <2>3. LeavesOK' /\ Frontier' /\ RootsAreSnapshots'
    BY <2>1, LeavesKept, FrontierKept, SnapshotsKept
  <2> QED BY <2>2, <2>3
<1>2. CASE UNCHANGED vars
  BY <1>2 DEF vars, RingOK, LeavesOK, Frontier, RootsAreSnapshots, SlotOfAge
<1> QED BY <1>1, <1>2 DEF Next

(* The invariant holds of the contract's tree at every time.               *)
THEOREM TreeCorrect == Spec => []TreeInv
BY TreeStarts, TreeSteps, PTL DEF Spec

(* The state stays well-formed, for every depth and ring size.             *)
THEOREM TreeIsTyped == Spec => []TypeOK
<1>1. TreeInv => TypeOK
  <2> SUFFICES ASSUME TreeInv PROVE TypeOK
    OBVIOUS
  <2>1. nextIndex = Len(leaves) /\ nextIndex \in 0 .. 2 ^ levels
    <3>1. leaves \in Seq(Leaf \cup {ZERO_VALUE}) /\ nextIndex = Len(leaves) /\ nextIndex <= 2 ^ levels
      BY DEF TreeInv, LeavesOK
    <3>2. Len(leaves) \in Nat
      BY <3>1
    <3>3. 2 ^ levels \in Nat
      <4>1. levels \in Nat
        BY LevelsAssumption
      <4> QED BY <4>1, PowersOfTwo
    <3> QED BY <3>1, <3>2, <3>3
  <2>2. DOMAIN filledSubtrees = 0 .. levels - 1
    BY DEF TreeInv, Frontier
  <2>3. currentRootIndex \in Slot /\ DOMAIN roots = Slot
    BY DEF TreeInv, RingOK
  <2> QED BY <2>1, <2>2, <2>3 DEF TypeOK
<1> QED BY <1>1, TreeCorrect, PTL

(* The frontier computation of _insert agrees with hashing the whole       *)
(* tree: every root in the ring is that of the tree as it was so many      *)
(* insertions ago.                                                         *)
THEOREM RootsAreTheTree == Spec => []RootsAreSnapshots
BY TreeCorrect, PTL DEF TreeInv

-----------------------------------------------------------------------------
(* Trees of two even prefixes of the leaves have different roots.          *)
Prefix(n) == SubSeq(leaves, 1, n)

(* A prefix of the leaves is made of their first n.                        *)
LEMMA PrefixLeaves ==
  ASSUME LeavesOK, NEW n, n \in 0 .. nextIndex
  PROVE  /\ Len(Prefix(n)) = n /\ Prefix(n) \in Seq(Leaf \cup {ZERO_VALUE})
         /\ \A k \in 1 .. n : Prefix(n)[k] = leaves[k]
<1> DEFINE S == Leaf \cup {ZERO_VALUE}
<1>1. leaves \in Seq(S) /\ nextIndex = Len(leaves)
  BY DEF LeavesOK
<1> HIDE DEF S
<1>2. Len(Prefix(n)) = n /\ Prefix(n) \in Seq(S) /\ \A k \in 1 .. n : Prefix(n)[k] = leaves[k]
  BY <1>1 DEF Prefix
<1> QED BY <1>2 DEF S

(* The shorter one is empty where the longer has a commitment, and no      *)
(* hash above it hides that.                                               *)
LEMMA RootsDiffer ==
  ASSUME LeavesOK, NEW n, NEW m, n \in 0 .. nextIndex, m \in 0 .. nextIndex,
         n % 2 = 0, n < m
  PROVE  RefRoot(Prefix(n)) # RefRoot(Prefix(m))
<1> DEFINE A == RefNode(Prefix(n))
           B == RefNode(Prefix(m))
           T == { h \in 0 .. levels : A[h][n \div 2 ^ h] # B[h][n \div 2 ^ h] }
<1>0. levels \in Nat /\ levels \in 0 .. levels /\ 0 \in 0 .. levels
  BY LevelsAssumption
<1>1. /\ nextIndex \in Nat /\ nextIndex <= 2 ^ levels /\ nextIndex = Len(leaves) /\ n \in Nat /\ m \in Nat
      /\ n < nextIndex
  BY DEF LeavesOK
<1>2. n < 2 ^ levels
  <2>1. 2 ^ levels \in Nat
    BY <1>0, PowersOfTwo
  <2> QED BY <1>1, <2>1
<1>3. 0 \in T
  <2>1. n \div 2 ^ 0 = n
    BY <1>1, Parents
  <2>2. A[0][n] = ZERO_VALUE
    <3>1. Len(Prefix(n)) = n /\ ~ (n < n)
      BY <1>1, PrefixLeaves
    <3>2. A[0][n] = IF n < Len(Prefix(n)) THEN Prefix(n)[n + 1] ELSE ZERO_VALUE
      BY <1>1, RefLeaf
    <3> HIDE DEF A
    <3> QED BY <3>1, <3>2
  <2>3. B[0][n] = leaves[n + 1]
    <3>0. n + 1 \in 1 .. m
      BY <1>1
    <3>1. Len(Prefix(m)) = m /\ n + 1 \in 1 .. m /\ Prefix(m)[n + 1] = leaves[n + 1]
      <4> HIDE DEF A, B, T
      <4>1. Len(Prefix(m)) = m /\ \A k \in 1 .. m : Prefix(m)[k] = leaves[k]
        BY PrefixLeaves
      <4> QED BY <3>0, <4>1
    <3>2. B[0][n] = IF n < Len(Prefix(m)) THEN Prefix(m)[n + 1] ELSE ZERO_VALUE
      BY <1>1, RefLeaf
    <3> HIDE DEF B
    <3> QED BY <3>1, <3>2
  <2>4. leaves[n + 1] \in Leaf
    <3>1. n + 1 \in 1 .. Len(leaves) /\ (n + 1) % 2 = 1
      BY <1>1
    <3> QED BY <3>1 DEF LeavesOK
  <2> HIDE DEF A, B
  <2> QED BY <1>0, <2>1, <2>2, <2>3, <2>4, LeafAssumption
<1>4. ASSUME NEW h \in 0 .. levels - 1, h \in T PROVE h + 1 \in T
  <2>1. h \in Nat /\ h + 1 \in 0 .. levels
    BY <1>0
  <2>2. PICK q \in Nat : q = n \div 2 ^ h /\ q \div 2 = n \div 2 ^ (h + 1)
    BY <1>1, <2>1, Parents
  <2>3. q \div 2 \in Nat /\ (q = 2 * (q \div 2) \/ q = 2 * (q \div 2) + 1)
    OBVIOUS
  <2>4. /\ A[h + 1][q \div 2] = <<A[h][2 * (q \div 2)], A[h][2 * (q \div 2) + 1]>>
        /\ B[h + 1][q \div 2] = <<B[h][2 * (q \div 2)], B[h][2 * (q \div 2) + 1]>>
    BY <2>3, RefAbove DEF hashLeftRight
  <2>5. A[h][q] # B[h][q]
    BY <1>4, <2>2
  <2> HIDE DEF A, B
  <2>6. A[h + 1][q \div 2] # B[h + 1][q \div 2]
    BY <2>3, <2>4, <2>5
  <2> QED BY <2>1, <2>2, <2>6
<1>5. levels \in T
  <2> HIDE DEF T
  <2> QED BY <1>0, <1>3, <1>4, HeightsBySteps
<1>6. n \div 2 ^ levels = 0
  BY <1>0, <1>1, <1>2, Parents
<1> QED BY <1>5, <1>6 DEF RefRoot

(* No hash is 0, the value of a slot never written.                        *)
NoHashIsZero == \A x, y : hashLeftRight(x, y) # Unset

(* A root is never the value of an unwritten slot.                         *)
LEMMA RootIsHash ==
  ASSUME NoHashIsZero, NEW ls
  PROVE  RefRoot(ls) # Unset
<1>1. PICK h \in 0 .. levels - 1 : levels = h + 1
  <2>1. levels - 1 \in 0 .. levels - 1 /\ levels = (levels - 1) + 1
    BY LevelsAssumption
  <2> QED BY <2>1
<1>2. RefNode(ls)[h + 1][0] = hashLeftRight(RefNode(ls)[h][2 * 0], RefNode(ls)[h][2 * 0 + 1])
  BY RefAbove
<1> QED BY <1>1, <1>2 DEF RefRoot, NoHashIsZero

(* The root of an even prefix is known while it is among the newest.       *)
LEMMA KnownPrefix ==
  ASSUME NoHashIsZero, TreeInv, NEW n, n \in 0 .. nextIndex, n % 2 = 0
  PROVE  isKnownRoot(RefRoot(Prefix(n))) <=> (nextIndex - n) \div 2 < ROOT_HISTORY_SIZE
<1>1. nextIndex \in Nat /\ nextIndex % 2 = 0 /\ LeavesOK
  BY DEF TreeInv, LeavesOK
<1>2. \A a \in Slot : roots[SlotOfAge(a)] = IF 2 * a <= nextIndex THEN RefRoot(Prefix(nextIndex - 2 * a)) ELSE Unset
  BY DEF TreeInv, RootsAreSnapshots, Prefix
<1>3. isKnownRoot(RefRoot(Prefix(n))) <=> \E a \in Slot : roots[SlotOfAge(a)] = RefRoot(Prefix(n))
  BY KnownRegistered, RootIsHash DEF KnownIsRegistered
<1>4. PICK b \in Nat : b = (nextIndex - n) \div 2 /\ nextIndex - 2 * b = n /\ 2 * b <= nextIndex
  <2>1. nextIndex - n \in Nat /\ (nextIndex - n) % 2 = 0
    BY <1>1
  <2>2. (nextIndex - n) \div 2 \in Nat /\ nextIndex - n = 2 * ((nextIndex - n) \div 2)
    BY <2>1
  <2> QED BY <1>1, <2>2
<1>5. ASSUME b < ROOT_HISTORY_SIZE PROVE \E a \in Slot : roots[SlotOfAge(a)] = RefRoot(Prefix(n))
  <2>1. b \in Slot
    BY <1>5, HistoryAssumption DEF Slot
  <2> QED BY <1>2, <1>4, <2>1
<1>6. ASSUME NEW a \in Slot, roots[SlotOfAge(a)] = RefRoot(Prefix(n)) PROVE b < ROOT_HISTORY_SIZE
  <2>1. a \in Nat /\ a < ROOT_HISTORY_SIZE
    BY HistoryAssumption DEF Slot
  <2>2. 2 * a <= nextIndex /\ RefRoot(Prefix(nextIndex - 2 * a)) = RefRoot(Prefix(n))
    BY <1>2, <1>6, RootIsHash
  <2>3. PICK m \in 0 .. nextIndex : m = nextIndex - 2 * a /\ m % 2 = 0
    BY <1>1, <2>1, <2>2
  <2>4. ~ (n < m) /\ ~ (m < n)
    BY <1>1, <2>2, <2>3, RootsDiffer
  <2>5. m = n
    BY <1>1, <2>4
  <2> QED BY <1>1, <1>4, <2>1, <2>3, <2>5
<1> QED BY <1>3, <1>4, <1>5, <1>6

(* isKnownRoot accepts the roots of exactly the ROOT_HISTORY_SIZE newest   *)
(* trees, for every depth, ring size and history.                          *)
THEOREM KnownRootsRecent ==
  ASSUME NoHashIsZero
  PROVE  Spec => []KnownRootsAreRecent
<1>1. TreeInv => KnownRootsAreRecent
  <2> SUFFICES ASSUME TreeInv PROVE KnownRootsAreRecent
    OBVIOUS
  <2>1. ~ isKnownRoot(Unset)
    BY DEF isKnownRoot
  <2>2. \A n \in { m \in 0 .. nextIndex : m % 2 = 0 } :
          isKnownRoot(RefRoot(SubSeq(leaves, 1, n))) <=> (nextIndex - n) \div 2 < ROOT_HISTORY_SIZE
    BY KnownPrefix DEF Prefix
  <2> QED BY <2>1, <2>2 DEF KnownRootsAreRecent
<1> QED BY <1>1, TreeCorrect, PTL

-----------------------------------------------------------------------------
(* The client's zeros are the contract's, below the root.                  *)
LEMMA ClientZeros == \A h \in 0 .. levels - 1 : Client!zeros[h] = zeros[h]
<1> DEFINE Fill(f) == f = [h \in 0 .. levels - 1 |->
                             IF h = 0 THEN ZERO_VALUE ELSE Client!poseidon2(f[h - 1], f[h - 1])]
           z == [h \in 0 .. levels - 1 |-> zeros[h]]
           C == Client!zeros
           T == { h \in 0 .. levels - 1 : C[h] = z[h] }
<1>0. levels - 1 \in Nat /\ levels \in Nat
  BY LevelsAssumption
<1>1. ASSUME NEW h \in 0 .. levels - 1
      PROVE  z[h] = IF h = 0 THEN ZERO_VALUE ELSE Client!poseidon2(z[h - 1], z[h - 1])
  <2>1. CASE h = 0
    BY <2>1, Zeros
  <2>2. CASE h # 0
    <3>1. PICK g \in 0 .. levels - 1 : h = g + 1 /\ h - 1 = g
      BY <1>0, <2>2
    <3>2. zeros[g + 1] = hashLeftRight(zeros[g], zeros[g])
      BY Zeros
    <3>3. z[h] = zeros[h] /\ z[g] = zeros[g]
      OBVIOUS
    <3> QED BY <2>2, <3>1, <3>2, <3>3 DEF hashLeftRight, Client!poseidon2
  <2> QED BY <2>1, <2>2
<1>2. z = [h \in 0 .. levels - 1 |-> z[h]]
  OBVIOUS
<1>3. \A h \in 0 .. levels - 1 : z[h] = zeros[h]
  OBVIOUS
<1>4. C = CHOOSE f : Fill(f)
  BY DEF Client!zeros
<1> HIDE DEF z, C
<1>5. Fill(z)
  BY <1>1, <1>2
<1>6. Fill(C)
  BY <1>4, <1>5
<1>7. \A h \in 0 .. levels - 1 : C[h] = IF h = 0 THEN ZERO_VALUE ELSE Client!poseidon2(C[h - 1], C[h - 1])
  BY <1>6
<1>8. 0 \in T
  <2>1. 0 \in 0 .. levels - 1
    BY <1>0
  <2> QED BY <1>1, <1>7, <2>1
<1>9. ASSUME NEW h \in 0 .. (levels - 1) - 1, h \in T PROVE h + 1 \in T
  <2>1. h + 1 \in 0 .. levels - 1 /\ h + 1 # 0 /\ (h + 1) - 1 = h
    BY <1>0
  <2>2. C[h + 1] = Client!poseidon2(C[h], C[h]) /\ z[h + 1] = Client!poseidon2(z[h], z[h])
    BY <1>1, <1>7, <2>1
  <2> QED BY <1>9, <2>1, <2>2
<1>10. 0 .. levels - 1 \subseteq T
  <2> HIDE DEF T
  <2> QED BY <1>0, <1>8, <1>9, HeightsBySteps
<1> QED BY <1>3, <1>10 DEF C

(* The layers a client that has appended ls holds: at every height the     *)
(* nodes up to the one above its last leaf.                                *)
Width(ls, h) == IF Len(ls) = 0 THEN 0 ELSE (Len(ls) - 1) \div 2 ^ h + 1
Layer(ls, h) == [i \in 1 .. Width(ls, h) |-> RefNode(ls)[h][i - 1]]
Layers(ls) == [h \in 0 .. levels |-> Layer(ls, h)]

(* A layer has its width, and the bottom one a place for every leaf.       *)
LEMMA Widths ==
  ASSUME NEW ls, Len(ls) \in Nat, NEW h, h \in Nat
  PROVE  /\ Width(ls, h) \in Nat /\ Len(Layer(ls, h)) = Width(ls, h)
         /\ Width(ls, 0) = Len(ls)
         /\ Len(ls) # 0 => Width(ls, h) > 0
<1>1. CASE Len(ls) = 0
  <2>1. Width(ls, h) = 0 /\ Width(ls, 0) = 0
    BY <1>1 DEF Width
  <2>2. Len(Layer(ls, h)) = 0
    BY <2>1 DEF Layer
  <2> QED BY <1>1, <2>1, <2>2
<1>2. CASE Len(ls) # 0
  <2>1. Len(ls) - 1 \in Nat
    BY <1>2
  <2>2. (Len(ls) - 1) \div 2 ^ h \in Nat /\ (Len(ls) - 1) \div 2 ^ 0 = Len(ls) - 1
    BY <2>1, Parents
  <2>3. Width(ls, h) \in Nat /\ Width(ls, h) > 0 /\ Width(ls, 0) = Len(ls)
    BY <1>2, <2>2 DEF Width
  <2>4. Len(Layer(ls, h)) = Width(ls, h)
    BY <2>3 DEF Layer
  <2> QED BY <2>3, <2>4
<1> QED BY <1>1, <1>2

(* layer[i] ?? zeros[level] is the node of the whole tree.                 *)
LEMMA NodesOfLayer ==
  ASSUME NEW ls, Len(ls) \in Nat, NEW h, h \in 0 .. levels - 1, NEW i, i \in Nat
  PROVE  Client!NodeOr0(Layer(ls, h), i, h) = RefNode(ls)[h][i]
<1>1. h \in Nat /\ h \in 0 .. levels
  BY LevelsAssumption
<1>2. Width(ls, h) \in Nat /\ Len(Layer(ls, h)) = Width(ls, h)
  BY <1>1, Widths
<1>3. CASE i < Width(ls, h)
  <2>1. i + 1 \in 1 .. Width(ls, h) /\ (i + 1) - 1 = i
    BY <1>2, <1>3
  <2>2. Layer(ls, h)[i + 1] = RefNode(ls)[h][i]
    BY <2>1 DEF Layer
  <2> QED BY <1>2, <1>3, <2>2 DEF Client!NodeOr0
<1>4. CASE ~ (i < Width(ls, h))
  <2>1. Len(ls) = 0 \/ i > (Len(ls) - 1) \div 2 ^ h
    <3>1. CASE Len(ls) # 0
      <4>1. Len(ls) - 1 \in Nat
        BY <3>1
      <4>2. (Len(ls) - 1) \div 2 ^ h \in Nat
        BY <1>1, <4>1, Parents
      <4> QED BY <1>4, <3>1, <4>2 DEF Width
    <3> QED BY <3>1
  <2>2. RefNode(ls)[h][i] = zeros[h]
    BY <1>1, <2>1, EmptyRight
  <2>3. Client!NodeOr0(Layer(ls, h), i, h) = Client!zeros[h]
    BY <1>2, <1>4 DEF Client!NodeOr0
  <2> QED BY <2>2, <2>3, ClientZeros
<1> QED BY <1>3, <1>4

(* One more leaf: Store puts the node above it into every layer.           *)
OneLonger(ls, longer) ==
  /\ Len(ls) \in Nat /\ Len(longer) = Len(ls) + 1
  /\ AgreeTo(ls, longer, Len(ls))

(* Store extends a layer by its last node, or rewrites that node.          *)
LEMMA LayerGrows ==
  ASSUME NEW ls, NEW longer, OneLonger(ls, longer), NEW h, h \in 0 .. levels
  PROVE  Layer(longer, h)
           = Client!Store(Layer(ls, h), Client!ParentIndex(Len(ls), h), RefNode(longer)[h][Len(ls) \div 2 ^ h])
<1> DEFINE x == RefNode(longer)[h][Len(ls) \div 2 ^ h]
           old == Layer(ls, h)
           new == Layer(longer, h)
<1>1. h \in Nat /\ Len(ls) \in Nat /\ Len(longer) = Len(ls) + 1 /\ Len(longer) \in Nat /\ AgreeTo(ls, longer, Len(ls))
  BY LevelsAssumption DEF OneLonger
<1>2. PICK p \in Nat : p = Len(ls) \div 2 ^ h
  BY <1>1, Parents
<1>3. Width(longer, h) = p + 1
  BY <1>1, <1>2 DEF Width
<1>4. PICK w \in Nat : w = Width(ls, h) /\ Len(old) = w
  BY <1>1, Widths
<1>5. w = p \/ w = p + 1
  <2>1. CASE Len(ls) = 0
    <3>1. w = 0
      BY <1>4, <2>1 DEF Width
    <3>2. 2 ^ h \in Nat \ {0}
      BY <1>1, PowersOfTwo
    <3>3. p = 0
      BY <1>2, <2>1, <3>2
    <3> QED BY <3>1, <3>3
  <2>2. CASE Len(ls) # 0
    <3>1. Len(ls) - 1 \in Nat /\ (Len(ls) - 1) + 1 = Len(ls)
      BY <1>1, <2>2
    <3>2. ((Len(ls) - 1) + 1) \div 2 ^ h \in {(Len(ls) - 1) \div 2 ^ h, (Len(ls) - 1) \div 2 ^ h + 1}
      BY <1>1, <3>1, NextParent
    <3>3. (Len(ls) - 1) \div 2 ^ h \in Nat
      BY <1>1, <3>1, Parents
    <3>4. w = (Len(ls) - 1) \div 2 ^ h + 1
      BY <1>4, <2>2 DEF Width
    <3> QED BY <1>2, <3>1, <3>2, <3>3, <3>4
  <2> QED BY <2>1, <2>2
<1>6. \A i \in Nat : i < p => RefNode(ls)[h][i] = RefNode(longer)[h][i]
  BY <1>1, <1>2, FullLeft
<1>7. old = [i \in 1 .. w |-> RefNode(ls)[h][i - 1]] /\ new = [i \in 1 .. p + 1 |-> RefNode(longer)[h][i - 1]]
  BY <1>3, <1>4 DEF Layer
<1>8. x = RefNode(longer)[h][p]
  BY <1>2
<1> HIDE DEF x, old, new
<1>9. \A i \in 1 .. p : i \in 1 .. w /\ i \in 1 .. p + 1 /\ i - 1 \in Nat /\ i - 1 < p
  BY <1>5
<1>10. \A i \in 1 .. p : old[i] = new[i]
  BY <1>6, <1>7, <1>9
<1>11. new[p + 1] = x
  <2>1. p + 1 \in 1 .. p + 1 /\ (p + 1) - 1 = p
    OBVIOUS
  <2> QED BY <1>7, <1>8, <2>1
<1>12. new = Client!Store(old, p, x)
  <2>1. \A i \in 1 .. p + 1 : i \in 1 .. p \/ i = p + 1
    OBVIOUS
  <2>2. CASE w = p + 1
    <3>1. Client!Store(old, p, x) = [old EXCEPT ![p + 1] = x]
      BY <1>4, <2>2 DEF Client!Store
    <3>2. [old EXCEPT ![p + 1] = x] = [i \in 1 .. p + 1 |-> IF i = p + 1 THEN x ELSE old[i]]
      BY <1>7, <2>2
    <3>3. \A i \in 1 .. p + 1 : new[i] = IF i = p + 1 THEN x ELSE old[i]
      BY <1>10, <1>11, <2>1
    <3>4. new = [i \in 1 .. p + 1 |-> new[i]]
      BY <1>7
    <3> QED BY <3>1, <3>2, <3>3, <3>4
  <2>3. CASE w = p
    <3>1. Client!Store(old, p, x) = Append(old, x)
      BY <1>4, <2>3 DEF Client!Store
    <3>2. Append(old, x) = [i \in 1 .. p + 1 |-> IF i = p + 1 THEN x ELSE old[i]]
      <4>1. Len(old) = p /\ old = [i \in 1 .. p |-> old[i]]
        BY <1>4, <1>7, <2>3
      <4> QED BY <4>1
    <3>3. \A i \in 1 .. p + 1 : new[i] = IF i = p + 1 THEN x ELSE old[i]
      BY <1>10, <1>11, <2>1
    <3>4. new = [i \in 1 .. p + 1 |-> new[i]]
      BY <1>7
    <3> QED BY <3>1, <3>2, <3>3, <3>4
  <2> QED BY <1>5, <2>2, <2>3
<1>13. Client!ParentIndex(Len(ls), h) = p
  BY <1>2 DEF Client!ParentIndex
<1> QED BY <1>12, <1>13 DEF old, new, x

(* insert, layer by layer: the client's layers after one more leaf.        *)
LEMMA LayersGrow ==
  ASSUME NEW ls, NEW longer, OneLonger(ls, longer),
         layers = Layers(ls), Client!insert(longer[Len(ls) + 1])
  PROVE  layers' = Layers(longer)
<1> DEFINE leaf == longer[Len(ls) + 1]
           P(h) == Client!ParentIndex(Client!size, h)
           Rehash(below, h) ==
             Client!Store(layers[h], P(h),
               Client!poseidon2(Client!NodeOr0(below, 2 * P(h), h - 1),
                                Client!NodeOr0(below, 2 * P(h) + 1, h - 1)))
           Fill(f) == f = [level \in 0 .. levels |->
                             IF level = 0 THEN Append(layers[0], leaf) ELSE Rehash(f[level - 1], level)]
           R == CHOOSE f : Fill(f)
           W == Layers(longer)
           T == { h \in 0 .. levels : R[h] = W[h] }
<1>0. levels \in Nat /\ 0 \in 0 .. levels
  BY LevelsAssumption
<1>1. Len(ls) \in Nat /\ Len(longer) \in Nat /\ Len(longer) = Len(ls) + 1
  BY DEF OneLonger
<1>2. \A h \in 0 .. levels : layers[h] = Layer(ls, h)
  BY DEF Layers
<1>3. W = [h \in 0 .. levels |-> W[h]] /\ \A h \in 0 .. levels : W[h] = Layer(longer, h)
  BY DEF Layers
<1>4. Client!size = Len(ls) /\ Len(layers[0]) = Len(ls)
  <2>1. Len(Layer(ls, 0)) = Len(ls)
    BY <1>1, Widths
  <2> QED BY <1>0, <1>2, <2>1 DEF Client!size
<1>5. layers' = [level \in 0 .. levels |-> R[level]]
  BY DEF Client!insert
<1>6. Layer(longer, 0) = Append(layers[0], leaf)
  <2>1. Len(ls) \div 2 ^ 0 = Len(ls)
    BY <1>1, Parents
  <2>2. Layer(longer, 0)
          = Client!Store(Layer(ls, 0), Client!ParentIndex(Len(ls), 0), RefNode(longer)[0][Len(ls) \div 2 ^ 0])
    BY <1>0, LayerGrows
  <2>3. Client!ParentIndex(Len(ls), 0) = Len(ls)
    BY <2>1 DEF Client!ParentIndex
  <2>4. RefNode(longer)[0][Len(ls)] = leaf
    <3>1. Len(ls) < Len(longer)
      BY <1>1
    <3> QED BY <1>1, <3>1, RefLeaf
  <2>5. layers[0] = Layer(ls, 0)
    BY <1>0, <1>2
  <2>6. Layer(longer, 0) = Client!Store(layers[0], Len(ls), leaf)
    BY <2>1, <2>2, <2>3, <2>4, <2>5
  <2>7. Client!Store(layers[0], Len(ls), leaf) = Append(layers[0], leaf)
    BY <1>1, <1>4 DEF Client!Store
  <2> QED BY <2>6, <2>7
<1>7. ASSUME NEW h \in 0 .. levels - 1 PROVE Layer(longer, h + 1) = Rehash(Layer(longer, h), h + 1)
  <2>1. h \in Nat /\ h + 1 \in 0 .. levels /\ (h + 1) - 1 = h /\ h + 1 \in Nat
    BY <1>0
  <2>2. PICK p \in Nat : p = Len(ls) \div 2 ^ (h + 1)
    BY <1>1, <2>1, Parents
  <2>3. P(h + 1) = p /\ Client!ParentIndex(Len(ls), h + 1) = p
    BY <1>4, <2>2 DEF Client!ParentIndex
  <2>4. Layer(longer, h + 1) = Client!Store(Layer(ls, h + 1), p, RefNode(longer)[h + 1][p])
    BY <2>1, <2>2, <2>3, LayerGrows
  <2>5. RefNode(longer)[h + 1][p] = hashLeftRight(RefNode(longer)[h][2 * p], RefNode(longer)[h][2 * p + 1])
    BY RefAbove
  <2>6. 2 * p \in Nat /\ 2 * p + 1 \in Nat
    OBVIOUS
  <2>7. /\ Client!NodeOr0(Layer(longer, h), 2 * p, h) = RefNode(longer)[h][2 * p]
        /\ Client!NodeOr0(Layer(longer, h), 2 * p + 1, h) = RefNode(longer)[h][2 * p + 1]
    BY <1>1, <2>6, NodesOfLayer
  <2>8. layers[h + 1] = Layer(ls, h + 1)
    BY <1>2, <2>1
  <2>9. Rehash(Layer(longer, h), h + 1)
          = Client!Store(Layer(ls, h + 1), p,
              Client!poseidon2(Client!NodeOr0(Layer(longer, h), 2 * p, h),
                               Client!NodeOr0(Layer(longer, h), 2 * p + 1, h)))
    BY <2>1, <2>3, <2>8
  <2> HIDE DEF Rehash, P
  <2> QED BY <2>4, <2>5, <2>7, <2>9 DEF hashLeftRight, Client!poseidon2
<1> HIDE DEF Rehash, P, leaf, W
<1>8. Fill(W)
  <2>1. ASSUME NEW h \in 0 .. levels
        PROVE  W[h] = IF h = 0 THEN Append(layers[0], leaf) ELSE Rehash(W[h - 1], h)
    <3>1. CASE h = 0
      BY <1>0, <1>3, <1>6, <3>1
    <3>2. CASE h # 0
      <4>1. PICK g \in 0 .. levels - 1 : h = g + 1 /\ h - 1 = g /\ g \in 0 .. levels
        BY <1>0, <3>2
      <4>2. W[h] = Layer(longer, g + 1) /\ W[h - 1] = Layer(longer, g)
        BY <1>3, <4>1
      <4>3. Layer(longer, g + 1) = Rehash(Layer(longer, g), g + 1)
        BY <1>7
      <4> QED BY <3>2, <4>1, <4>2, <4>3
    <3> QED BY <3>1, <3>2
  <2> QED BY <1>3, <2>1
<1>9. Fill(R)
  BY <1>8
<1> HIDE DEF R
<1>10. \A h \in 0 .. levels : R[h] = IF h = 0 THEN Append(layers[0], leaf) ELSE Rehash(R[h - 1], h)
  BY <1>9
<1>11. \A h \in 0 .. levels : W[h] = IF h = 0 THEN Append(layers[0], leaf) ELSE Rehash(W[h - 1], h)
  BY <1>8
<1> HIDE DEF Fill
<1>12. 0 \in T
  BY <1>0, <1>10, <1>11
<1>13. ASSUME NEW h \in 0 .. levels - 1, h \in T PROVE h + 1 \in T
  <2>1. h + 1 \in 0 .. levels /\ h + 1 # 0 /\ (h + 1) - 1 = h
    BY <1>0
  <2>2. R[h + 1] = Rehash(R[h], h + 1) /\ W[h + 1] = Rehash(W[h], h + 1)
    BY <1>10, <1>11, <2>1
  <2> QED BY <1>13, <2>1, <2>2
<1>14. 0 .. levels \subseteq T
  <2> HIDE DEF T
  <2> QED BY <1>0, <1>12, <1>13, HeightsBySteps
<1>15. layers' = W
  BY <1>3, <1>5, <1>14
<1> QED BY <1>15 DEF W

(* The client's root is the root of the whole tree.                        *)
LEMMA ClientRoot ==
  ASSUME NEW ls, Len(ls) \in Nat, Len(ls) <= 2 ^ levels, layers = Layers(ls)
  PROVE  Client!root = RefRoot(ls)
<1>0. levels \in Nat /\ levels \in 0 .. levels /\ levels - 1 \in 0 .. levels - 1
  BY LevelsAssumption
<1>1. layers[levels] = Layer(ls, levels)
  BY <1>0 DEF Layers
<1>2. Width(ls, levels) \in Nat /\ Len(Layer(ls, levels)) = Width(ls, levels) /\ (Len(ls) # 0 => Width(ls, levels) > 0)
  BY <1>0, Widths
<1>3. CASE Len(ls) = 0
  <2>1. Width(ls, levels) = 0
    BY <1>3 DEF Width
  <2>2. Layer(ls, levels) = << >>
    BY <2>1 DEF Layer
  <2>3. Client!root = Client!poseidon2(Client!zeros[levels - 1], Client!zeros[levels - 1])
    BY <1>1, <2>2 DEF Client!root
  <2>4. Client!zeros[levels - 1] = zeros[levels - 1]
    BY <1>0, ClientZeros
  <2>5. zeros[(levels - 1) + 1] = hashLeftRight(zeros[levels - 1], zeros[levels - 1]) /\ (levels - 1) + 1 = levels
    BY <1>0, Zeros
  <2>6. RefNode(ls)[levels][0] = zeros[levels]
    BY <1>0, <1>3, EmptyRight
  <2> QED BY <2>3, <2>4, <2>5, <2>6 DEF RefRoot, hashLeftRight, Client!poseidon2
<1>4. CASE Len(ls) # 0
  <2>1. 1 \in 1 .. Width(ls, levels) /\ 1 - 1 = 0
    BY <1>2, <1>4
  <2>2. Layer(ls, levels)[1] = RefNode(ls)[levels][0]
    BY <2>1 DEF Layer
  <2>3. Layer(ls, levels) # << >>
    <3>1. Len(<< >>) = 0
      OBVIOUS
    <3> QED BY <1>2, <1>4, <3>1
  <2> QED BY <1>1, <2>2, <2>3 DEF Client!root, RefRoot
<1> QED BY <1>3, <1>4

(* The circuit, given a path of the client, recomputes the nodes above the *)
(* leaf one by one.                                                        *)
LEMMA PathLeads ==
  ASSUME NEW ls, Len(ls) \in Nat, Len(ls) <= 2 ^ levels, layers = Layers(ls),
         NEW i, i \in 0 .. Len(ls) - 1
  PROVE  Client!MerkleProof(layers[0][i + 1], i, Client!path(i)) = RefRoot(ls)
<1> DEFINE leaf == layers[0][i + 1]
           at == Client!path(i)
           Up(below, h) == IF (i \div 2 ^ (h - 1)) % 2 = 0
                           THEN Client!poseidon2(below, at[h - 1]) ELSE Client!poseidon2(at[h - 1], below)
           Fill(f) == f = [h \in 0 .. levels |-> IF h = 0 THEN leaf ELSE Up(f[h - 1], h)]
           R == CHOOSE f : Fill(f)
           W == [h \in 0 .. levels |-> RefNode(ls)[h][i \div 2 ^ h]]
           T == { h \in 0 .. levels : R[h] = W[h] }
<1>0. levels \in Nat /\ 0 \in 0 .. levels /\ levels \in 0 .. levels
  BY LevelsAssumption
<1>1. i \in Nat /\ i < Len(ls)
  OBVIOUS
<1>2. i \div 2 ^ 0 = i /\ i \div 2 ^ levels = 0
  <2>1. 2 ^ levels \in Nat
    BY <1>0, PowersOfTwo
  <2>2. i < 2 ^ levels
    BY <1>1, <2>1
  <2> QED BY <1>0, <1>1, <2>2, Parents
<1>3. leaf = RefNode(ls)[0][i]
  <2>1. layers[0] = Layer(ls, 0)
    BY <1>0 DEF Layers
  <2>2. Width(ls, 0) = Len(ls)
    BY Widths
  <2>3. i + 1 \in 1 .. Width(ls, 0) /\ (i + 1) - 1 = i
    BY <1>1, <2>2
  <2> QED BY <2>1, <2>3 DEF Layer
<1>4. ASSUME NEW h \in 0 .. levels - 1
      PROVE  RefNode(ls)[h + 1][i \div 2 ^ (h + 1)] = Up(RefNode(ls)[h][i \div 2 ^ h], h + 1)
  <2>1. h \in Nat /\ (h + 1) - 1 = h /\ h \in 0 .. levels
    BY <1>0
  <2>2. PICK q \in Nat : q = i \div 2 ^ h /\ q \div 2 = i \div 2 ^ (h + 1)
    BY <1>1, <2>1, Parents
  <2>3. q \div 2 \in Nat
    OBVIOUS
  <2>4. RefNode(ls)[h + 1][q \div 2]
          = hashLeftRight(RefNode(ls)[h][2 * (q \div 2)], RefNode(ls)[h][2 * (q \div 2) + 1])
    BY <2>3, RefAbove
  <2>5. at[h] = Client!NodeOr0(Layer(ls, h), Client!Sibling(q), h)
    BY <2>1, <2>2 DEF Client!path, Layers
  <2>6. Client!Sibling(q) \in Nat
    BY DEF Client!Sibling
  <2>7. at[h] = RefNode(ls)[h][Client!Sibling(q)]
    BY <2>5, <2>6, NodesOfLayer
  <2>8. Up(RefNode(ls)[h][i \div 2 ^ h], h + 1)
          = IF q % 2 = 0 THEN Client!poseidon2(RefNode(ls)[h][q], at[h]) ELSE Client!poseidon2(at[h], RefNode(ls)[h][q])
    BY <2>1, <2>2
  <2> HIDE DEF Up, at
  <2>9. CASE q % 2 = 0
    <3>1. 2 * (q \div 2) = q /\ Client!Sibling(q) = q + 1
      BY <2>9 DEF Client!Sibling
    <3> QED BY <2>2, <2>4, <2>7, <2>8, <2>9, <3>1 DEF hashLeftRight, Client!poseidon2
  <2>10. CASE q % 2 # 0
    <3>1. 2 * (q \div 2) = q - 1 /\ 2 * (q \div 2) + 1 = q /\ Client!Sibling(q) = q - 1
      BY <2>10 DEF Client!Sibling
    <3> QED BY <2>2, <2>4, <2>7, <2>8, <2>10, <3>1 DEF hashLeftRight, Client!poseidon2
  <2> QED BY <2>9, <2>10
<1>5. W = [h \in 0 .. levels |-> W[h]] /\ \A h \in 0 .. levels : W[h] = RefNode(ls)[h][i \div 2 ^ h]
  OBVIOUS
<1>6. Client!MerkleProof(leaf, i, at) = R[levels]
  BY DEF Client!MerkleProof
<1> HIDE DEF Up, at, leaf, W
<1>7. Fill(W)
  <2>1. ASSUME NEW h \in 0 .. levels PROVE W[h] = IF h = 0 THEN leaf ELSE Up(W[h - 1], h)
    <3>1. CASE h = 0
      BY <1>0, <1>2, <1>3, <1>5, <3>1
    <3>2. CASE h # 0
      <4>1. PICK g \in 0 .. levels - 1 : h = g + 1 /\ h - 1 = g /\ g \in 0 .. levels
        BY <1>0, <3>2
      <4>2. W[h] = RefNode(ls)[g + 1][i \div 2 ^ (g + 1)] /\ W[h - 1] = RefNode(ls)[g][i \div 2 ^ g]
        BY <1>5, <4>1
      <4>3. RefNode(ls)[g + 1][i \div 2 ^ (g + 1)] = Up(RefNode(ls)[g][i \div 2 ^ g], g + 1)
        BY <1>4
      <4> QED BY <3>2, <4>1, <4>2, <4>3
    <3> QED BY <3>1, <3>2
  <2> QED BY <1>5, <2>1
<1>8. Fill(R)
  BY <1>7
<1> HIDE DEF R
<1>9. \A h \in 0 .. levels : R[h] = IF h = 0 THEN leaf ELSE Up(R[h - 1], h)
  BY <1>8
<1>10. \A h \in 0 .. levels : W[h] = IF h = 0 THEN leaf ELSE Up(W[h - 1], h)
  BY <1>7
<1> HIDE DEF Fill
<1>11. 0 \in T
  BY <1>0, <1>9, <1>10
<1>12. ASSUME NEW h \in 0 .. levels - 1, h \in T PROVE h + 1 \in T
  <2>1. h + 1 \in 0 .. levels /\ h + 1 # 0 /\ (h + 1) - 1 = h
    BY <1>0
  <2>2. R[h + 1] = Up(R[h], h + 1) /\ W[h + 1] = Up(W[h], h + 1)
    BY <1>9, <1>10, <2>1
  <2> QED BY <1>12, <2>1, <2>2
<1>13. levels \in T
  <2> HIDE DEF T
  <2> QED BY <1>0, <1>11, <1>12, HeightsBySteps
<1>14. R[levels] = RefNode(ls)[levels][0]
  BY <1>0, <1>2, <1>5, <1>13
<1> QED BY <1>6, <1>14 DEF RefRoot, leaf, at

-----------------------------------------------------------------------------
(* The client's layers are those of the leaves it has appended.            *)
ClientInv == \E m \in 0 .. nextIndex : \E ls : ls = Prefix(m) /\ layers = Layers(ls)

SyncInv == TreeInv /\ ClientInv

(* What the invariant says of the client's size and root.                  *)
LEMMA ClientOf ==
  ASSUME SyncInv
  PROVE  /\ Client!size \in 0 .. nextIndex /\ layers = Layers(Prefix(Client!size))
         /\ Len(Prefix(Client!size)) = Client!size /\ Client!size <= 2 ^ levels
         /\ Client!root = RefRoot(Prefix(Client!size))
<1>1. PICK m \in 0 .. nextIndex : layers = Layers(Prefix(m))
  BY DEF SyncInv, ClientInv
<1>2. LeavesOK /\ nextIndex \in Nat /\ nextIndex <= 2 ^ levels
  BY DEF SyncInv, TreeInv, LeavesOK
<1>3. Len(Prefix(m)) = m /\ m \in Nat
  BY <1>2, PrefixLeaves
<1>4. Client!size = m
  <2>1. Len(Layer(Prefix(m), 0)) = m
    BY <1>3, Widths
  <2>2. layers[0] = Layer(Prefix(m), 0)
    BY <1>1, LevelsAssumption DEF Layers
  <2> QED BY <2>1, <2>2 DEF Client!size
<1>5. m <= 2 ^ levels
  <2>1. levels \in Nat
    BY LevelsAssumption
  <2>2. 2 ^ levels \in Nat
    BY <2>1, PowersOfTwo
  <2> QED BY <1>2, <1>3, <2>2
<1>6. Client!root = RefRoot(Prefix(m))
  BY <1>1, <1>3, <1>5, ClientRoot
<1> QED BY <1>1, <1>3, <1>4, <1>5, <1>6

(* A new client holds the empty layers of no leaves.                       *)
LEMMA SyncStarts == SyncInit => SyncInv
<1> SUFFICES ASSUME SyncInit PROVE SyncInv
  OBVIOUS
<1>1. TreeInv
  BY TreeStarts DEF SyncInit
<1>2. ClientInv
  <2>1. 0 \in 0 .. nextIndex
    BY DEF SyncInit, Init
  <2>2. Len(Prefix(0)) = 0
    BY <1>1, <2>1, PrefixLeaves DEF TreeInv
  <2>3. \A h \in 0 .. levels : Layer(Prefix(0), h) = << >>
    BY <2>2 DEF Layer, Width
  <2>4. layers = Layers(Prefix(0))
    BY <2>3 DEF Layers, SyncInit, Client!Init
  <2> QED BY <2>1, <2>4 DEF ClientInv
<1> QED BY <1>1, <1>2 DEF SyncInv

(* Insertions and appends keep the invariant.                              *)
LEMMA SyncSteps == SyncInv /\ [SyncNext]_syncVars => SyncInv'
<1> SUFFICES ASSUME SyncInv, [SyncNext]_syncVars PROVE SyncInv'
  OBVIOUS
<1>1. PICK m \in 0 .. nextIndex : m = Client!size /\ layers = Layers(Prefix(m)) /\ Len(Prefix(m)) = m
  BY ClientOf
<1>2. LeavesOK /\ nextIndex \in Nat /\ TreeInv
  BY DEF SyncInv, TreeInv, LeavesOK
<1>3. CASE ContractInserts
  <2>1. PICK leaf1 \in Leaf, leaf2 \in Leaf \cup {ZERO_VALUE} : insert(leaf1, leaf2) /\ UNCHANGED layers
    BY <1>3 DEF ContractInserts
  <2>2. Insertion(leaf1, leaf2) /\ Next
    BY <2>1 DEF Insertion, Next
  <2>3. TreeInv'
    BY <1>2, <2>2, TreeSteps
  <2>4. nextIndex' = nextIndex + 2 /\ SubSeq(leaves', 1, m) = SubSeq(leaves, 1, m)
    BY <1>2, <2>2, LeavesKept
  <2>5. m \in 0 .. nextIndex' /\ Prefix(m) = SubSeq(leaves', 1, m) /\ layers' = Layers(Prefix(m))
    BY <1>1, <1>2, <2>1, <2>4 DEF Prefix
  <2>6. ClientInv'
    <3>1. PICK ls : ls = Prefix(m)
      OBVIOUS
    <3>2. m \in 0 .. nextIndex' /\ ls = SubSeq(leaves', 1, m) /\ layers' = Layers(ls)
      BY <2>5, <3>1
    <3> QED BY <3>2 DEF ClientInv, Prefix
  <2> QED BY <2>3, <2>6 DEF SyncInv
<1>4. CASE ClientAppends
  <2>1. m < nextIndex /\ Client!insert(leaves[m + 1]) /\ UNCHANGED vars
    BY <1>1, <1>4 DEF ClientAppends
  <2>2. m + 1 \in 0 .. nextIndex /\ m \in Nat /\ m + 1 \in 1 .. m + 1
    BY <1>2, <2>1
  <2>3. Len(Prefix(m + 1)) = m + 1 /\ (\A k \in 1 .. m + 1 : Prefix(m + 1)[k] = leaves[k])
        /\ (\A k \in 1 .. m : Prefix(m)[k] = leaves[k])
    BY <1>2, <2>2, PrefixLeaves
  <2>4. OneLonger(Prefix(m), Prefix(m + 1))
    BY <1>1, <2>2, <2>3 DEF OneLonger, AgreeTo
  <2>5. layers' = Layers(Prefix(m + 1))
    <3>1. Prefix(m + 1)[Len(Prefix(m)) + 1] = leaves[m + 1]
      BY <1>1, <2>2, <2>3
    <3> QED BY <1>1, <2>1, <2>4, <3>1, LayersGrow
  <2>6. TreeInv'
    BY <1>2, <2>1, TreeSteps
  <2>7. nextIndex' = nextIndex /\ leaves' = leaves
    BY <2>1 DEF vars
  <2>8. ClientInv'
    <3>1. PICK ls : ls = Prefix(m + 1)
      OBVIOUS
    <3>2. m + 1 \in 0 .. nextIndex' /\ ls = SubSeq(leaves', 1, m + 1) /\ layers' = Layers(ls)
      BY <2>2, <2>5, <2>7, <3>1 DEF Prefix
    <3> QED BY <3>2 DEF ClientInv, Prefix
  <2> QED BY <2>6, <2>8 DEF SyncInv
<1>5. CASE UNCHANGED syncVars
  <2>1. UNCHANGED vars /\ layers' = layers
    BY <1>5 DEF syncVars
  <2>2. TreeInv'
    BY <1>2, <2>1, TreeSteps
  <2>3. nextIndex' = nextIndex /\ leaves' = leaves
    BY <2>1 DEF vars
  <2>4. ClientInv'
    <3>1. PICK ls : ls = Prefix(m)
      OBVIOUS
    <3>2. m \in 0 .. nextIndex' /\ ls = SubSeq(leaves', 1, m) /\ layers' = Layers(ls)
      BY <1>1, <2>1, <2>3, <3>1 DEF Prefix
    <3> QED BY <3>2 DEF ClientInv, Prefix
  <2> QED BY <2>2, <2>4 DEF SyncInv
<1> QED BY <1>3, <1>4, <1>5 DEF SyncNext

(* The invariant holds of a tree and a client at every time.               *)
THEOREM SyncCorrect == SyncSpec => []SyncInv
BY SyncStarts, SyncSteps, PTL DEF SyncSpec

(* A client that has caught up holds the contract's newest root            *)
(* (CaughtUpRootsAgree), however the leaves arrived.                       *)
THEOREM RootsAgree == SyncSpec => []CaughtUpRootsAgree
<1>1. SyncInv => CaughtUpRootsAgree
  <2> SUFFICES ASSUME SyncInv, Client!size = nextIndex PROVE Client!root = roots[currentRootIndex]
    BY DEF CaughtUpRootsAgree
  <2>1. Client!root = RefRoot(Prefix(nextIndex)) /\ nextIndex \in Nat
    BY ClientOf DEF SyncInv, TreeInv, LeavesOK
  <2>2. 0 \in Slot /\ SlotOfAge(0) = currentRootIndex /\ 2 * 0 <= nextIndex /\ nextIndex - 2 * 0 = nextIndex
    BY <2>1, HistoryAssumption DEF SyncInv, TreeInv, RingOK, Slot, SlotOfAge
  <2>3. roots[SlotOfAge(0)] = RefRoot(SubSeq(leaves, 1, nextIndex - 2 * 0))
    BY <2>2 DEF SyncInv, TreeInv, RootsAreSnapshots
  <2> QED BY <2>1, <2>2, <2>3 DEF Prefix
<1> QED BY <1>1, SyncCorrect, PTL

(* A client at a pair boundary holds a root the contract accepts exactly   *)
(* when it trails by fewer insertions than the ring has slots.             *)
THEOREM LaggingAccepted ==
  ASSUME NoHashIsZero
  PROVE  SyncSpec => []LaggingRootAccepted
<1>1. SyncInv => LaggingRootAccepted
  <2> SUFFICES ASSUME SyncInv, Client!size % 2 = 0
               PROVE  isKnownRoot(Client!root) <=> (nextIndex - Client!size) \div 2 < ROOT_HISTORY_SIZE
    BY DEF LaggingRootAccepted
  <2>1. Client!size \in 0 .. nextIndex /\ Client!root = RefRoot(Prefix(Client!size)) /\ TreeInv
    BY ClientOf DEF SyncInv
  <2> QED BY <2>1, KnownPrefix
<1> QED BY <1>1, SyncCorrect, PTL

(* Every path the client hands to the prover leads, by the circuit's       *)
(* check, from its leaf to the client's root.                              *)
THEOREM ClientPathsVerify == SyncSpec => []PathsVerify
<1>1. SyncInv => PathsVerify
  <2> SUFFICES ASSUME SyncInv, NEW i \in 0 .. Client!size - 1
               PROVE  Client!MerkleProof(layers[0][i + 1], i, Client!path(i)) = Client!root
    BY DEF PathsVerify
  <2>1. PICK m \in Nat : m = Client!size /\ layers = Layers(Prefix(m)) /\ Len(Prefix(m)) = m /\ m <= 2 ^ levels
                         /\ Client!root = RefRoot(Prefix(m))
    BY ClientOf
  <2>2. Client!MerkleProof(layers[0][i + 1], i, Client!path(i)) = RefRoot(Prefix(m))
    BY <2>1, PathLeads
  <2> QED BY <2>1, <2>2
<1> QED BY <1>1, SyncCorrect, PTL

(* A client that follows the tree leaves it alone: what is proved of the   *)
(* tree by itself holds of the tree with its client.                       *)
THEOREM SyncIsTree == SyncSpec => Spec
<1>1. SyncInit => Init
  BY DEF SyncInit
<1>2. [SyncNext]_syncVars => [Next]_vars
  BY DEF SyncNext, ContractInserts, ClientAppends, Next, syncVars
<1> QED BY <1>1, <1>2, PTL DEF SyncSpec, Spec

-----------------------------------------------------------------------------
(* The synchronisation of a client (ClientSync).                           *)

(* The notes taken from a sequence of leaves.                              *)
Picks(s, S) == [i \in DOMAIN s |-> IF s[i] \in S THEN <<s[i]>> ELSE << >>]

(* Picks is a sequence of sequences of one element or none.                *)
LEMMA PicksAre ==
  ASSUME NEW T, NEW S, NEW s \in Seq(T)
  PROVE  /\ Picks(s, S) \in Seq(Seq(T)) /\ Len(Picks(s, S)) = Len(s) /\ Len(s) \in Nat
         /\ \A i \in 1 .. Len(s) : Picks(s, S)[i] = IF s[i] \in S THEN <<s[i]>> ELSE << >>
<1>1. DOMAIN s = 1 .. Len(s) /\ Len(s) \in Nat /\ \A i \in 1 .. Len(s) : s[i] \in T
  OBVIOUS
<1>2. \A i \in 1 .. Len(s) : (IF s[i] \in S THEN <<s[i]>> ELSE << >>) \in Seq(T)
  <2>1. << >> \in Seq(T) /\ \A x \in T : <<x>> \in Seq(T)
    OBVIOUS
  <2> QED BY <1>1, <2>1
<1>3. Picks(s, S) = [i \in 1 .. Len(s) |-> IF s[i] \in S THEN <<s[i]>> ELSE << >>]
  BY <1>1 DEF Picks
<1>4. Picks(s, S) \in [1 .. Len(s) -> Seq(T)]
  BY <1>2, <1>3
<1>5. Picks(s, S) \in Seq(Seq(T)) /\ Len(Picks(s, S)) = Len(s)
  BY <1>1, <1>4
<1> QED BY <1>1, <1>3, <1>5

(* The notes picked from transactions are transactions.                    *)
LEMMA OnlyType ==
  ASSUME NEW T, NEW S, NEW s \in Seq(T)
  PROVE  Only(s, S) \in Seq(T)
<1>1. Only(s, S) = FlattenSeq(Picks(s, S))
  BY DEF Only, Picks
<1>2. Picks(s, S) \in Seq(Seq(T))
  BY PicksAre
<1> QED BY <1>1, <1>2, FlattenType

(* Nothing is picked from an empty tree.                                   *)
LEMMA OnlyNone == ASSUME NEW S PROVE Only(<< >>, S) = << >>
<1>1. ASSUME NEW e \in Seq(Tx), Len(e) = 0 PROVE Only(e, S) = << >>
  <2>1. Picks(e, S) \in Seq(Seq(Tx)) /\ Len(Picks(e, S)) = 0
    <3>1. Picks(e, S) \in Seq(Seq(Tx)) /\ Len(Picks(e, S)) = Len(e)
      BY PicksAre
    <3> QED BY <1>1, <3>1
  <2>2. Picks(e, S) = << >>
    BY <2>1
  <2> QED BY <2>2, FlattenNone DEF Only, Picks
<1>2. << >> \in Seq(Tx) /\ Len(<< >>) = 0
  OBVIOUS
<1> QED BY <1>1, <1>2

(* A concatenation, cut once.                                              *)
LEMMA CutWhole ==
  ASSUME NEW T, NEW c \in Seq(Seq(T)), NEW i \in Nat, i <= Len(c)
  PROVE  FlattenSeq(c) = FlattenSeq(SubSeq(c, 1, i)) \o FlattenSeq(SubSeq(c, i + 1, Len(c)))
<1>1. Len(c) \in Nat /\ Len(c) <= Len(c)
  OBVIOUS
<1>2. SubSeq(c, 1, Len(c)) = c
  OBVIOUS
<1>3. FlattenSeq(SubSeq(c, 1, Len(c))) = FlattenSeq(SubSeq(c, 1, i)) \o FlattenSeq(SubSeq(c, i + 1, Len(c)))
  BY <1>1, FlattenCut
<1> QED BY <1>2, <1>3, Zenon

(* Picking from a tree that grew adds what is picked from the new leaves.  *)
LEMMA OnlyConcat ==
  ASSUME NEW T, NEW S, NEW s \in Seq(T), NEW t \in Seq(T)
  PROVE  Only(s \o t, S) = Only(s, S) \o Only(t, S)
<1>0. PICK u : u = s \o t
  OBVIOUS
<1>1. /\ u \in Seq(T) /\ Len(u) = Len(s) + Len(t) /\ Len(s) \in Nat /\ Len(t) \in Nat
      /\ \A i \in 1 .. Len(s) : u[i] = s[i]
      /\ \A i \in 1 .. Len(t) : u[Len(s) + i] = t[i]
  BY <1>0, JoinIs
<1>2. PICK a \in Seq(Seq(T)) : a = Picks(s, S)
  BY PicksAre
<1>3. PICK b \in Seq(Seq(T)) : b = Picks(t, S)
  BY PicksAre
<1>4. PICK c \in Seq(Seq(T)) : c = Picks(u, S)
  BY <1>1, PicksAre
<1>5. /\ Len(a) = Len(s) /\ \A i \in 1 .. Len(s) : a[i] = IF s[i] \in S THEN <<s[i]>> ELSE << >>
      /\ Len(b) = Len(t) /\ \A i \in 1 .. Len(t) : b[i] = IF t[i] \in S THEN <<t[i]>> ELSE << >>
      /\ Len(c) = Len(u) /\ \A i \in 1 .. Len(u) : c[i] = IF u[i] \in S THEN <<u[i]>> ELSE << >>
  <2>1. Len(Picks(s, S)) = Len(s) /\ \A i \in 1 .. Len(s) : Picks(s, S)[i] = IF s[i] \in S THEN <<s[i]>> ELSE << >>
    BY PicksAre
  <2>2. Len(Picks(t, S)) = Len(t) /\ \A i \in 1 .. Len(t) : Picks(t, S)[i] = IF t[i] \in S THEN <<t[i]>> ELSE << >>
    BY PicksAre
  <2>3. Len(Picks(u, S)) = Len(u) /\ \A i \in 1 .. Len(u) : Picks(u, S)[i] = IF u[i] \in S THEN <<u[i]>> ELSE << >>
    <3>1. u \in Seq(T)
      BY <1>1
    <3> QED BY <3>1, PicksAre
  <2> QED BY <1>2, <1>3, <1>4, <2>1, <2>2, <2>3
<1>6. ASSUME NEW i \in 1 .. Len(s) PROVE c[i] = a[i]
  <2>1. i \in 1 .. Len(u) /\ u[i] = s[i]
    BY <1>1
  <2> QED BY <1>5, <2>1
<1>7. ASSUME NEW i \in 1 .. Len(t) PROVE c[Len(s) + i] = b[i]
  <2>1. Len(s) + i \in 1 .. Len(u) /\ u[Len(s) + i] = t[i]
    BY <1>1
  <2>2. c[Len(s) + i] = IF u[Len(s) + i] \in S THEN <<u[Len(s) + i]>> ELSE << >>
    BY <1>5, <2>1
  <2>3. b[i] = IF t[i] \in S THEN <<t[i]>> ELSE << >>
    BY <1>5
  <2> QED BY <2>1, <2>2, <2>3
<1>8. SubSeq(c, 1, Len(s)) = a
  <2>1. 1 \in Nat \ {0} /\ Len(s) <= Len(c) /\ 1 <= Len(s) + 1 /\ Len(s) + 1 - 1 = Len(s)
        /\ \A i \in 1 .. Len(s) : 1 + i - 1 = i
    BY <1>1, <1>5
  <2>2. PICK v : v = SubSeq(c, 1, Len(s))
    OBVIOUS
  <2>3. v \in Seq(Seq(T)) /\ Len(v) = Len(s) /\ \A i \in 1 .. Len(s) : v[i] = c[1 + i - 1]
    BY <1>1, <2>1, <2>2, PartIs
  <2>4. Len(v) = Len(a) /\ \A i \in 1 .. Len(v) : v[i] = a[i]
    BY <1>5, <1>6, <2>1, <2>3
  <2>5. /\ v \in Seq(Seq(T)) /\ a \in Seq(Seq(T)) /\ Len(v) = Len(a)
        /\ \A i \in 1 .. Len(v) : v[i] = a[i]
    BY <2>3, <2>4
  <2>6. v = a
    BY <2>5, SeqSame
  <2> QED BY <2>2, <2>6
<1>9. SubSeq(c, Len(s) + 1, Len(c)) = b
  <2>1. /\ Len(s) + 1 \in Nat \ {0} /\ Len(c) \in Nat /\ Len(s) + 1 <= Len(c) + 1 /\ Len(c) + 1 - (Len(s) + 1) = Len(t)
        /\ \A i \in 1 .. Len(t) : (Len(s) + 1) + i - 1 = Len(s) + i
    BY <1>1, <1>5
  <2>2. PICK v : v = SubSeq(c, Len(s) + 1, Len(c))
    OBVIOUS
  <2>3. v \in Seq(Seq(T)) /\ Len(v) = Len(t) /\ \A i \in 1 .. Len(t) : v[i] = c[(Len(s) + 1) + i - 1]
    BY <1>1, <2>1, <2>2, PartIs
  <2>4. Len(v) = Len(b) /\ \A i \in 1 .. Len(v) : v[i] = b[i]
    BY <1>5, <1>7, <2>1, <2>3
  <2>5. /\ v \in Seq(Seq(T)) /\ b \in Seq(Seq(T)) /\ Len(v) = Len(b)
        /\ \A i \in 1 .. Len(v) : v[i] = b[i]
    BY <2>3, <2>4
  <2>6. v = b
    BY <2>5, SeqSame
  <2> QED BY <2>2, <2>6
<1>10. FlattenSeq(c) = FlattenSeq(a) \o FlattenSeq(b)
  <2>1. Len(s) <= Len(c) /\ Len(c) \in Nat
    BY <1>1, <1>5
  <2>2. FlattenSeq(c) = FlattenSeq(SubSeq(c, 1, Len(s))) \o FlattenSeq(SubSeq(c, Len(s) + 1, Len(c)))
    BY <1>1, <2>1, CutWhole
  <2> QED BY <1>8, <1>9, <2>2, Zenon
<1> QED BY <1>0, <1>2, <1>3, <1>4, <1>10 DEF Only, Picks

(* Sets that agree on the elements of a sequence pick the same.            *)
LEMMA OnlySame ==
  ASSUME NEW T, NEW S, NEW R, NEW s \in Seq(T), Range(s) \cap S = Range(s) \cap R
  PROVE  Only(s, S) = Only(s, R)
<1>1. \A i \in DOMAIN s : s[i] \in S <=> s[i] \in R
  BY DEF Range
<1>2. Picks(s, S) = Picks(s, R)
  BY <1>1 DEF Picks
<1> QED BY <1>2 DEF Only, Picks

(* The notes spent by transactions.                                        *)
LEMMA SpentJoin ==
  ASSUME NEW s \in Seq(Tx), NEW t \in Seq(Tx), NEW u \in Seq(Tx)
  PROVE  /\ Range(s) \cup Range(t) = Range(u) => Spent(s) \cup Spent(t) = Spent(u)
         /\ Spent(s) \subseteq Tx /\ Spent(<< >>) = {}
<1>1. Range(<< >>) = {}
  BY DEF Range
<1> QED BY <1>1 DEF Spent

-----------------------------------------------------------------------------
Compatible(s, t) == IsPrefix(s, t) \/ IsPrefix(t, s)

Rest(b, k) == SubSeq(b, k, Len(b))
(* The elements of b from k on.                                            *)
LEMMA RestIs ==
  ASSUME NEW b \in Seq(Tx), NEW k \in Nat \ {0}
  PROVE  /\ Rest(b, k) \in Seq(Tx) /\ Range(Rest(b, k)) \subseteq Range(b)
         /\ Len(b) < k => Rest(b, k) = << >>
         /\ k <= Len(b) => /\ Len(Rest(b, k)) = Len(b) + 1 - k /\ Rest(b, k) # << >>
                           /\ \A i \in 1 .. Len(b) + 1 - k : Rest(b, k)[i] = b[k + i - 1]
<1>1. Len(b) \in Nat /\ DOMAIN b = 1 .. Len(b)
  OBVIOUS
<1>2. CASE Len(b) < k
  <2>1. Rest(b, k) = << >> /\ << >> \in Seq(Tx)
    BY <1>2 DEF Rest
  <2>2. Range(<< >>) = {}
    BY DEF Range
  <2> QED BY <1>1, <1>2, <2>1, <2>2
<1>3. CASE k <= Len(b)
  <2>1. Len(b) <= Len(b) /\ k <= Len(b) + 1
    BY <1>1, <1>3
  <2>2. /\ Rest(b, k) \in Seq(Tx) /\ Len(Rest(b, k)) = Len(b) + 1 - k
        /\ \A i \in 1 .. Len(b) + 1 - k : Rest(b, k)[i] = b[k + i - 1]
    BY <1>1, <2>1, PartIs DEF Rest
  <2>3. PICK r \in Seq(Tx) : r = Rest(b, k)
    BY <2>2
  <2>4. DOMAIN r = 1 .. Len(b) + 1 - k /\ Len(r) > 0
    BY <1>1, <1>3, <2>2, <2>3
  <2>5. \A i \in 1 .. Len(b) + 1 - k : r[i] \in Range(b)
    <3>1. \A i \in 1 .. Len(b) + 1 - k : k + i - 1 \in 1 .. Len(b)
      BY <1>1, <1>3
    <3> QED BY <1>1, <2>2, <2>3, <3>1 DEF Range
  <2>6. Range(r) \subseteq Range(b)
    BY <2>4, <2>5 DEF Range
  <2>7. r # << >>
    BY <2>4
  <2> QED BY <1>1, <1>3, <2>2, <2>3, <2>6, <2>7
<1> QED BY <1>1, <1>2, <1>3

(* The rest of the leaves b, from the end of a tree that agrees with the   *)
(* chain's leaves all: afterwards the tree holds a and b and agrees still. *)
LEMMA Extends ==
  ASSUME NEW a \in Seq(Tx), NEW b \in Seq(Tx), NEW all \in Seq(Tx), NEW tree \in Seq(Tx), NEW k \in Nat \ {0}, b # << >>,
         IsPrefix(a \o b, all), Compatible(tree, all),
         k = IF Len(tree) + 1 - Len(a) <= 1 THEN 1 ELSE Len(tree) + 1 - Len(a),
         k <= Len(b) => Len(a) + k - 1 = Len(tree)
  PROVE  /\ IsPrefix(a \o b, tree \o Rest(b, k))
         /\ IsPrefix(tree, all) => IsPrefix(tree \o Rest(b, k), all)
         /\ Range(tree) \cup Range(b) = Range(tree \o Rest(b, k))
<1>0. PICK new \in Seq(Tx) : new = Rest(b, k)
  BY RestIs
<1>1. PICK ab : ab = a \o b
  OBVIOUS
<1>2. /\ ab \in Seq(Tx) /\ Len(ab) = Len(a) + Len(b) /\ Len(a) \in Nat /\ Len(b) \in Nat
      /\ \A i \in 1 .. Len(a) : ab[i] = a[i]
      /\ \A i \in 1 .. Len(b) : ab[Len(a) + i] = b[i]
  BY <1>1, JoinIs
<1>3. Len(tree) \in Nat /\ Len(all) \in Nat /\ Len(b) > 0
  OBVIOUS
<1>4. IsPrefix(ab, all) /\ Range(ab) = Range(a) \cup Range(b)
  BY <1>1, RangeJoin
<1>5. Len(ab) <= Len(all)
  BY <1>2, <1>4, PrefixIs
<1>6. CASE Len(b) < k
  <2>1. Rest(b, k) = << >>
    BY <1>6, RestIs
  <2>2. tree \o Rest(b, k) = tree
    BY <2>1, ConcatMore
  <2>3. Len(ab) <= Len(tree)
    BY <1>2, <1>3, <1>6
  <2>4. IsPrefix(ab, tree)
    <3>1. CASE IsPrefix(tree, all)
      BY <1>2, <1>4, <2>3, <3>1, PrefixBoth
    <3>2. CASE IsPrefix(all, tree)
      BY <1>2, <1>4, <3>2, PrefixTrans
    <3> QED BY <3>1, <3>2 DEF Compatible
  <2>5. Range(ab) \subseteq Range(tree)
    BY <1>2, <2>4, RangePrefix
  <2> QED BY <1>1, <1>4, <2>2, <2>4, <2>5
<1>7. CASE k <= Len(b)
  <2>1. Len(a) + k - 1 = Len(tree) /\ Len(tree) < Len(ab) /\ Len(a) <= Len(tree)
    BY <1>2, <1>3, <1>7
  <2>2. IsPrefix(tree, all)
    <3>1. CASE IsPrefix(all, tree)
      <4>1. Len(all) <= Len(tree)
        BY <3>1, PrefixIs
      <4> QED BY <1>2, <1>3, <1>5, <2>1, <4>1
    <3> QED BY <3>1 DEF Compatible
  <2>3. IsPrefix(tree, ab)
    BY <1>2, <1>3, <1>4, <2>1, <2>2, PrefixBoth
  <2>4. \A i \in 1 .. Len(tree) : ab[i] = tree[i]
    BY <1>2, <2>3, PrefixIs
  <2>5. Len(new) = Len(b) + 1 - k /\ \A i \in 1 .. Len(b) + 1 - k : new[i] = b[k + i - 1]
    BY <1>0, <1>7, RestIs
  <2>6. PICK tn : tn = tree \o new
    OBVIOUS
  <2>7. /\ tn \in Seq(Tx) /\ Len(tn) = Len(tree) + Len(new)
        /\ \A i \in 1 .. Len(tree) : tn[i] = tree[i]
        /\ \A i \in 1 .. Len(new) : tn[Len(tree) + i] = new[i]
    BY <2>6, JoinIs
  <2>s. /\ Len(tree) + Len(new) = Len(a) + Len(b) /\ Len(new) \in Nat
        /\ \A j \in 1 .. Len(new) : k + j - 1 \in 1 .. Len(b) /\ Len(tree) + j = Len(a) + (k + j - 1)
    <3>1. Len(a) \in Nat /\ Len(b) \in Nat /\ Len(tree) \in Nat /\ Len(new) \in Nat
      BY <1>2, <1>3
    <3>2. Len(a) + k - 1 = Len(tree) /\ Len(new) = Len(b) + 1 - k
      BY <2>1, <2>5
    <3>3. PICK p \in Nat, q \in Nat, n \in Nat, r \in Nat : p = Len(a) /\ q = Len(b) /\ n = Len(tree) /\ r = Len(new)
      BY <3>1
    <3>4. p + k - 1 = n /\ r = q + 1 - k
      BY <3>2, <3>3
    <3>5. n + r = p + q /\ \A j \in 1 .. r : k + j - 1 \in 1 .. q /\ n + j = p + (k + j - 1)
      BY ONLY <3>4, k \in Nat \ {0}, p \in Nat, q \in Nat, n \in Nat, r \in Nat
    <3> QED BY <3>1, <3>3, <3>5
  <2>8. Len(tn) = Len(ab)
    <3>1. Len(tn) = Len(tree) + Len(new) /\ Len(ab) = Len(a) + Len(b)
      BY <1>2, <2>7
    <3> QED BY <2>s, <3>1
  <2>9. ASSUME NEW i \in 1 .. Len(tn) PROVE tn[i] = ab[i]
    <3>1. CASE i <= Len(tree)
      <4>1. i \in 1 .. Len(tree)
        BY <1>3, <3>1
      <4> QED BY <2>4, <2>7, <4>1
    <3>2. CASE Len(tree) < i
      <4>0. i \in Nat /\ i <= Len(ab) /\ k \in Nat \ {0}
        BY <1>2, <2>8
      <4>1. PICK j \in Nat : i = Len(tree) + j /\ j # 0
        <5>1. i - Len(tree) \in Nat /\ i = Len(tree) + (i - Len(tree)) /\ i - Len(tree) # 0
          BY ONLY <1>3, <3>2, <4>0
        <5> QED BY <5>1
      <4>2. j \in 1 .. Len(new) /\ k + j - 1 \in 1 .. Len(b) /\ i = Len(a) + (k + j - 1)
        <5>1. Len(tree) + j <= Len(tree) + Len(new)
          BY <2>7, <4>1
        <5>2. j \in 1 .. Len(new)
          BY ONLY <1>3, <2>s, <4>1, <5>1
        <5> QED BY <2>s, <4>1, <5>2
      <4>3. tn[Len(tree) + j] = new[j] /\ new[j] = b[k + j - 1]
        <5>1. j \in 1 .. Len(b) + 1 - k
          BY <2>5, <4>2
        <5> QED BY <2>5, <2>7, <4>2, <5>1
      <4>4. ab[i] = b[k + j - 1]
        BY <1>2, <4>2
      <4> QED BY <4>1, <4>3, <4>4
    <3> QED BY <1>3, <2>7, <3>1, <3>2
  <2>10. tn = ab
    BY <1>2, <2>7, <2>8, <2>9, SeqSame
  <2>11. IsPrefix(ab, ab) /\ Range(tree) \subseteq Range(ab)
    BY <1>2, <2>3, PrefixEmpty, RangePrefix
  <2>12. Range(a) \subseteq Range(tree)
    <3>1. IsPrefix(a, ab)
      BY <1>1, PrefixJoin
    <3>2. IsPrefix(a, tree)
      BY <1>2, <1>3, <2>1, <2>3, <3>1, PrefixBoth
    <3> QED BY <3>2, RangePrefix
  <2>13. Range(tree) \cup Range(b) = Range(ab)
    BY <1>4, <2>11, <2>12
  <2> QED BY <1>0, <1>1, <1>4, <2>6, <2>10, <2>11, <2>13
<1> QED BY <1>2, <1>6, <1>7

-----------------------------------------------------------------------------
(* The leaves of a range of blocks of the chain.                           *)
Blocks(first, last) == Leaves(SubSeq(chain, first, last))
All == Leaves(chain)

(* The leaves of a range of blocks, which cuts the chain's where it ends.  *)
LEMMA BlocksAre ==
  ASSUME chain \in Seq(Seq(Tx)), NEW i \in Nat, NEW j \in Nat, i <= j, j <= Len(chain)
  PROVE  /\ Blocks(1, i) \in Seq(Tx) /\ Blocks(1, j) \in Seq(Tx) /\ Blocks(i + 1, j) \in Seq(Tx) /\ All \in Seq(Tx)
         /\ Blocks(1, j) = Blocks(1, i) \o Blocks(i + 1, j)
         /\ IsPrefix(Blocks(1, i), Blocks(1, j)) /\ IsPrefix(Blocks(1, j), All)
<1>0. Len(chain) \in Nat /\ SubSeq(chain, 1, Len(chain)) = chain
  OBVIOUS
<1>1. /\ SubSeq(chain, 1, i) \in Seq(Seq(Tx)) /\ SubSeq(chain, 1, j) \in Seq(Seq(Tx))
      /\ SubSeq(chain, i + 1, j) \in Seq(Seq(Tx)) /\ SubSeq(chain, j + 1, Len(chain)) \in Seq(Seq(Tx))
  BY <1>0
<1>2. /\ Blocks(1, i) \in Seq(Tx) /\ Blocks(1, j) \in Seq(Tx) /\ Blocks(i + 1, j) \in Seq(Tx)
      /\ Blocks(j + 1, Len(chain)) \in Seq(Tx) /\ All \in Seq(Tx)
  BY <1>1, FlattenType DEF Blocks, All, Leaves
<1>3. Blocks(1, j) = Blocks(1, i) \o Blocks(i + 1, j)
  BY FlattenCut DEF Blocks, Leaves
<1>4. All = Blocks(1, j) \o Blocks(j + 1, Len(chain))
  <2>1. FlattenSeq(SubSeq(chain, 1, Len(chain))) = FlattenSeq(SubSeq(chain, 1, j)) \o FlattenSeq(SubSeq(chain, j + 1, Len(chain)))
    <3>1. j <= Len(chain) /\ Len(chain) <= Len(chain)
      BY <1>0
    <3> QED BY <1>0, <3>1, FlattenCut
  <2> QED BY <1>0, <2>1 DEF Blocks, All, Leaves
<1>5. IsPrefix(Blocks(1, i), Blocks(1, i) \o Blocks(i + 1, j))
  BY <1>2, PrefixJoin
<1>6. IsPrefix(Blocks(1, j), Blocks(1, j) \o Blocks(j + 1, Len(chain)))
  BY <1>2, PrefixJoin
<1> QED BY <1>2, <1>3, <1>4, <1>5, <1>6

(* The index of a leaf is its place on the chain (leaves are mined once).  *)
LEMMA IndexIs ==
  ASSUME All \in Seq(Tx), IsInjective(All), NEW i \in 1 .. Len(All)
  PROVE  IndexOf(All[i]) = i - 1
<1>1. DOMAIN All = 1 .. Len(All) /\ Len(All) \in Nat
  OBVIOUS
<1>2. \A j \in DOMAIN All : All[j] = All[i] => j = i
  BY <1>1 DEF IsInjective
<1>3. (CHOOSE j \in DOMAIN All : All[j] = All[i]) = i
  BY <1>1, <1>2
<1> QED BY <1>1, <1>3 DEF IndexOf, All

(* The first of the leaves that a scan of some blocks appends.             *)
Start(a) == IF Len(client.tree) + 1 - Len(a) <= 1 THEN 1 ELSE Len(client.tree) + 1 - Len(a)

(* A scan without a gap takes the leaves of its blocks from the end of the *)
(* tree on.                                                                *)
LEMMA NewLeavesAre ==
  ASSUME chain \in Seq(Seq(Tx)), IsInjective(All), client.tree \in Seq(Tx),
         NEW i \in Nat, NEW j \in Nat, i <= j, j <= Len(chain), Blocks(i + 1, j) # << >>
  PROVE  /\ Start(Blocks(1, i)) \in Nat \ {0}
         /\ NewLeaves(Blocks(i + 1, j)) = Rest(Blocks(i + 1, j), Start(Blocks(1, i)))
         /\ ~Gap(NewLeaves(Blocks(i + 1, j))) /\ Start(Blocks(1, i)) <= Len(Blocks(i + 1, j)) =>
              Len(Blocks(1, i)) + Start(Blocks(1, i)) - 1 = Len(client.tree)
<1>1. PICK a \in Seq(Tx), b \in Seq(Tx), all \in Seq(Tx) : a = Blocks(1, i) /\ b = Blocks(i + 1, j) /\ all = All
  BY BlocksAre
<1>2. b # << >> /\ IsPrefix(a \o b, all)
  BY <1>1, BlocksAre
<1>ab. PICK ab : ab = a \o b
  OBVIOUS
<1>3. /\ ab \in Seq(Tx) /\ Len(ab) = Len(a) + Len(b) /\ Len(a) \in Nat /\ Len(b) \in Nat /\ Len(all) \in Nat
      /\ \A m \in 1 .. Len(b) : (ab)[Len(a) + m] = b[m]
  BY <1>ab, JoinIs
<1>4. Len(ab) <= Len(all) /\ \A m \in 1 .. Len(ab) : (ab)[m] = all[m]
  <2>1. IsPrefix(ab, all)
    BY <1>2, <1>ab
  <2>2. ab \in Seq(Tx)
    BY <1>3
  <2>3. PICK s \in Seq(Tx) : s = ab
    BY <2>2
  <2>4. IsPrefix(s, all) <=> Len(s) <= Len(all) /\ \A m \in 1 .. Len(s) : s[m] = all[m]
    BY ONLY PrefixIs, s \in Seq(Tx), all \in Seq(Tx)
  <2> QED BY <2>1, <2>3, <2>4
<1>5. ASSUME NEW m \in 1 .. Len(b) PROVE IndexOf(b[m]) = Len(a) + m - 1
  <2>1. PICK n \in Nat : n = Len(a) + m
    BY <1>3
  <2>2. n \in 1 .. Len(ab) /\ n \in 1 .. Len(all)
    BY <1>3, <1>4, <2>1
  <2>3. b[m] = all[n]
    BY <1>3, <1>4, <2>1, <2>2
  <2>4. IndexOf(All[n]) = n - 1
    BY <1>1, <2>2, IndexIs
  <2> QED BY <1>1, <2>1, <2>3, <2>4
<1>6. PICK n \in Nat : n = Len(client.tree)
  OBVIOUS
<1>7. 1 \in 1 .. Len(b)
  BY <1>2, <1>3
<1>8. IndexOf(b[1]) = Len(a)
  <2>1. IndexOf(b[1]) = Len(a) + 1 - 1
    BY <1>5, <1>7
  <2> QED BY <1>3, <2>1
<1>9. PICK k \in Nat \ {0} : k = Start(a)
  <2>1. PICK p \in Nat : p = Len(a)
    BY <1>3
  <2>2. (IF n + 1 - p <= 1 THEN 1 ELSE n + 1 - p) \in Nat \ {0}
    BY ONLY p \in Nat, n \in Nat
  <2> QED BY <1>6, <2>1, <2>2 DEF Start
<1>10. NewLeaves(b) = Rest(b, k)
  <2>1. PICK p \in Nat, x \in Int : p = Len(a) /\ x = n + 1 - p
    BY <1>3
  <2>2. Max({1, x}) = IF 1 <= x THEN x ELSE 1
    BY MaxOfPair
  <2>3. k = IF x <= 1 THEN 1 ELSE x
    BY <1>6, <1>9, <2>1 DEF Start
  <2>4. Max({1, x}) = k
    BY ONLY <2>2, <2>3, x \in Int
  <2>5. x = Len(client.tree) + 1 - IndexOf(b[1])
    BY <1>6, <1>8, <2>1
  <2> QED BY <1>2, <2>4, <2>5 DEF NewLeaves, Rest
<1>11. ASSUME ~Gap(NewLeaves(b)), k <= Len(b) PROVE Len(a) + k - 1 = n
  <2>1. /\ Len(Rest(b, k)) = Len(b) + 1 - k /\ Rest(b, k) # << >>
        /\ \A m \in 1 .. Len(b) + 1 - k : Rest(b, k)[m] = b[k + m - 1]
    BY <1>11, RestIs
  <2>2. 1 \in 1 .. Len(b) + 1 - k /\ k + 1 - 1 = k /\ k \in 1 .. Len(b)
    BY <1>3, <1>11
  <2>3. Rest(b, k)[1] = b[k]
    BY <2>1, <2>2
  <2>4. IndexOf(NewLeaves(b)[1]) = Len(client.tree)
    BY <1>10, <1>11, <2>1 DEF Gap
  <2> QED BY <1>5, <1>6, <1>10, <2>2, <2>3, <2>4
<1> QED BY <1>1, <1>6, <1>9, <1>10, <1>11

(* A scan without a gap of the blocks first .. last.                       *)
Grown(first, last) == client.tree \o NewLeaves(Blocks(first, last))

(* What the tree holds after a scan without a gap: the leaves of the       *)
(* blocks up to the last, all on the chain's history if it was before.     *)
LEMMA ScannedTree ==
  ASSUME chain \in Seq(Seq(Tx)), IsInjective(All), client.tree \in Seq(Tx),
         NEW first \in Nat \ {0}, NEW last \in Nat, last <= Len(chain), ~Gap(NewLeaves(Blocks(first, last)))
  PROVE  /\ Blocks(first, last) \in Seq(Tx) /\ NewLeaves(Blocks(first, last)) \in Seq(Tx) /\ Grown(first, last) \in Seq(Tx)
         /\ Range(NewLeaves(Blocks(first, last))) \subseteq Range(Blocks(first, last))
         /\ Compatible(client.tree, All) =>
              /\ Spent(client.tree) \cup Spent(Blocks(first, last)) = Spent(Grown(first, last))
              /\ Blocks(first, last) # << >> => IsPrefix(Blocks(1, last), Grown(first, last))
         /\ IsPrefix(client.tree, Grown(first, last))
         /\ IsPrefix(client.tree, All) => IsPrefix(Grown(first, last), All)
         /\ Compatible(Grown(first, last), All) => Compatible(client.tree, All)
<1>1. PICK tree \in Seq(Tx) : tree = client.tree
  OBVIOUS
<1>2. All \in Seq(Tx)
  BY FlattenType DEF All, Leaves
<1>3. CASE Blocks(first, last) = << >>
  <2>1. NewLeaves(Blocks(first, last)) = << >>
    BY <1>3 DEF NewLeaves
  <2>2. tree \o << >> = tree /\ << >> \in Seq(Tx) /\ Range(<< >>) = {}
    BY ConcatMore DEF Range
  <2>3. Grown(first, last) = tree
    BY <1>1, <2>1, <2>2 DEF Grown
  <2>4. Spent(<< >>) = {} /\ IsPrefix(tree, tree)
    BY SpentJoin, PrefixEmpty
  <2> QED BY <1>1, <1>3, <2>1, <2>2, <2>3, <2>4
<1>4. CASE Blocks(first, last) # << >>
  <2>1. first <= last
    <3>1. SUFFICES ASSUME last < first PROVE FALSE
      OBVIOUS
    <3>2. SubSeq(chain, first, last) = << >>
      BY <3>1
    <3> QED BY <1>4, <3>2, FlattenNone DEF Blocks, Leaves
  <2>2. PICK i \in Nat : first = i + 1 /\ i <= last
    <3>1. first - 1 \in Nat /\ first = (first - 1) + 1 /\ first - 1 <= last
      BY <2>1
    <3> QED BY <3>1
  <2>3. /\ Blocks(1, i) \in Seq(Tx) /\ Blocks(1, last) \in Seq(Tx) /\ Blocks(first, last) \in Seq(Tx)
        /\ Blocks(1, last) = Blocks(1, i) \o Blocks(first, last) /\ IsPrefix(Blocks(1, last), All)
    BY <2>2, BlocksAre
  <2>4. PICK a \in Seq(Tx), b \in Seq(Tx), all \in Seq(Tx) : a = Blocks(1, i) /\ b = Blocks(first, last) /\ all = All
    BY <1>2, <2>3
  <2>5. /\ Start(a) \in Nat \ {0} /\ NewLeaves(b) = Rest(b, Start(a))
        /\ Start(a) <= Len(b) => Len(a) + Start(a) - 1 = Len(tree)
    BY <1>1, <1>4, <2>2, <2>4, NewLeavesAre
  <2>6. PICK k \in Nat \ {0} : k = Start(a)
    BY <2>5
  <2>7. /\ k = IF Len(tree) + 1 - Len(a) <= 1 THEN 1 ELSE Len(tree) + 1 - Len(a)
        /\ k <= Len(b) => Len(a) + k - 1 = Len(tree)
        /\ b # << >> /\ IsPrefix(a \o b, all)
    BY <1>1, <1>4, <2>3, <2>4, <2>5, <2>6 DEF Start
  <2>8. PICK new \in Seq(Tx) : new = Rest(b, k) /\ Range(new) \subseteq Range(b)
    BY RestIs
  <2>9. NewLeaves(Blocks(first, last)) = new /\ Grown(first, last) = tree \o new
    BY <1>1, <2>4, <2>5, <2>6, <2>8 DEF Grown
  <2>10. PICK grown \in Seq(Tx) : grown = tree \o new
    BY JoinIs
  <2>11. IsPrefix(tree, grown)
    BY <2>10, PrefixJoin
  <2>12. ASSUME Compatible(tree, all)
         PROVE  /\ IsPrefix(a \o b, grown) /\ Spent(tree) \cup Spent(b) = Spent(grown)
                /\ IsPrefix(tree, all) => IsPrefix(grown, all)
    <3>1. /\ IsPrefix(a \o b, tree \o Rest(b, k)) /\ Range(tree) \cup Range(b) = Range(tree \o Rest(b, k))
          /\ IsPrefix(tree, all) => IsPrefix(tree \o Rest(b, k), all)
      BY <2>7, <2>12, Extends, SMTT(30)
    <3>2. Range(tree) \cup Range(b) = Range(grown)
      BY <2>8, <2>10, <3>1
    <3>3. Spent(tree) \cup Spent(b) = Spent(grown)
      BY <3>2 DEF Spent
    <3> QED BY <2>8, <2>10, <3>1, <3>3
  <2>13. ASSUME Compatible(grown, all) PROVE Compatible(tree, all)
    <3>1. CASE IsPrefix(grown, all)
      <4>1. IsPrefix(tree, all)
        BY <2>11, <3>1, PrefixTrans
      <4> QED BY <4>1 DEF Compatible
    <3>2. CASE IsPrefix(all, grown)
      <4>1. IsPrefix(tree, all) \/ IsPrefix(all, tree)
        BY <2>11, <3>2, PrefixBoth
      <4> QED BY <4>1 DEF Compatible
    <3> QED BY <2>13, <3>1, <3>2 DEF Compatible
  <2>14. IsPrefix(tree, all) => Compatible(tree, all)
    BY DEF Compatible
  <2>15. IsPrefix(Blocks(1, last), grown) <=> IsPrefix(a \o b, grown)
    BY <2>3, <2>4
  <2>16. Grown(first, last) = grown
    BY <2>9, <2>10
  <2>17. NewLeaves(Blocks(first, last)) \in Seq(Tx) /\ Range(NewLeaves(Blocks(first, last))) \subseteq Range(Blocks(first, last))
    BY <2>4, <2>8, <2>9
  <2> QED BY ONLY <1>1, <2>3, <2>4, <2>10, <2>11, <2>12, <2>13, <2>14, <2>15, <2>16, <2>17
<1> QED BY <1>3, <1>4

(* The block of a leaf of some blocks is one of them, or comes before.     *)
LEMMA BlockFound ==
  ASSUME chain \in Seq(Seq(Tx)), IsInjective(All), NEW first \in Nat \ {0}, NEW last \in Nat, last <= Len(chain),
         NEW t \in Range(Blocks(first, last))
  PROVE  BlockOf(t) \in 1 .. last
<1>0. Len(chain) \in Nat /\ DOMAIN chain = 1 .. Len(chain) /\ All \in Seq(Tx)
  BY FlattenType DEF All, Leaves
<1>1. PICK n \in first .. last : t \in Range(chain[n])
  BY FlattenMember DEF Blocks, Leaves
<1>2. BlockOf(t) \in DOMAIN chain /\ t \in Range(chain[BlockOf(t)])
  <2>1. n \in DOMAIN chain
    BY <1>0
  <2> QED BY <1>1, <2>1 DEF BlockOf
<1>3. PICK m \in Nat : BlockOf(t) = m + 1 /\ m + 1 <= Len(chain) /\ t \in Range(chain[m + 1])
  <2>1. BlockOf(t) - 1 \in Nat /\ BlockOf(t) = (BlockOf(t) - 1) + 1
    BY <1>0, <1>2
  <2> QED BY <1>0, <1>2, <2>1
<1>4. SUFFICES ASSUME last <= m PROVE FALSE
  BY <1>0, <1>3
<1>5. PICK i \in Nat : n = i + 1 /\ i + 1 <= last
  <2>1. n - 1 \in Nat /\ n = (n - 1) + 1 /\ n <= last
    OBVIOUS
  <2> QED BY <2>1
<1>6. ASSUME NEW k \in Nat, k + 1 <= Len(chain), t \in Range(chain[k + 1])
      PROVE  \E x \in 1 .. Len(All) : All[x] = t /\ Len(Blocks(1, k)) < x /\ x <= Len(Blocks(1, k + 1))
  <2>1. /\ Blocks(1, k) \in Seq(Tx) /\ Blocks(k + 1, k + 1) \in Seq(Tx) /\ Blocks(1, k + 1) \in Seq(Tx)
        /\ Blocks(1, k + 1) = Blocks(1, k) \o Blocks(k + 1, k + 1) /\ IsPrefix(Blocks(1, k + 1), All)
    <3>1. PICK j \in Nat : j = k + 1
      OBVIOUS
    <3>2. k <= j /\ j <= Len(chain)
      BY <1>6, <3>1
    <3>3. /\ Blocks(1, k) \in Seq(Tx) /\ Blocks(k + 1, j) \in Seq(Tx) /\ Blocks(1, j) \in Seq(Tx)
          /\ Blocks(1, j) = Blocks(1, k) \o Blocks(k + 1, j) /\ IsPrefix(Blocks(1, j), All)
      BY <3>2, BlocksAre
    <3> QED BY <3>1, <3>3
  <2>2. Blocks(k + 1, k + 1) = chain[k + 1] /\ chain[k + 1] \in Seq(Tx)
    <3>1. /\ SubSeq(chain, k + 1, k + 1) = Append(SubSeq(chain, k + 1, k), chain[k + 1]) /\ chain[k + 1] \in Seq(Tx)
          /\ SubSeq(chain, k + 1, k) \in Seq(Seq(Tx))
      BY <1>6, OneMore
    <3>2. SubSeq(chain, k + 1, k) = << >>
      OBVIOUS
    <3>3. FlattenSeq(SubSeq(chain, k + 1, k + 1)) = FlattenSeq(SubSeq(chain, k + 1, k)) \o chain[k + 1]
      BY <3>1, FlattenAppend
    <3>4. << >> \o chain[k + 1] = chain[k + 1]
      BY <3>1, ConcatMore
    <3> QED BY <3>1, <3>2, <3>3, <3>4, FlattenNone DEF Blocks, Leaves
  <2>3. PICK p \in Seq(Tx), q \in Seq(Tx), u \in Seq(Tx), all \in Seq(Tx) :
          p = Blocks(1, k) /\ q = chain[k + 1] /\ u = Blocks(1, k + 1) /\ all = All
    BY <1>0, <2>1, <2>2
  <2>4. u = p \o q /\ IsPrefix(u, all) /\ t \in Range(q)
    BY <1>6, <2>1, <2>2, <2>3
  <2>5. PICK j \in 1 .. Len(q) : q[j] = t
    BY <2>4 DEF Range
  <2>6. Len(u) = Len(p) + Len(q) /\ Len(p) \in Nat /\ Len(q) \in Nat /\ u[Len(p) + j] = q[j]
    <3>0. PICK pq : pq = p \o q
      OBVIOUS
    <3>1. /\ Len(pq) = Len(p) + Len(q) /\ Len(p) \in Nat /\ Len(q) \in Nat
          /\ \A y \in 1 .. Len(q) : pq[Len(p) + y] = q[y]
      BY <3>0, JoinIs
    <3>2. pq[Len(p) + j] = q[j]
      BY <3>1
    <3>3. pq = u
      BY <2>4, <3>0
    <3> QED BY <3>1, <3>2, <3>3
  <2>7. Len(u) <= Len(all) /\ \A x \in 1 .. Len(u) : u[x] = all[x]
    <3>1. IsPrefix(u, all)
      BY <2>4
    <3>2. IsPrefix(u, all) <=> Len(u) <= Len(all) /\ \A x \in 1 .. Len(u) : u[x] = all[x]
      BY PrefixIs
    <3> QED BY <3>1, <3>2
  <2>8. PICK x \in Nat : x = Len(p) + j
    BY <2>6
  <2>9. x \in 1 .. Len(u) /\ x \in 1 .. Len(all) /\ Len(p) < x
    <3>1. Len(all) \in Nat
      OBVIOUS
    <3>2. PICK g \in Nat, h \in Nat, l \in Nat, v \in Nat :
            g = Len(p) /\ h = Len(q) /\ l = Len(all) /\ v = Len(u) /\ v = g + h /\ v <= l /\ x = g + j
      BY <2>6, <2>7, <2>8, <3>1
    <3>3. j \in 1 .. h
      BY <3>2
    <3>4. x \in 1 .. v /\ x \in 1 .. l /\ g < x
      BY <3>2, <3>3
    <3> QED BY <3>2, <3>4
  <2>10. all[x] = t
    BY <2>5, <2>6, <2>7, <2>8, <2>9
  <2> QED BY <2>3, <2>9, <2>10
<1>7. PICK x \in 1 .. Len(All) : All[x] = t /\ x <= Len(Blocks(1, i + 1))
  <2>1. i + 1 <= Len(chain) /\ t \in Range(chain[i + 1])
    BY <1>0, <1>1, <1>5
  <2>2. \E x \in 1 .. Len(All) : All[x] = t /\ Len(Blocks(1, i)) < x /\ x <= Len(Blocks(1, i + 1))
    BY <1>6, <2>1
  <2> QED BY <2>2
<1>8. PICK y \in 1 .. Len(All) : All[y] = t /\ Len(Blocks(1, m)) < y
  BY <1>3, <1>6
<1>9. Len(Blocks(1, i + 1)) <= Len(Blocks(1, m))
  <2>1. i + 1 \in Nat /\ i + 1 <= m /\ m <= Len(chain)
    BY <1>0, <1>3, <1>4, <1>5
  <2>2. Blocks(1, i + 1) \in Seq(Tx) /\ Blocks(1, m) \in Seq(Tx) /\ IsPrefix(Blocks(1, i + 1), Blocks(1, m))
    BY <2>1, BlocksAre
  <2> QED BY <2>2, PrefixIs
<1>10. x = y
  <2>1. DOMAIN All = 1 .. Len(All)
    BY <1>0
  <2>2. x \in DOMAIN All /\ y \in DOMAIN All /\ All[x] = All[y]
    BY <1>7, <1>8, <2>1
  <2>3. IsInjective(All)
    BY <1>0
  <2> QED BY <2>2, <2>3, Zenon DEF IsInjective
<1>11. Len(Blocks(1, i + 1)) \in Nat /\ Len(Blocks(1, m)) \in Nat
  <2>1. i + 1 \in Nat /\ i + 1 <= Len(chain) /\ m <= Len(chain)
    BY <1>0, <1>3, <1>5
  <2>2. Blocks(1, i + 1) \in Seq(Tx) /\ Blocks(1, m) \in Seq(Tx)
    BY <2>1, BlocksAre
  <2> QED BY <2>2
<1> QED BY <1>7, <1>8, <1>9, <1>10, <1>11

(* The cursor after a scan: where it was, or the block of a leaf seen.     *)
LEMMA CursorIs ==
  ASSUME chain \in Seq(Seq(Tx)), IsInjective(All), client.cursor \in Null .. Len(chain),
         NEW first \in Nat \ {0}, NEW last \in Nat, last <= Len(chain),
         NEW cursor, cursor = Cursor(first, Range(Blocks(first, last))),
         NEW before, before = IF client.cursor # Null THEN client.cursor ELSE first - 1
  PROVE  /\ cursor \in Nat /\ before <= cursor
         /\ cursor = before \/ (cursor \in 1 .. last /\ Blocks(first, last) # << >>)
<1> DEFINE seen == { BlockOf(t) : t \in Range(Blocks(first, last)) }
<1>0. Len(chain) \in Nat /\ before \in Nat
  BY DEF Null
<1>1. seen \subseteq 1 .. last
  BY BlockFound
<1>2. Cursor(first, Range(Blocks(first, last))) = Max({before} \cup seen)
  BY DEF Cursor
<1>3. seen # {} => Blocks(first, last) # << >>
  BY DEF Range
<1>4. PICK p \in Nat : p = before
  BY <1>0
<1> HIDE DEF seen
<1>5. PICK all : all = {p} \cup seen
  OBVIOUS
<1>6. all \subseteq 0 .. p + last
  BY ONLY <1>1, <1>5, p \in Nat, last \in Nat
<1>7. IsFiniteSet(all)
  <2>1. PICK q \in Nat : q = p + last
    OBVIOUS
  <2>2. IsFiniteSet(0 .. q)
    BY ONLY FS_Interval, q \in Nat
  <2> QED BY <1>6, <2>1, <2>2, FS_Subset
<1>8. Max(all) \in all /\ \A x \in all : x <= Max(all)
  <2>1. IsFiniteSet(all) /\ all \subseteq Int /\ all # {}
    BY <1>5, <1>6, <1>7
  <2> QED BY <2>1, MaxOfFinite
<1>9. cursor = Max(all)
  BY <1>2, <1>4, <1>5
<1>10. /\ Max(all) \in Nat /\ p <= Max(all)
       /\ Max(all) = p \/ (Max(all) \in 1 .. last /\ seen # {})
  <2>1. p \in all /\ p <= Max(all)
    BY <1>5, <1>8
  <2>2. CASE Max(all) = p
    BY <2>1, <2>2
  <2>3. CASE Max(all) # p
    <3>1. Max(all) \in seen
      BY <1>5, <1>8, <2>3
    <3>2. Max(all) \in 1 .. last /\ seen # {}
      BY <1>1, <3>1
    <3>3. \A x \in 1 .. last : x \in Nat
      OBVIOUS
    <3> QED BY <2>1, <3>2, <3>3
  <2> QED BY <2>2, <2>3
<1> QED BY ONLY <1>3, <1>4, <1>9, <1>10

(* The cursor stays within the chain, whatever leaves were seen.           *)
LEMMA CursorTyped ==
  ASSUME chain \in Seq(Seq(Tx)), client.cursor \in Null .. Len(chain),
         NEW first \in Nat \ {0}, first <= Len(chain), NEW seen, \A t \in seen : BlockOf(t) \in 1 .. Len(chain)
  PROVE  Cursor(first, seen) \in Null .. Len(chain)
<1> DEFINE blocks == { BlockOf(t) : t \in seen }
<1>1. PICK n \in Nat : n = Len(chain)
  OBVIOUS
<1>2. PICK before \in 0 .. n : before = IF client.cursor # Null THEN client.cursor ELSE first - 1
  <2>1. CASE client.cursor = Null
    <3>1. first - 1 \in 0 .. n
      BY <1>1
    <3> QED BY <2>1, <3>1
  <2>2. CASE client.cursor # Null
    <3>1. client.cursor \in 0 .. n
      BY <1>1, <2>2 DEF Null
    <3> QED BY <2>2, <3>1
  <2> QED BY <2>1, <2>2
<1>3. blocks \subseteq 1 .. n
  BY <1>1
<1>4. Cursor(first, seen) = Max({before} \cup blocks)
  BY <1>2 DEF Cursor
<1> HIDE DEF blocks
<1>5. PICK all : all = {before} \cup blocks
  OBVIOUS
<1>6. all \subseteq 0 .. n /\ all # {}
  BY ONLY <1>3, <1>5, before \in 0 .. n, n \in Nat
<1>7. IsFiniteSet(all) /\ all \subseteq Int
  <2>1. IsFiniteSet(0 .. n)
    BY ONLY FS_Interval, n \in Nat
  <2>2. IsFiniteSet(all)
    BY <1>6, <2>1, FS_Subset
  <2> QED BY <1>6, <2>2
<1>8. Max(all) \in all
  BY <1>6, <1>7, MaxOfFinite
<1> QED BY <1>1, <1>4, <1>5, <1>6, <1>8 DEF Null

(* Types, and that before the first reorganisation both trees are prefixes *)
(* of the chain's.                                                         *)
AccountTyped(s) ==
  /\ DOMAIN s = {"tree", "owned", "spent", "assoc", "cursor", "torn"}
  /\ s.tree \in Seq(Tx) /\ s.owned \in Seq(Tx) /\ s.spent \subseteq Tx
  /\ s.cursor \in Null .. Len(chain) /\ s.torn \in BOOLEAN
CallTyped(s) ==
  /\ DOMAIN s = {"at", "from", "head", "rescan", "root"}
  /\ s.at \in {"idle", "head", "logs", "guard"}
  /\ s.from \in Nat /\ s.head \in 0 .. Len(chain) /\ s.rescan \in BOOLEAN /\ s.root \in Seq(Tx)
  /\ s.at = "idle" => ~s.rescan
  /\ s.at # "idle" => s.from # 0
  /\ s.at = "logs" => s.from <= s.head
ChainTyped == chain \in Seq(Seq(Tx)) /\ IsInjective(All)
Typed ==
  /\ ChainTyped
  /\ scenario \in Scenario /\ reorgs \in Nat /\ reorgs <= scenario.reorgs
  /\ AccountTyped(client) /\ AccountTyped(cache) /\ settled \in BOOLEAN
  /\ DOMAIN call = Call
  /\ \A c \in Call : CallTyped(call[c]) /\ (call[c].at # "idle" => c \in scenario.calls)
  /\ reorgs = 0 => settled /\ IsPrefix(client.tree, All) /\ IsPrefix(cache.tree, All)

(* The fields of a fresh account.                                          *)
LEMMA FreshIs ==
  /\ DOMAIN Fresh = {"tree", "owned", "spent", "assoc", "cursor", "torn"}
  /\ Fresh.tree = << >> /\ Fresh.owned = << >> /\ Fresh.spent = {} /\ Fresh.cursor = -1
  /\ Fresh.torn = FALSE
BY DEF Fresh, Null

(* The fields of a call that has not begun.                                *)
LEMMA IdleIs ==
  /\ DOMAIN Idle = {"at", "from", "head", "rescan", "root"}
  /\ Idle.at = "idle" /\ Idle.from = 0 /\ Idle.head = 0 /\ Idle.rescan = FALSE /\ Idle.root = << >>
BY DEF Idle

(* A call that has not begun is typed.                                     *)
LEMMA IdleTyped == ASSUME ChainTyped PROVE CallTyped(Idle)
<1>1. Len(chain) \in Nat /\ << >> \in Seq(Tx)
  BY DEF ChainTyped
<1>2. Idle.root \in Seq(Tx)
  BY <1>1, IdleIs
<1>3. Idle.from \in Nat /\ Idle.head \in 0 .. Len(chain)
  BY <1>1, IdleIs
<1> QED BY <1>2, <1>3, IdleIs DEF CallTyped

(* A step of one call leaves the others alone.                             *)
LEMMA Resumed ==
  ASSUME DOMAIN call = Call, NEW c \in Call, NEW local, Resume(c, local)
  PROVE  DOMAIN call' = Call /\ call'[c] = local /\ \A d \in Call : d # c => call'[d] = call[d]
BY DEF Resume

(* A block is a sequence of transactions.                                  *)
LEMMA BlockTyped == ASSUME NEW b \in Block PROVE b \in Seq(Tx)
<1>1. << >> \in Seq(Tx) /\ (\A t \in Tx : <<t>> \in Seq(Tx)) /\ \A t, u \in Tx : <<t, u>> \in Seq(Tx)
  OBVIOUS
<1>2. ASSUME NEW p \in Tx \X Tx PROVE p \in Seq(Tx)
  <2>1. PICK t \in Tx, u \in Tx : p = <<t, u>>
    OBVIOUS
  <2> QED BY <1>1, <2>1
<1> QED BY <1>1, <1>2 DEF Block

(* A mined block adds its leaves, and the earlier blocks stay.             *)
LEMMA Mines ==
  ASSUME ChainTyped, Mine
  PROVE  /\ chain' \in Seq(Seq(Tx)) /\ IsInjective(All') /\ Len(chain') = Len(chain) + 1
         /\ All \in Seq(Tx) /\ All' \in Seq(Tx) /\ IsPrefix(All, All')
         /\ \A k \in Nat : k <= Len(chain) => Blocks(1, k)' = Blocks(1, k)
<1>1. PICK b \in Block : Valid(Append(chain, b)) /\ chain' = Append(chain, b)
  BY DEF Mine
<1>2. b \in Seq(Tx) /\ chain \in Seq(Seq(Tx))
  BY BlockTyped DEF ChainTyped
<1>3. /\ chain' \in Seq(Seq(Tx)) /\ Len(chain') = Len(chain) + 1
      /\ \A k \in Nat : k <= Len(chain) => SubSeq(chain', 1, k) = SubSeq(chain, 1, k)
  BY <1>1, <1>2
<1>4. All' = All \o b /\ All \in Seq(Tx)
  BY <1>1, <1>2, FlattenAppend, FlattenType DEF All, Leaves
<1>5. IsPrefix(All, All') /\ All' \in Seq(Tx)
  BY <1>2, <1>4, PrefixJoin
<1>6. IsInjective(All')
  BY <1>1 DEF Valid, All
<1> QED BY <1>3, <1>4, <1>5, <1>6 DEF Blocks

(* A reorganisation replaces blocks by as many.                            *)
LEMMA Reorganises ==
  ASSUME ChainTyped, Reorg
  PROVE  chain' \in Seq(Seq(Tx)) /\ IsInjective(All') /\ Len(chain') = Len(chain)
<1>0. PICK kept \in 0 .. Len(chain) - 1 : \E suffix \in [1 .. Len(chain) - kept -> Block] :
        Valid(SubSeq(chain, 1, kept) \o suffix) /\ chain' = SubSeq(chain, 1, kept) \o suffix
  BY DEF Reorg
<1>1. PICK suffix \in [1 .. Len(chain) - kept -> Block] :
        Valid(SubSeq(chain, 1, kept) \o suffix) /\ chain' = SubSeq(chain, 1, kept) \o suffix
  BY <1>0
<1>2. chain \in Seq(Seq(Tx)) /\ Len(chain) \in Nat
  BY DEF ChainTyped
<1>3. PICK n \in Nat : n = Len(chain) - kept
  <2>1. Len(chain) - kept \in Nat
    BY <1>2
  <2> QED BY <2>1
<1>4. suffix \in [1 .. n -> Seq(Tx)]
  BY <1>3, BlockTyped
<1>5. suffix \in Seq(Seq(Tx)) /\ Len(suffix) = n
  BY <1>4
<1>6. SubSeq(chain, 1, kept) \in Seq(Seq(Tx)) /\ Len(SubSeq(chain, 1, kept)) = kept
  BY <1>2
<1>7. chain' \in Seq(Seq(Tx)) /\ Len(chain') = Len(chain)
  <2>1. PICK start \in Seq(Seq(Tx)) : start = SubSeq(chain, 1, kept) /\ Len(start) = kept
    BY <1>6
  <2>2. PICK all : all = start \o suffix
    OBVIOUS
  <2>3. all \in Seq(Seq(Tx)) /\ Len(all) = kept + n
    BY <1>5, <2>1, <2>2, JoinIs
  <2> QED BY <1>1, <1>2, <1>3, <2>1, <2>2, <2>3
<1>8. IsInjective(All')
  BY <1>1 DEF Valid, All
<1> QED BY <1>7, <1>8

(* What a scan of blocks up to last does, with a gap and without one.      *)
Seen(c, last) == Blocks(call[c].from, last)
ScanStops(c, last) ==
  /\ Gap(NewLeaves(Seen(c, last)))
  /\ client'.tree = client.tree /\ client'.owned = client.owned /\ client'.spent = client.spent
  /\ client'.cursor = client.cursor /\ client'.torn = client.torn
  /\ settled' = settled /\ call'[c] = Idle
ScanGrows(c, last) ==
  /\ ~Gap(NewLeaves(Seen(c, last)))
  /\ client'.tree = Grown(call[c].from, last)
  /\ client'.owned \in Seq(Tx) /\ client'.spent \subseteq Tx /\ client'.cursor \in Null .. Len(chain)
  /\ client'.torn \in BOOLEAN
  /\ settled' = (settled \/ call[c].rescan)
  /\ \/ call'[c] = Idle
     \/ ~call[c].rescan /\ call'[c] = [call[c] EXCEPT !.at = "guard", !.root = client'.tree]
(* What it adds to the account when it is not torn.                        *)
ScanWhole(c, last) ==
  /\ ~client.torn /\ IsPrefix(client.tree, All) /\ ~(call[c].from > From)
  /\ client'.owned = client.owned \o Only(NewLeaves(Seen(c, last)), Own)
  /\ client'.spent = client.spent \cup Spent(Seen(c, last))
  /\ client'.cursor = Cursor(call[c].from, Range(Seen(c, last)))

(* The answer of a node to one of the four queries: the leaves of the      *)
(* blocks from the first up to some block of the chain.                    *)
LEMMA AnswerIs ==
  ASSUME Typed, NEW c \in Call, call[c].at = "logs", NEW answer \in Answers(c)
  PROVE  /\ \E last \in Nat : last <= Len(chain) /\ answer = Seen(c, last)
         /\ \A t \in Range(answer) : BlockOf(t) \in 1 .. Len(chain)
<1>1. /\ CallTyped(call[c]) /\ chain \in Seq(Seq(Tx)) /\ IsInjective(All) /\ Len(chain) \in Nat
      /\ call[c].from \in Nat \ {0} /\ call[c].head \in 0 .. Len(chain)
  BY DEF Typed, ChainTyped, CallTyped
<1>2. PICK h \in Height : answer = Logs(call[c].from, call[c].head, h)
  BY DEF Answers
<1>3. PICK last \in Nat : last = (IF h < call[c].head THEN h ELSE call[c].head) /\ last <= Len(chain)
  <2>1. h \in Nat /\ h <= Len(chain) /\ call[c].head \in Nat /\ call[c].head <= Len(chain)
    BY <1>1 DEF Height
  <2> QED BY <2>1
<1>4. answer = Blocks(call[c].from, last) /\ answer = Seen(c, last)
  BY <1>2, <1>3 DEF Logs, Blocks, Seen
<1>5. ASSUME NEW t \in Range(answer) PROVE BlockOf(t) \in 1 .. Len(chain)
  <2>1. PICK first \in Nat \ {0} : first = call[c].from
    BY <1>1
  <2>2. t \in Range(Blocks(first, last))
    BY <1>4, <2>1
  <2>3. BlockOf(t) \in 1 .. last
    BY <1>1, <1>3, <2>2, BlockFound
  <2> QED BY <1>1, <1>3, <2>3
<1> QED BY <1>3, <1>4, <1>5

(* A scan either stops at a gap or grows the tree by the leaves of its     *)
(* blocks up to some block, and if it is not torn the account with it.     *)
LEMMA ScanDoes ==
  ASSUME Typed, NEW c \in Call, Scan(c)
  PROVE  \E last \in Nat :
           /\ last <= Len(chain) /\ call[c].at = "logs" /\ call[c].from \in Nat \ {0}
           /\ UNCHANGED <<scenario, chain, reorgs, cache>>
           /\ DOMAIN client' = {"tree", "owned", "spent", "assoc", "cursor", "torn"}
           /\ DOMAIN call' = Call /\ \A d \in Call : d # c => call'[d] = call[d]
           /\ \/ ScanStops(c, last)
              \/ ScanGrows(c, last) /\ (client'.torn \/ ScanWhole(c, last))
<1>1. /\ DOMAIN call = Call /\ CallTyped(call[c]) /\ call[c].at = "logs" /\ AccountTyped(client) /\ ChainTyped
      /\ UNCHANGED <<scenario, chain, reorgs, cache>> /\ settled \in BOOLEAN
  BY DEF Typed, Scan
<1>2. PICK L \in Answers(c), swaps \in Answers(c), nullifiers \in Answers(c), deposits \in Answers(c) :
        Merge(c, L, swaps, nullifiers, deposits)
  BY DEF Scan
<1>3. PICK from \in Nat \ {0} : from = call[c].from /\ from <= Len(chain) /\ Len(chain) \in Nat
  <2>1. call[c].from \in Nat \ {0} /\ call[c].from <= call[c].head /\ call[c].head \in 0 .. Len(chain) /\ Len(chain) \in Nat
    BY <1>1 DEF CallTyped, ChainTyped
  <2> QED BY <2>1
<1>4. PICK last \in Nat : last <= Len(chain) /\ L = Seen(c, last)
  BY <1>1, AnswerIs
<1>5. L = Blocks(from, last)
  BY <1>3, <1>4 DEF Seen
<1>6. PICK new : new = NewLeaves(L)
  OBVIOUS
<1>7. PICK assoc : assoc = Approve(client.assoc, deposits)
  OBVIOUS
<1>8. PICK seen : seen = Range(L) \cup (Swap \cap Range(swaps)) \cup Range(nullifiers) \cup (Labelled \cap Range(deposits))
  OBVIOUS
<1>9. PICK torn : torn = Torn(c, L, swaps, nullifiers, deposits)
  OBVIOUS
<1>10. /\ IF Gap(new)
          THEN client' = [client EXCEPT !.assoc = assoc] /\ Resume(c, Idle)
          ELSE /\ client' = [ tree   |-> client.tree \o new,
                              owned  |-> client.owned \o Recovered(new, swaps, deposits),
                              spent  |-> client.spent \cup Spent(nullifiers),
                              assoc  |-> assoc,
                              cursor |-> Cursor(from, seen),
                              torn   |-> torn ]
               /\ Resume(c, IF call[c].rescan \/ client.tree \o new = << >> THEN Idle
                            ELSE [call[c] EXCEPT !.at = "guard", !.root = client.tree \o new])
       /\ settled' = (settled \/ (call[c].rescan /\ ~Gap(new)))
  BY <1>2, <1>3, <1>6, <1>7, <1>8, <1>9 DEF Merge
<1>11. CASE Gap(new)
  <2>1. client' = [client EXCEPT !.assoc = assoc] /\ Resume(c, Idle) /\ settled' = settled
    BY <1>1, <1>10, <1>11
  <2>2. DOMAIN call' = Call /\ call'[c] = Idle /\ \A d \in Call : d # c => call'[d] = call[d]
    BY <1>1, <2>1, Resumed
  <2>3. /\ DOMAIN client' = {"tree", "owned", "spent", "assoc", "cursor", "torn"}
        /\ client'.tree = client.tree /\ client'.owned = client.owned /\ client'.spent = client.spent
        /\ client'.cursor = client.cursor /\ client'.torn = client.torn
    BY <1>1, <2>1 DEF AccountTyped
  <2>4. ScanStops(c, last)
    BY <1>4, <1>6, <1>11, <2>1, <2>2, <2>3 DEF ScanStops
  <2> QED BY <1>1, <1>3, <1>4, <2>2, <2>3, <2>4
<1>12. CASE ~Gap(new)
  <2>1. PICK tree : tree = client.tree \o new
    OBVIOUS
  <2>2. /\ client' = [ tree   |-> tree,
                       owned  |-> client.owned \o Recovered(new, swaps, deposits),
                       spent  |-> client.spent \cup Spent(nullifiers),
                       assoc  |-> assoc,
                       cursor |-> Cursor(from, seen),
                       torn   |-> torn ]
        /\ Resume(c, IF call[c].rescan \/ tree = << >> THEN Idle
                     ELSE [call[c] EXCEPT !.at = "guard", !.root = tree])
        /\ settled' = (settled \/ call[c].rescan)
    BY <1>10, <1>12, <2>1
  <2>3. DOMAIN call' = Call /\ \A d \in Call : d # c => call'[d] = call[d]
    BY <1>1, <2>2, Resumed
  <2>4. /\ DOMAIN client' = {"tree", "owned", "spent", "assoc", "cursor", "torn"}
        /\ client'.tree = tree /\ client'.owned = client.owned \o Recovered(new, swaps, deposits)
        /\ client'.spent = client.spent \cup Spent(nullifiers) /\ client'.cursor = Cursor(from, seen)
        /\ client'.torn = torn
    BY ONLY <2>2
  <2>5. \/ call'[c] = Idle
        \/ ~call[c].rescan /\ call'[c] = [call[c] EXCEPT !.at = "guard", !.root = tree]
    <3>1. call'[c] = IF call[c].rescan \/ tree = << >> THEN Idle
                     ELSE [call[c] EXCEPT !.at = "guard", !.root = tree]
      BY <1>1, <2>2, Resumed
    <3> QED BY <3>1
  <2>6. new \in Seq(Tx) /\ Range(new) \subseteq Range(L)
    <3>1. client.tree \in Seq(Tx) /\ chain \in Seq(Seq(Tx)) /\ IsInjective(All)
      BY <1>1 DEF AccountTyped, ChainTyped
    <3> QED BY <1>3, <1>4, <1>5, <1>6, <1>12, <3>1, ScannedTree
  <2>7. tree = Grown(from, last)
    BY <1>5, <1>6, <2>1 DEF Grown
  <2>8. client'.owned \in Seq(Tx) /\ client'.spent \subseteq Tx
    <3>1. PICK notes : notes = Recovered(new, swaps, deposits)
      OBVIOUS
    <3>2. notes \in Seq(Tx)
      BY <2>6, <3>1, OnlyType DEF Recovered
    <3>3. client.owned \in Seq(Tx) /\ client.spent \subseteq Tx
      BY <1>1 DEF AccountTyped
    <3>4. client.owned \o notes \in Seq(Tx)
      BY <3>2, <3>3, JoinIs
    <3>5. Spent(nullifiers) \subseteq Tx
      BY DEF Spent
    <3> QED BY <2>4, <3>1, <3>3, <3>4, <3>5
  <2>9. client'.cursor \in Null .. Len(chain)
    <3>1. \A t \in Range(L) \cup Range(swaps) \cup Range(nullifiers) \cup Range(deposits) : BlockOf(t) \in 1 .. Len(chain)
      BY <1>1, AnswerIs
    <3>2. \A t \in seen : BlockOf(t) \in 1 .. Len(chain)
      BY <1>8, <3>1
    <3>3. chain \in Seq(Seq(Tx)) /\ client.cursor \in Null .. Len(chain)
      BY <1>1 DEF ChainTyped, AccountTyped
    <3> QED BY <1>3, <2>4, <3>2, <3>3, CursorTyped
  <2>10. client'.torn \in BOOLEAN
    <3>1. client.torn \in BOOLEAN
      BY <1>1 DEF AccountTyped
    <3>2. torn \in BOOLEAN
      BY <1>9, <3>1 DEF Torn
    <3> QED BY <2>4, <3>2
  <2>11. ScanGrows(c, last)
    <3>1. ~Gap(NewLeaves(Seen(c, last))) /\ client'.tree = Grown(call[c].from, last)
      BY <1>3, <1>4, <1>6, <1>12, <2>4, <2>7
    <3>2. call'[c] = Idle \/ (~call[c].rescan /\ call'[c] = [call[c] EXCEPT !.at = "guard", !.root = client'.tree])
      BY <2>4, <2>5
    <3> QED BY <2>2, <2>8, <2>9, <2>10, <3>1, <3>2 DEF ScanGrows
  <2>12. ASSUME ~client'.torn PROVE ScanWhole(c, last)
    <3>1. ~Torn(c, L, swaps, nullifiers, deposits)
      BY <1>9, <2>4, <2>12
    <3>2. ~client.torn /\ swaps = L /\ nullifiers = L /\ deposits = L /\ ~(call[c].from > From) /\ IsPrefix(client.tree, All)
      BY <3>1 DEF Torn, All
    <3>3. Recovered(new, L, L) = Only(new, Own)
      <4>1. Range(new) \cap (Own \ (Swap \ (Range(L) \cap Range(L)))) = Range(new) \cap Own
        BY <2>6
      <4> QED BY <2>6, <4>1, OnlySame DEF Recovered
    <3>4. seen = Range(L)
      BY <1>8, <3>2
    <3> QED BY <1>3, <1>4, <1>6, <2>4, <3>2, <3>3, <3>4 DEF ScanWhole
  <2> QED BY <1>1, <1>3, <1>4, <2>3, <2>4, <2>11, <2>12
<1> QED BY <1>11, <1>12

-----------------------------------------------------------------------------
(* The empty tree is a prefix of every one's.                              *)
LEMMA EmptyPrefix == ASSUME NEW s \in Seq(Tx) PROVE IsPrefix(<< >>, s)
BY PrefixEmpty

(* The types hold at the start.                                            *)
LEMMA TypedStarts == ASSUME ClientInit PROVE Typed
<1>1. /\ scenario \in Scenario /\ chain = << >> /\ reorgs = 0 /\ client = Fresh /\ cache = Fresh
      /\ call = [c \in Call |-> Idle] /\ settled = TRUE
  BY DEF ClientInit
<1>2. All = << >> /\ << >> \in Seq(Tx) /\ << >> \in Seq(Seq(Tx))
  BY <1>1, FlattenNone DEF All, Leaves
<1>3. ChainTyped
  BY <1>1, <1>2 DEF ChainTyped, IsInjective
<1>4. \A c \in Call : CallTyped(call[c]) /\ call[c].at = "idle"
  BY <1>1, <1>3, IdleTyped, IdleIs
<1>5. AccountTyped(client) /\ AccountTyped(cache)
  <2>1. Len(chain) = 0
    BY <1>1
  <2>2. AccountTyped(Fresh)
    <3>1. Fresh.cursor \in Null .. Len(chain) /\ Fresh.tree \in Seq(Tx) /\ Fresh.owned \in Seq(Tx)
      BY <1>2, <2>1, FreshIs DEF Null
    <3>2. Fresh.torn \in BOOLEAN /\ Fresh.spent \subseteq Tx
      BY FreshIs
    <3> QED BY <3>1, <3>2, FreshIs DEF AccountTyped
  <2> QED BY <1>1, <2>2
<1>6. IsPrefix(client.tree, All) /\ IsPrefix(cache.tree, All)
  <2>1. client.tree = << >> /\ cache.tree = << >>
    BY <1>1, FreshIs
  <2> QED BY <1>2, <2>1, EmptyPrefix
<1>7. scenario.reorgs \in Nat
  BY <1>1, BoundsAssumption
<1> QED BY <1>1, <1>3, <1>4, <1>5, <1>6, <1>7 DEF Typed

(* One call moves, and keeps its type: they all do.                        *)
LEMMA TypedCalls ==
  ASSUME Typed, UNCHANGED <<scenario, chain>>, NEW c \in Call,
         DOMAIN call' = Call, \A d \in Call : d # c => call'[d] = call[d],
         CallTyped(call[c])', call'[c].at # "idle" => c \in scenario.calls
  PROVE  \A d \in Call : CallTyped(call[d])' /\ (call'[d].at # "idle" => d \in scenario'.calls)
<1>1. TAKE d \in Call
<1>2. CASE d = c
  BY <1>2
<1>3. CASE d # c
  BY <1>3 DEF Typed, CallTyped
<1> QED BY <1>2, <1>3

(* A step of a call that touches nothing but the call.                     *)
LEMMA TypedLocal ==
  ASSUME Typed, UNCHANGED <<scenario, chain, reorgs, client, cache, settled>>, NEW c \in Call, NEW local,
         Resume(c, local), CallTyped(local), local.at # "idle" => c \in scenario.calls
  PROVE  Typed'
<1>1. DOMAIN call' = Call /\ call'[c] = local /\ \A d \in Call : d # c => call'[d] = call[d]
  BY Resumed DEF Typed
<1>2. CallTyped(call[c])'
  BY <1>1 DEF CallTyped
<1>3. \A d \in Call : CallTyped(call[d])' /\ (call'[d].at # "idle" => d \in scenario'.calls)
  BY <1>1, <1>2, TypedCalls
<1> QED BY <1>1, <1>3 DEF Typed, ChainTyped, AccountTyped, All

(* A call of sync begins with types kept.                                  *)
LEMMA TypedBegin == ASSUME Typed, NEW c \in Call, Begin(c) PROVE Typed'
<1>1. PICK local : local = [Idle EXCEPT !.at = "head", !.from = From]
  OBVIOUS
<1>2. Resume(c, local) /\ c \in scenario.calls /\ UNCHANGED <<scenario, chain, reorgs, client, cache, settled>>
  BY <1>1 DEF Begin
<1>3. From \in Nat \ {0}
  BY DEF From, Typed, ChainTyped, AccountTyped, Null
<1>4. ChainTyped /\ CallTyped(Idle)
  BY IdleTyped DEF Typed
<1>5. CallTyped(local)
  BY <1>1, <1>3, <1>4 DEF CallTyped
<1> QED BY <1>2, <1>5, TypedLocal

(* A call that throws keeps the types.                                     *)
LEMMA TypedFail == ASSUME Typed, NEW c \in Call, Fail(c) PROVE Typed'
<1>1. ChainTyped /\ CallTyped(Idle) /\ Idle.at = "idle"
  BY IdleTyped, IdleIs DEF Typed
<1>2. Resume(c, Idle) /\ UNCHANGED <<scenario, chain, reorgs, client, cache, settled>>
  BY DEF Fail
<1> QED BY <1>1, <1>2, TypedLocal

(* So does the answer to getBlockNumber: a scan never starts past the      *)
(* head.                                                                   *)
LEMMA TypedGetHead == ASSUME Typed, NEW c \in Call, GetHead(c) PROVE Typed'
<1>1. PICK head \in Height : Resume(c, IF call[c].from > head THEN Idle ELSE [call[c] EXCEPT !.at = "logs", !.head = head])
  BY DEF GetHead
<1>2. PICK local : local = IF call[c].from > head THEN Idle ELSE [call[c] EXCEPT !.at = "logs", !.head = head]
  OBVIOUS
<1>3. /\ ChainTyped /\ CallTyped(Idle) /\ Idle.at = "idle" /\ CallTyped(call[c]) /\ c \in scenario.calls
      /\ UNCHANGED <<scenario, chain, reorgs, client, cache, settled>>
  BY IdleTyped, IdleIs DEF Typed, GetHead
<1>4. Resume(c, local)
  BY <1>1, <1>2
<1>5. CallTyped(local)
  <2>1. CASE call[c].from > head
    BY <1>2, <1>3, <2>1
  <2>2. CASE ~(call[c].from > head)
    <3>1. head \in 0 .. Len(chain) /\ head \in Nat /\ call[c].from \in Nat
      BY <1>3 DEF CallTyped, Height
    <3>2. call[c].from <= head /\ call[c].from # 0
      BY <1>3, <2>2, <3>1 DEF CallTyped, GetHead
    <3>3. local = [call[c] EXCEPT !.at = "logs", !.head = head]
      BY <1>2, <2>2
    <3> QED BY <1>3, <3>1, <3>2, <3>3 DEF CallTyped
  <2> QED BY <2>1, <2>2
<1> QED BY <1>3, <1>4, <1>5, TypedLocal

(* So does a scan, whose cursor stays within the chain.                    *)
LEMMA TypedScan == ASSUME Typed, NEW c \in Call, Scan(c) PROVE Typed'
<1>1. PICK last \in Nat :
        /\ last <= Len(chain) /\ call[c].at = "logs" /\ call[c].from \in Nat \ {0}
        /\ UNCHANGED <<scenario, chain, reorgs, cache>>
        /\ DOMAIN client' = {"tree", "owned", "spent", "assoc", "cursor", "torn"}
        /\ DOMAIN call' = Call /\ \A d \in Call : d # c => call'[d] = call[d]
        /\ ScanStops(c, last) \/ ScanGrows(c, last)
  BY ScanDoes
<1>2. /\ ChainTyped /\ CallTyped(Idle) /\ Idle.at = "idle" /\ CallTyped(call[c]) /\ c \in scenario.calls
      /\ chain \in Seq(Seq(Tx)) /\ IsInjective(All) /\ AccountTyped(client) /\ Len(chain) \in Nat /\ settled \in BOOLEAN
  BY <1>1, IdleTyped, IdleIs DEF Typed, ChainTyped
<1>3. /\ client'.tree \in Seq(Tx) /\ client'.owned \in Seq(Tx) /\ client'.spent \subseteq Tx
      /\ client'.cursor \in Null .. Len(chain) /\ client'.torn \in BOOLEAN
      /\ CallTyped(call'[c]) /\ settled' \in BOOLEAN
      /\ settled => settled'
      /\ IsPrefix(client.tree, All) => IsPrefix(client'.tree, All)
  <2>1. CASE ScanStops(c, last)
    BY <1>2, <2>1 DEF ScanStops, AccountTyped
  <2>2. CASE ScanGrows(c, last)
    <3>1. PICK first \in Nat \ {0} : first = call[c].from /\ first <= Len(chain)
      <4>1. call[c].from <= call[c].head /\ call[c].head \in 0 .. Len(chain) /\ call[c].from \in Nat \ {0}
        BY <1>1, <1>2 DEF CallTyped
      <4>2. call[c].from <= Len(chain)
        BY <1>2, <4>1
      <4> QED BY <4>1, <4>2
    <3>2. PICK L : L = Blocks(first, last)
      OBVIOUS
    <3>3. /\ ~Gap(NewLeaves(L)) /\ client'.tree = Grown(first, last)
          /\ client'.owned \in Seq(Tx) /\ client'.spent \subseteq Tx /\ client'.cursor \in Null .. Len(chain)
          /\ client'.torn \in BOOLEAN
          /\ settled' = (settled \/ call[c].rescan)
          /\ \/ call'[c] = Idle
             \/ ~call[c].rescan /\ call'[c] = [call[c] EXCEPT !.at = "guard", !.root = client'.tree]
      BY <2>2, <3>1, <3>2 DEF ScanGrows, Seen
    <3>4. client.tree \in Seq(Tx)
      BY <1>2 DEF AccountTyped
    <3>5. /\ Grown(first, last) \in Seq(Tx)
          /\ IsPrefix(client.tree, All) => IsPrefix(Grown(first, last), All)
      BY <1>1, <1>2, <3>2, <3>3, <3>4, ScannedTree
    <3>6. CallTyped(call'[c])
      <4>1. CASE call'[c] = Idle
        BY <1>2, <4>1
      <4>2. CASE call'[c] = [call[c] EXCEPT !.at = "guard", !.root = client'.tree]
        BY <1>1, <1>2, <3>3, <3>5, <4>2 DEF CallTyped
      <4> QED BY <3>3, <4>1, <4>2
    <3> QED BY <1>2, <3>3, <3>5, <3>6
  <2> QED BY <1>1, <2>1, <2>2
<1>4. CallTyped(call[c])'
  BY <1>1, <1>3 DEF CallTyped
<1>5. \A d \in Call : CallTyped(call[d])' /\ (call'[d].at # "idle" => d \in scenario'.calls)
  BY <1>1, <1>2, <1>4, TypedCalls
<1>6. AccountTyped(client)' /\ AccountTyped(cache)'
  BY <1>1, <1>3 DEF Typed, AccountTyped
<1>7. ChainTyped' /\ All' = All
  BY <1>1, <1>2 DEF ChainTyped, All
<1>8. reorgs' = 0 => settled' /\ IsPrefix(client.tree, All)' /\ IsPrefix(cache.tree, All)'
  BY <1>1, <1>3, <1>7 DEF Typed
<1>9. scenario' \in Scenario /\ reorgs' \in Nat /\ reorgs' <= scenario'.reorgs
  BY <1>1 DEF Typed
<1> QED BY <1>1, <1>3, <1>5, <1>6, <1>7, <1>8, <1>9 DEF Typed

(* So does the root check.                                                 *)
LEMMA TypedGuard == ASSUME Typed, NEW c \in Call, Guard(c) PROVE Typed'
<1>1. /\ ChainTyped /\ CallTyped(Idle) /\ Idle.at = "idle" /\ CallTyped(call[c]) /\ c \in scenario.calls
      /\ AccountTyped(client) /\ All \in Seq(Tx) /\ Len(chain) \in Nat /\ settled \in BOOLEAN /\ DOMAIN call = Call
  BY IdleTyped, IdleIs, FlattenType DEF Typed, Guard, ChainTyped, All, Leaves
<1>2. UNCHANGED <<scenario, chain, reorgs, cache>>
  BY DEF Guard
<1>3. PICK h \in Height :
        IF rootIsKnown(call[c].root, h)
        THEN /\ Resume(c, Idle)
             /\ settled' = (settled \/ call[c].root = client.tree)
             /\ UNCHANGED client
        ELSE /\ client' = Reset(client)
             /\ Resume(c, [Idle EXCEPT !.at = "head", !.from = 1, !.rescan = TRUE])
             /\ UNCHANGED settled
  BY DEF Guard
<1>4. /\ AccountTyped(client') /\ (settled => settled') /\ settled' \in BOOLEAN
      /\ client'.tree = client.tree \/ client'.tree = << >>
      /\ \E local : Resume(c, local) /\ CallTyped(local)
  <2>1. CASE rootIsKnown(call[c].root, h)
    BY <1>1, <1>3, <2>1
  <2>2. CASE ~rootIsKnown(call[c].root, h)
    <3>1. PICK local : local = [Idle EXCEPT !.at = "head", !.from = 1, !.rescan = TRUE]
      OBVIOUS
    <3>2. CallTyped(local)
      BY <1>1, <3>1 DEF CallTyped
    <3>3. client' = Reset(client) /\ Resume(c, local) /\ settled' = settled
      BY <1>3, <2>2, <3>1
    <3>4. AccountTyped(client') /\ client'.tree = << >>
      <4>1. PICK account : account = [Fresh EXCEPT !.assoc = client.assoc]
        OBVIOUS
      <4>2. /\ DOMAIN account = {"tree", "owned", "spent", "assoc", "cursor", "torn"}
            /\ account.tree = << >> /\ account.owned = << >> /\ account.spent = {} /\ account.cursor = -1
            /\ account.torn = FALSE
        BY <4>1, FreshIs
      <4>3. << >> \in Seq(Tx) /\ -1 \in Null .. Len(chain)
        BY <1>1 DEF Null
      <4>4. AccountTyped(account)
        BY <4>2, <4>3 DEF AccountTyped
      <4> QED BY <3>3, <4>1, <4>2, <4>4 DEF Reset
    <3> QED BY <1>1, <3>2, <3>3, <3>4
  <2> QED BY <2>1, <2>2
<1>5. PICK local : Resume(c, local) /\ CallTyped(local)
  BY <1>4
<1>6. DOMAIN call' = Call /\ call'[c] = local /\ \A d \in Call : d # c => call'[d] = call[d]
  BY <1>1, <1>5, Resumed
<1>7. CallTyped(call[c])'
  BY <1>2, <1>5, <1>6 DEF CallTyped
<1>8. \A d \in Call : CallTyped(call[d])' /\ (call'[d].at # "idle" => d \in scenario'.calls)
  BY <1>1, <1>2, <1>6, <1>7, TypedCalls
<1>9. ChainTyped' /\ All' = All
  BY <1>1, <1>2 DEF ChainTyped, All
<1>10. reorgs' = 0 => settled' /\ IsPrefix(client.tree, All)' /\ IsPrefix(cache.tree, All)'
  <2>1. SUFFICES ASSUME reorgs' = 0 PROVE settled' /\ IsPrefix(client'.tree, All) /\ IsPrefix(cache'.tree, All)
    BY <1>9
  <2>2. settled /\ IsPrefix(client.tree, All) /\ IsPrefix(cache.tree, All)
    BY <1>2, <2>1 DEF Typed
  <2>3. IsPrefix(<< >>, All)
    BY <1>1, EmptyPrefix
  <2>4. cache'.tree = cache.tree
    BY <1>2
  <2> QED BY <1>4, <2>2, <2>3, <2>4
<1>11. AccountTyped(client)' /\ AccountTyped(cache)'
  BY <1>2, <1>4 DEF Typed, AccountTyped
<1>12. scenario' \in Scenario /\ reorgs' \in Nat /\ reorgs' <= scenario'.reorgs
  BY <1>2 DEF Typed
<1> QED BY <1>4, <1>6, <1>8, <1>9, <1>10, <1>11, <1>12 DEF Typed

(* A chain as long or longer keeps the types of accounts and calls.        *)
LEMMA TypedChain ==
  ASSUME Typed, UNCHANGED <<client, cache, call, scenario>>, Len(chain) \in Nat, Len(chain') \in Nat, Len(chain) <= Len(chain')
  PROVE  /\ AccountTyped(client)' /\ AccountTyped(cache)' /\ DOMAIN call' = Call
         /\ \A c \in Call : CallTyped(call[c])' /\ (call'[c].at # "idle" => c \in scenario'.calls)
<1>1. AccountTyped(client) /\ AccountTyped(cache) /\ DOMAIN call' = Call /\ client' = client /\ cache' = cache
  BY DEF Typed
<1>2. \A x : x \in Null .. Len(chain) => x \in Null .. Len(chain')
  BY DEF Null
<1>3. \A x : x \in 0 .. Len(chain) => x \in 0 .. Len(chain')
  OBVIOUS
<1>4. AccountTyped(client)' /\ AccountTyped(cache)'
  BY <1>1, <1>2 DEF AccountTyped
<1>5. ASSUME NEW c \in Call PROVE CallTyped(call[c])' /\ (call'[c].at # "idle" => c \in scenario'.calls)
  <2>1. CallTyped(call[c]) /\ call'[c] = call[c] /\ (call'[c].at # "idle" => c \in scenario'.calls)
    BY DEF Typed
  <2> QED BY <1>3, <2>1 DEF CallTyped
<1> QED BY <1>1, <1>4, <1>5

(* So does a new block.                                                    *)
LEMMA TypedMine == ASSUME Typed, Mine PROVE Typed'
<1>1. UNCHANGED <<scenario, reorgs, client, cache, restarts, call, settled>> /\ ChainTyped /\ Len(chain) \in Nat
  BY DEF Mine, Typed, ChainTyped
<1>2. /\ chain' \in Seq(Seq(Tx)) /\ IsInjective(All') /\ Len(chain') = Len(chain) + 1
      /\ All \in Seq(Tx) /\ All' \in Seq(Tx) /\ IsPrefix(All, All')
  BY <1>1, Mines
<1>3. /\ AccountTyped(client)' /\ AccountTyped(cache)' /\ DOMAIN call' = Call
      /\ \A c \in Call : CallTyped(call[c])' /\ (call'[c].at # "idle" => c \in scenario'.calls)
  <2>1. Len(chain') \in Nat /\ Len(chain) <= Len(chain')
    BY <1>1, <1>2
  <2> QED BY <1>1, <2>1, TypedChain
<1>4. reorgs' = 0 => settled' /\ IsPrefix(client.tree, All)' /\ IsPrefix(cache.tree, All)'
  <2>1. SUFFICES ASSUME reorgs = 0 PROVE settled' /\ IsPrefix(client.tree, All') /\ IsPrefix(cache.tree, All')
    BY <1>1
  <2>2. settled /\ IsPrefix(client.tree, All) /\ IsPrefix(cache.tree, All) /\ client.tree \in Seq(Tx) /\ cache.tree \in Seq(Tx)
    BY <2>1 DEF Typed, AccountTyped
  <2>3. IsPrefix(client.tree, All') /\ IsPrefix(cache.tree, All')
    BY <1>2, <2>2, PrefixTrans
  <2> QED BY <1>1, <2>2, <2>3
<1>5. ChainTyped'
  BY <1>2 DEF ChainTyped
<1>6. scenario' \in Scenario /\ reorgs' \in Nat /\ reorgs' <= scenario'.reorgs /\ settled' \in BOOLEAN
  BY <1>1 DEF Typed
<1> QED BY <1>3, <1>4, <1>5, <1>6 DEF Typed

(* So does a reorganisation.                                               *)
LEMMA TypedReorg == ASSUME Typed, Reorg PROVE Typed'
<1>1. UNCHANGED <<scenario, client, cache, restarts, call>> /\ ChainTyped /\ Len(chain) \in Nat
      /\ reorgs < scenario.reorgs /\ reorgs' = reorgs + 1 /\ settled' = FALSE /\ reorgs \in Nat /\ scenario.reorgs \in Nat
  <2>1. scenario.reorgs \in Nat
    BY BoundsAssumption DEF Typed
  <2>2. /\ UNCHANGED <<scenario, client, cache, restarts, call>> /\ reorgs < scenario.reorgs
        /\ reorgs' = reorgs + 1 /\ settled' = FALSE
    BY DEF Reorg
  <2>3. ChainTyped /\ Len(chain) \in Nat /\ reorgs \in Nat
    BY DEF Typed, ChainTyped
  <2> QED BY <2>1, <2>2, <2>3
<1>2. chain' \in Seq(Seq(Tx)) /\ IsInjective(All') /\ Len(chain') = Len(chain)
  BY <1>1, Reorganises
<1>3. /\ AccountTyped(client)' /\ AccountTyped(cache)' /\ DOMAIN call' = Call
      /\ \A c \in Call : CallTyped(call[c])' /\ (call'[c].at # "idle" => c \in scenario'.calls)
  <2>1. Len(chain') \in Nat /\ Len(chain) <= Len(chain')
    BY <1>1, <1>2
  <2> QED BY <1>1, <2>1, TypedChain
<1>4. ChainTyped'
  BY <1>2 DEF ChainTyped
<1>5. reorgs' # 0 /\ reorgs' \in Nat /\ reorgs' <= scenario'.reorgs
  BY <1>1
<1>6. scenario' \in Scenario /\ settled' \in BOOLEAN
  BY <1>1 DEF Typed
<1> QED BY <1>3, <1>4, <1>5, <1>6 DEF Typed

(* The fields of a snapshot.                                               *)
LEMMA SavedIs ==
  ASSUME AccountTyped(client), Len(chain) \in Nat
  PROVE  /\ AccountTyped(Saved(client)) /\ Saved(client).tree = client.tree
         /\ Saved(client).owned = client.owned /\ Saved(client).spent = client.spent
         /\ Saved(client).torn = client.torn
         /\ Saved(client).cursor = IF client.cursor = Null THEN 0 ELSE client.cursor
BY DEF AccountTyped, Saved, Null

(* A snapshot keeps the types.                                             *)
LEMMA TypedSnapshot == ASSUME Typed, Snapshot PROVE Typed'
<1>1. /\ UNCHANGED <<scenario, chain, reorgs, client, restarts, call, settled>> /\ cache' = Saved(client)
      /\ ChainTyped /\ Len(chain) \in Nat /\ AccountTyped(client)
  BY DEF Snapshot, Typed, ChainTyped
<1>2. AccountTyped(cache') /\ cache'.tree = client.tree
  BY <1>1, SavedIs
<1>3. AccountTyped(cache)' /\ AccountTyped(client)'
  BY <1>1, <1>2 DEF AccountTyped
<1>4. All' = All /\ ChainTyped'
  BY <1>1 DEF All, ChainTyped
<1>5. reorgs' = 0 => settled' /\ IsPrefix(client.tree, All)' /\ IsPrefix(cache.tree, All)'
  BY <1>1, <1>2, <1>4 DEF Typed
<1>6. DOMAIN call' = Call /\ \A c \in Call : CallTyped(call[c])' /\ (call'[c].at # "idle" => c \in scenario'.calls)
  BY <1>1 DEF Typed, CallTyped
<1> QED BY <1>1, <1>3, <1>4, <1>5, <1>6 DEF Typed

(* A restart keeps the types.                                              *)
LEMMA TypedRestart == ASSUME Typed, Restart PROVE Typed'
<1>1. /\ UNCHANGED <<scenario, chain, reorgs, cache>> /\ client' = cache /\ call' = [c \in Call |-> Idle]
      /\ settled' = (reorgs = 0) /\ ChainTyped /\ Len(chain) \in Nat /\ AccountTyped(cache)
  BY DEF Restart, Typed, ChainTyped
<1>2. AccountTyped(cache)' /\ AccountTyped(client)'
  BY <1>1 DEF AccountTyped
<1>3. All' = All /\ ChainTyped'
  BY <1>1 DEF All, ChainTyped
<1>4. reorgs' = 0 => settled' /\ IsPrefix(client.tree, All)' /\ IsPrefix(cache.tree, All)'
  BY <1>1, <1>3 DEF Typed
<1>5. CallTyped(Idle) /\ Idle.at = "idle"
  BY <1>1, IdleTyped, IdleIs
<1>6. ASSUME NEW c \in Call PROVE CallTyped(call[c])' /\ call'[c].at = "idle"
  BY <1>1, <1>5 DEF CallTyped
<1> QED BY <1>1, <1>2, <1>3, <1>4, <1>6 DEF Typed

(* Every step keeps the types.                                             *)
LEMMA TypedSteps == ASSUME Typed, [ClientNext]_clientVars PROVE Typed'
<1>1. CASE Mine
  BY <1>1, TypedMine
<1>2. CASE Reorg
  BY <1>2, TypedReorg
<1>3. CASE Snapshot
  BY <1>3, TypedSnapshot
<1>4. CASE Restart
  BY <1>4, TypedRestart
<1>5. ASSUME NEW c \in Call, Begin(c) \/ GetHead(c) \/ Scan(c) \/ Guard(c) \/ Fail(c) PROVE Typed'
  BY <1>5, TypedBegin, TypedGetHead, TypedScan, TypedGuard, TypedFail
<1>6. CASE NodesCatchUp \/ UNCHANGED clientVars
  <2>1. UNCHANGED <<scenario, chain, reorgs, client, cache, call, settled>>
    BY <1>6 DEF NodesCatchUp, clientVars
  <2> QED BY <2>1 DEF Typed, ChainTyped, AccountTyped, CallTyped, All
<1> QED BY <1>1, <1>2, <1>3, <1>4, <1>5, <1>6 DEF ClientNext

-----------------------------------------------------------------------------
(* The account follows the tree, unless there is a torn scan in it.        *)
Follows(s) == ~s.torn => s.owned = Only(s.tree, Own) /\ s.spent = Spent(s.tree)
AccountInv ==
  /\ Follows(client) /\ Follows(cache)
  /\ ~client.torn /\ settled => IsPrefix(client.tree, All)

(* An account with nothing in it follows its tree.                         *)
LEMMA FollowsNothing ==
  ASSUME NEW s, s.tree = << >>, s.owned = << >>, s.spent = {}
  PROVE  Follows(s)
<1>1. Spent(<< >>) = {}
  <2>1. Range(<< >>) = {}
    BY DEF Range
  <2> QED BY <2>1 DEF Spent
<1> QED BY <1>1, OnlyNone DEF Follows

(* The account follows the tree at the start.                              *)
LEMMA AccountStarts == ASSUME ClientInit PROVE AccountInv
<1>1. client = Fresh /\ cache = Fresh /\ chain = << >>
  BY DEF ClientInit
<1>2. Follows(Fresh) /\ Fresh.tree = << >>
  BY FreshIs, FollowsNothing
<1>3. IsPrefix(client.tree, All)
  <2>1. << >> \in Seq(Tx) /\ All = << >>
    BY <1>1, FlattenNone DEF All, Leaves
  <2> QED BY <1>1, <1>2, <2>1, EmptyPrefix
<1> QED BY <1>1, <1>2, <1>3 DEF AccountInv

(* A new block leaves a tree that is on the chain there.                   *)
LEMMA AccountMine == ASSUME Typed, AccountInv, Mine PROVE AccountInv'
<1>1. /\ UNCHANGED <<client, cache, settled>> /\ ChainTyped /\ client.tree \in Seq(Tx)
  BY DEF Mine, Typed, AccountTyped
<1>2. All \in Seq(Tx) /\ All' \in Seq(Tx) /\ IsPrefix(All, All')
  BY <1>1, Mines
<1>3. Follows(client)' /\ Follows(cache)'
  BY <1>1 DEF AccountInv, Follows
<1>4. ASSUME ~client.torn, settled PROVE IsPrefix(client.tree, All')
  <2>1. IsPrefix(client.tree, All)
    BY <1>4 DEF AccountInv
  <2> QED BY <1>1, <1>2, <2>1, PrefixTrans
<1> QED BY <1>1, <1>3, <1>4 DEF AccountInv

(* A reorganisation unsettles the tree and leaves the account as it is.    *)
LEMMA AccountReorg == ASSUME AccountInv, Reorg PROVE AccountInv'
<1>1. UNCHANGED <<client, cache>> /\ ~settled'
  BY DEF Reorg
<1> QED BY <1>1 DEF AccountInv, Follows

(* The account and the settled flag do not move.                           *)
LEMMA AccountKept ==
  ASSUME AccountInv, UNCHANGED <<chain, client, cache, settled>>
  PROVE  AccountInv'
<1>1. All' = All
  BY DEF All
<1> QED BY <1>1 DEF AccountInv, Follows

(* The snapshot follows its tree as the account does.                      *)
LEMMA AccountSnapshot == ASSUME Typed, AccountInv, Snapshot PROVE AccountInv'
<1>1. /\ UNCHANGED <<chain, client, settled>> /\ cache' = Saved(client) /\ AccountTyped(client) /\ Len(chain) \in Nat
  BY DEF Snapshot, Typed, ChainTyped
<1>2. /\ cache'.tree = client.tree /\ cache'.owned = client.owned /\ cache'.spent = client.spent
      /\ cache'.torn = client.torn
  BY <1>1, SavedIs
<1>3. All' = All
  BY <1>1 DEF All
<1> QED BY <1>1, <1>2, <1>3 DEF AccountInv, Follows

(* A restart takes the account back to a snapshot that follows its tree.   *)
LEMMA AccountRestart == ASSUME Typed, AccountInv, Restart PROVE AccountInv'
<1>1. UNCHANGED <<chain, reorgs, cache>> /\ client' = cache /\ settled' = (reorgs = 0)
  BY DEF Restart
<1>2. All' = All
  BY <1>1 DEF All
<1>3. settled' => IsPrefix(client'.tree, All')
  BY <1>1, <1>2 DEF Typed
<1>4. Follows(client)' /\ Follows(cache)'
  BY <1>1 DEF AccountInv, Follows
<1> QED BY <1>3, <1>4 DEF AccountInv

(* A scan that is not torn adds to the account what it adds to the tree,   *)
(* which stays on the chain.                                               *)
LEMMA AccountScan == ASSUME Typed, AccountInv, NEW c \in Call, Scan(c) PROVE AccountInv'
<1>1. PICK last \in Nat :
        /\ last <= Len(chain) /\ call[c].from \in Nat \ {0}
        /\ UNCHANGED <<scenario, chain, reorgs, cache>>
        /\ \/ ScanStops(c, last)
           \/ ScanGrows(c, last) /\ (client'.torn \/ ScanWhole(c, last))
  BY ScanDoes
<1>2. chain \in Seq(Seq(Tx)) /\ IsInjective(All) /\ client.tree \in Seq(Tx) /\ All' = All
  BY <1>1 DEF Typed, ChainTyped, AccountTyped, All
<1>3. Follows(cache)'
  BY <1>1 DEF AccountInv, Follows
<1>4. CASE ScanStops(c, last)
  <2>1. /\ client'.tree = client.tree /\ client'.owned = client.owned /\ client'.spent = client.spent
        /\ client'.torn = client.torn /\ settled' = settled
    BY <1>4 DEF ScanStops
  <2> QED BY <1>2, <1>3, <2>1 DEF AccountInv, Follows
<1>5. CASE client'.torn
  BY <1>3, <1>5 DEF AccountInv, Follows
<1>6. CASE ScanGrows(c, last) /\ ScanWhole(c, last)
  <2>1. PICK first \in Nat \ {0} : first = call[c].from
    BY <1>1
  <2>2. PICK L : L = Blocks(first, last)
    OBVIOUS
  <2>3. PICK new : new = NewLeaves(L)
    OBVIOUS
  <2>4. /\ ~Gap(NewLeaves(L)) /\ client'.tree = Grown(first, last) /\ client'.spent = client.spent \cup Spent(L)
        /\ client'.owned = client.owned \o Only(new, Own)
        /\ ~client.torn /\ IsPrefix(client.tree, All)
    BY <1>6, <2>1, <2>2, <2>3 DEF ScanGrows, ScanWhole, Seen
  <2>5. /\ new \in Seq(Tx)
        /\ Spent(client.tree) \cup Spent(L) = Spent(Grown(first, last))
        /\ IsPrefix(Grown(first, last), All)
    <3>1. Compatible(client.tree, All)
      BY <2>4 DEF Compatible
    <3> QED BY <1>1, <1>2, <2>2, <2>3, <2>4, <3>1, ScannedTree
  <2>6. client.owned = Only(client.tree, Own) /\ client.spent = Spent(client.tree)
    BY <2>4 DEF AccountInv, Follows
  <2>7. client'.owned = Only(client'.tree, Own)
    <3>1. PICK tree \in Seq(Tx) : tree = client.tree
      BY <1>2
    <3>2. Only(tree \o new, Own) = Only(tree, Own) \o Only(new, Own)
      BY <2>5, OnlyConcat
    <3>3. client'.tree = tree \o new
      BY <2>2, <2>3, <2>4, <3>1 DEF Grown
    <3> QED BY <2>4, <2>6, <3>1, <3>2, <3>3
  <2>8. client'.spent = Spent(client'.tree)
    BY <2>4, <2>5, <2>6
  <2>9. Follows(client)'
    BY <2>7, <2>8 DEF Follows
  <2>10. IsPrefix(client'.tree, All')
    BY <1>2, <2>4, <2>5
  <2> QED BY <1>3, <2>9, <2>10 DEF AccountInv
<1> QED BY <1>1, <1>4, <1>5, <1>6

(* The root check finds the tree on the chain's history, or empties the    *)
(* account.                                                                *)
LEMMA AccountGuard == ASSUME Typed, AccountInv, NEW c \in Call, Guard(c) PROVE AccountInv'
<1>1. /\ UNCHANGED <<chain, cache>> /\ chain \in Seq(Seq(Tx)) /\ client.tree \in Seq(Tx) /\ Len(chain) \in Nat
  BY DEF Guard, Typed, ChainTyped, AccountTyped
<1>2. PICK h \in Height :
        IF rootIsKnown(call[c].root, h)
        THEN settled' = (settled \/ call[c].root = client.tree) /\ UNCHANGED client
        ELSE client' = Reset(client) /\ UNCHANGED settled
  BY DEF Guard
<1>3. All' = All /\ Follows(cache)' /\ All \in Seq(Tx)
  BY <1>1, FlattenType DEF AccountInv, Follows, All, Leaves
<1>4. CASE rootIsKnown(call[c].root, h)
  <2>1. settled' = (settled \/ call[c].root = client.tree) /\ client' = client
    BY <1>2, <1>4
  <2>2. Follows(client)'
    BY <2>1 DEF AccountInv, Follows
  <2>3. ASSUME call[c].root = client.tree PROVE IsPrefix(client.tree, All)
    <3>1. IsPrefix(client.tree, Blocks(1, h))
      BY <1>4, <2>3 DEF rootIsKnown, Blocks
    <3>2. h \in Nat /\ h <= Len(chain) /\ h <= h
      BY <1>1 DEF Height
    <3>3. Blocks(1, h) \in Seq(Tx) /\ IsPrefix(Blocks(1, h), All)
      BY <1>1, <3>2, BlocksAre
    <3> QED BY <1>1, <1>3, <3>1, <3>3, PrefixTrans
  <2>4. ~client'.torn /\ settled' => IsPrefix(client'.tree, All')
    BY <1>3, <2>1, <2>3 DEF AccountInv
  <2> QED BY <1>3, <2>2, <2>4 DEF AccountInv
<1>5. CASE ~rootIsKnown(call[c].root, h)
  <2>1. client' = Reset(client)
    BY <1>2, <1>5
  <2>2. client'.tree = << >> /\ client'.owned = << >> /\ client'.spent = {}
    BY <2>1, FreshIs DEF Reset
  <2>3. Follows(client')
    BY <2>2, FollowsNothing
  <2>4. Follows(client)'
    BY <2>3 DEF Follows
  <2>5. IsPrefix(client'.tree, All')
    BY <1>3, <2>2, EmptyPrefix
  <2> QED BY <1>3, <2>4, <2>5 DEF AccountInv
<1> QED BY <1>4, <1>5

(* Every step keeps the account on the tree.                               *)
LEMMA AccountSteps == ASSUME Typed, AccountInv, [ClientNext]_clientVars PROVE AccountInv'
<1>1. CASE Mine
  BY <1>1, AccountMine
<1>2. CASE Reorg
  BY <1>2, AccountReorg
<1>3. CASE Snapshot
  BY <1>3, AccountSnapshot
<1>4. CASE Restart
  BY <1>4, AccountRestart
<1>5. ASSUME NEW c \in Call, Scan(c) \/ Guard(c) PROVE AccountInv'
  BY <1>5, AccountScan, AccountGuard
<1>6. ASSUME NodesCatchUp \/ UNCHANGED clientVars \/ \E c \in Call : Begin(c) \/ GetHead(c) \/ Fail(c) PROVE AccountInv'
  <2>1. UNCHANGED <<chain, client, cache, settled>>
    BY <1>6 DEF NodesCatchUp, clientVars, Begin, GetHead, Fail
  <2> QED BY <2>1, AccountKept
<1> QED BY <1>1, <1>2, <1>3, <1>4, <1>5, <1>6 DEF ClientNext

(* The account is what the tree says in every reachable state (ClientSync: *)
(* settled, notes and spent), unless a torn scan is in it: for every       *)
(* number of blocks, transactions, overlapping calls of sync,              *)
(* reorganisations and restarts, however far each node trails the chain    *)
(* (pool.ts sync, load).                                                   *)
THEOREM AccountAlwaysFollows == ClientSpec => []AccountFollowsTree
<1>1. ClientInit => Typed /\ AccountInv
  BY TypedStarts, AccountStarts
<1>2. Typed /\ AccountInv /\ [ClientNext]_clientVars => (Typed /\ AccountInv)'
  BY TypedSteps, AccountSteps
<1>3. Typed /\ AccountInv => AccountFollowsTree
  BY DEF AccountInv, Follows, AccountFollowsTree, All
<1> QED BY <1>1, <1>2, <1>3, PTL DEF ClientSpec

-----------------------------------------------------------------------------
(* Until a reorganisation, the tree holds the blocks up to the cursor,     *)
(* unless a scan was torn.                                                 *)
Covered(s) == s.torn \/ IsPrefix(Blocks(1, s.cursor), s.tree)
SkipInv == reorgs = 0 => Covered(client) /\ Covered(cache)

(* There are no blocks up to a cursor that was not moved.                  *)
LEMMA NoBlocks == ASSUME NEW k \in {-1, 0} PROVE Blocks(1, k) = << >>
<1>1. SubSeq(chain, 1, k) = << >>
  OBVIOUS
<1> QED BY <1>1, FlattenNone DEF Blocks, Leaves

(* A cursor that was not moved has skipped nothing.                        *)
LEMMA CoveredNothing ==
  ASSUME NEW s, s.tree \in Seq(Tx), s.cursor \in {-1, 0}
  PROVE  Covered(s)
BY NoBlocks, EmptyPrefix DEF Covered

(* Nothing is skipped at the start.                                        *)
LEMMA SkipStarts == ASSUME ClientInit PROVE SkipInv
<1>1. client = Fresh /\ cache = Fresh
  BY DEF ClientInit
<1>2. << >> \in Seq(Tx)
  OBVIOUS
<1>3. Covered(Fresh)
  BY <1>2, FreshIs, CoveredNothing
<1> QED BY <1>1, <1>3 DEF SkipInv

(* A new block is after the cursor.                                        *)
LEMMA SkipMine == ASSUME Typed, SkipInv, Mine PROVE SkipInv'
<1>1. /\ UNCHANGED <<reorgs, client, cache>> /\ ChainTyped
      /\ AccountTyped(client) /\ AccountTyped(cache) /\ Len(chain) \in Nat
  BY DEF Mine, Typed, ChainTyped
<1>2. \A k \in Nat : k <= Len(chain) => Blocks(1, k)' = Blocks(1, k)
  BY <1>1, Mines
<1>3. SUFFICES ASSUME reorgs = 0 PROVE SkipInv'
  BY <1>1 DEF SkipInv
<1>4. ASSUME NEW k \in Null .. Len(chain) PROVE Blocks(1, k)' = Blocks(1, k)
  <2>1. CASE k = -1
    <3>1. SubSeq(chain, 1, k) = << >> /\ SubSeq(chain', 1, k) = << >>
      BY <2>1
    <3> QED BY <3>1 DEF Blocks
  <2>2. CASE k # -1
    <3>1. k \in Nat /\ k <= Len(chain)
      BY <1>1, <2>2 DEF Null
    <3> QED BY <1>2, <3>1
  <2> QED BY <2>1, <2>2
<1>5. Covered(client)' /\ Covered(cache)'
  <2>1. /\ Blocks(1, client.cursor)' = Blocks(1, client.cursor)
        /\ Blocks(1, cache.cursor)' = Blocks(1, cache.cursor)
    BY <1>1, <1>4 DEF AccountTyped, Blocks
  <2> QED BY <1>1, <1>3, <2>1 DEF SkipInv, Covered
<1> QED BY <1>5 DEF SkipInv

(* The chain, the account and the snapshot do not move.                    *)
LEMMA SkipKept == ASSUME SkipInv, UNCHANGED <<chain, reorgs, client, cache>> PROVE SkipInv'
BY DEF SkipInv, Covered, Blocks

(* A snapshot has the cursor of its tree.                                  *)
LEMMA SkipSnapshot == ASSUME Typed, SkipInv, Snapshot PROVE SkipInv'
<1>1. /\ UNCHANGED <<chain, reorgs, client>> /\ cache' = Saved(client) /\ Len(chain) \in Nat /\ AccountTyped(client)
  BY DEF Snapshot, Typed, ChainTyped
<1>2. SUFFICES ASSUME reorgs = 0 PROVE SkipInv'
  BY <1>1 DEF SkipInv
<1>3. Covered(client)' /\ Covered(client)
  BY <1>1, <1>2 DEF SkipInv, Covered, Blocks
<1>4. Covered(cache')
  <2>1. /\ cache'.tree = client.tree /\ client.tree \in Seq(Tx) /\ cache'.torn = client.torn
        /\ cache'.cursor = IF client.cursor = Null THEN 0 ELSE client.cursor
    BY <1>1, SavedIs DEF AccountTyped
  <2>2. CASE client.cursor = Null
    <3>1. cache'.cursor = 0 /\ cache'.tree \in Seq(Tx)
      BY <2>1, <2>2
    <3> QED BY <3>1, NoBlocks, EmptyPrefix DEF Covered
  <2>3. CASE client.cursor # Null
    BY <1>3, <2>1, <2>3 DEF Covered
  <2> QED BY <2>2, <2>3
<1>5. Covered(cache)'
  BY <1>1, <1>4 DEF Covered, Blocks
<1> QED BY <1>3, <1>5 DEF SkipInv

(* A restart takes the tree back with the cursor.                          *)
LEMMA SkipRestart == ASSUME SkipInv, Restart PROVE SkipInv'
<1>1. UNCHANGED <<chain, reorgs, cache>> /\ client' = cache
  BY DEF Restart
<1> QED BY <1>1 DEF SkipInv, Covered, Blocks

(* A scan that is not torn moves the cursor to a block whose leaves, and   *)
(* those before, it has seen: its own or those the tree held.              *)
LEMMA SkipScan == ASSUME Typed, SkipInv, NEW c \in Call, Scan(c) PROVE SkipInv'
<1>1. PICK last \in Nat :
        /\ last <= Len(chain) /\ call[c].from \in Nat \ {0}
        /\ UNCHANGED <<scenario, chain, reorgs, cache>>
        /\ \/ ScanStops(c, last)
           \/ ScanGrows(c, last) /\ (client'.torn \/ ScanWhole(c, last))
  BY ScanDoes
<1>2. SUFFICES ASSUME reorgs = 0 PROVE SkipInv'
  BY <1>1 DEF SkipInv
<1>3. /\ chain \in Seq(Seq(Tx)) /\ IsInjective(All) /\ client.tree \in Seq(Tx)
      /\ client.cursor \in Null .. Len(chain) /\ Len(chain) \in Nat
      /\ All \in Seq(Tx) /\ Compatible(client.tree, All) /\ IsPrefix(client.tree, All)
  BY <1>2, FlattenType DEF Typed, ChainTyped, AccountTyped, All, Leaves, Compatible
<1>4. Covered(cache)' /\ Covered(client)
  BY <1>1, <1>2 DEF SkipInv, Covered, Blocks
<1>5. SUFFICES Covered(client)'
  BY <1>4 DEF SkipInv
<1>6. CASE ScanStops(c, last)
  <2>1. client'.tree = client.tree /\ client'.cursor = client.cursor /\ client'.torn = client.torn
    BY <1>6 DEF ScanStops
  <2> QED BY <1>1, <1>4, <2>1 DEF Covered, Blocks
<1>7. CASE client'.torn
  BY <1>7 DEF Covered
<1>8. CASE ScanGrows(c, last) /\ ScanWhole(c, last)
  <2>1. PICK first \in Nat \ {0} : first = call[c].from
    BY <1>1
  <2>2. PICK L : L = Blocks(first, last)
    OBVIOUS
  <2>3. /\ ~Gap(NewLeaves(L)) /\ client'.tree = Grown(first, last) /\ client'.cursor = Cursor(first, Range(L))
        /\ ~client.torn /\ ~(first > From)
    BY <1>8, <2>1, <2>2 DEF ScanGrows, ScanWhole, Seen
  <2>4. /\ Grown(first, last) \in Seq(Tx) /\ IsPrefix(Grown(first, last), All) /\ IsPrefix(client.tree, Grown(first, last))
        /\ L # << >> => IsPrefix(Blocks(1, last), Grown(first, last))
    BY <1>1, <1>3, <2>2, <2>3, ScannedTree
  <2>5. PICK tree \in Seq(Tx) : tree = Grown(first, last)
    BY <2>4
  <2>6. PICK cursor : cursor = Cursor(first, Range(L))
    OBVIOUS
  <2>7. PICK before : before = IF client.cursor # Null THEN client.cursor ELSE first - 1
    OBVIOUS
  <2>8. cursor \in Nat /\ (cursor = before \/ (cursor \in 1 .. last /\ L # << >>))
    BY <1>1, <1>3, <2>2, <2>6, <2>7, CursorIs
  <2>9. IsPrefix(Blocks(1, cursor), tree)
    <3>1. CASE cursor = before /\ client.cursor # Null
      <4>1. IsPrefix(Blocks(1, cursor), client.tree)
        BY <1>4, <2>3, <2>7, <3>1 DEF Covered
      <4>2. cursor <= Len(chain) /\ cursor <= cursor
        BY <1>3, <2>7, <2>8, <3>1
      <4>3. Blocks(1, cursor) \in Seq(Tx)
        BY <1>3, <2>8, <4>2, BlocksAre
      <4> QED BY <1>3, <2>4, <2>5, <4>1, <4>3, PrefixTrans
    <3>2. CASE cursor = before /\ client.cursor = Null
      <4>1. first = 1
        BY <2>3, <3>2 DEF From
      <4>2. cursor = 0
        BY <2>7, <3>2, <4>1
      <4> QED BY <2>5, <4>2, NoBlocks, EmptyPrefix
    <3>3. CASE cursor \in 1 .. last /\ L # << >>
      <4>1. cursor <= last /\ IsPrefix(Blocks(1, last), tree)
        BY <2>4, <2>5, <3>3
      <4>2. Blocks(1, cursor) \in Seq(Tx) /\ Blocks(1, last) \in Seq(Tx) /\ IsPrefix(Blocks(1, cursor), Blocks(1, last))
        BY <1>1, <1>3, <2>8, <4>1, BlocksAre
      <4> QED BY <2>5, <4>1, <4>2, PrefixTrans
    <3> QED BY <2>8, <3>1, <3>2, <3>3
  <2> QED BY <1>1, <2>3, <2>5, <2>6, <2>9 DEF Covered, Blocks
<1> QED BY <1>1, <1>6, <1>7, <1>8

(* A reset drops the cursor with the tree.                                 *)
LEMMA SkipGuard == ASSUME SkipInv, NEW c \in Call, Guard(c) PROVE SkipInv'
<1>1. UNCHANGED <<chain, reorgs, cache>> /\ (client' = client \/ client' = Reset(client))
  BY DEF Guard
<1>2. CASE client' = client
  BY <1>1, <1>2, SkipKept
<1>3. CASE client' = Reset(client)
  <2>1. client'.tree = << >> /\ client'.cursor = -1 /\ << >> \in Seq(Tx)
    BY <1>3, FreshIs DEF Reset
  <2>2. Covered(client')
    BY <2>1, CoveredNothing
  <2> QED BY <1>1, <2>2 DEF SkipInv, Covered, Blocks
<1> QED BY <1>1, <1>2, <1>3

(* Every step keeps the tree up to the cursor complete.                    *)
LEMMA SkipSteps == ASSUME Typed, SkipInv, [ClientNext]_clientVars PROVE SkipInv'
<1>1. CASE Mine
  BY <1>1, SkipMine
<1>2. CASE Reorg
  <2>1. reorgs' # 0
    BY <1>2 DEF Reorg, Typed
  <2> QED BY <2>1 DEF SkipInv
<1>3. CASE Snapshot
  BY <1>3, SkipSnapshot
<1>4. CASE Restart
  BY <1>4, SkipRestart
<1>5. ASSUME NEW c \in Call, Scan(c) \/ Guard(c) PROVE SkipInv'
  BY <1>5, SkipScan, SkipGuard
<1>6. ASSUME NodesCatchUp \/ UNCHANGED clientVars \/ \E c \in Call : Begin(c) \/ GetHead(c) \/ Fail(c) PROVE SkipInv'
  <2>1. UNCHANGED <<chain, reorgs, client, cache>>
    BY <1>6 DEF NodesCatchUp, clientVars, Begin, GetHead, Fail
  <2> QED BY <2>1, SkipKept
<1> QED BY <1>1, <1>2, <1>3, <1>4, <1>5, <1>6 DEF ClientNext

(* Until a reorganisation the cursor never passes a block whose leaves the *)
(* tree lacks, unless a torn scan is in the cache (pool.ts:247-258): the   *)
(* four queries that met different heads, or a scan begun before another   *)
(* call dropped the cache, are the only ways to skip one. For every number *)
(* of blocks, overlapping calls and restarts and every lag of the nodes.   *)
THEOREM SkipsOnlyWhenTornCorrect == ClientSpec => []SkipsOnlyWhenTorn
<1>1. ClientInit => Typed /\ SkipInv
  BY TypedStarts, SkipStarts
<1>2. Typed /\ SkipInv /\ [ClientNext]_clientVars => (Typed /\ SkipInv)'
  BY TypedSteps, SkipSteps
<1>3. Typed /\ SkipInv => SkipsOnlyWhenTorn
  <2>1. SUFFICES ASSUME Typed, SkipInv, reorgs = 0, ~client.torn
                 PROVE  Range(Logs(1, client.cursor, Len(chain))) \subseteq Range(client.tree)
    BY DEF SkipsOnlyWhenTorn, NothingSkipped
  <2>2. client.cursor \in Null .. Len(chain) /\ client.tree \in Seq(Tx) /\ chain \in Seq(Seq(Tx)) /\ Len(chain) \in Nat
    BY <2>1 DEF Typed, AccountTyped, ChainTyped
  <2>3. Logs(1, client.cursor, Len(chain)) = Blocks(1, client.cursor)
    <3>1. (IF Len(chain) < client.cursor THEN Len(chain) ELSE client.cursor) = client.cursor
      BY <2>2 DEF Null
    <3> QED BY <3>1 DEF Logs, Blocks
  <2>4. IsPrefix(Blocks(1, client.cursor), client.tree)
    BY <2>1 DEF SkipInv, Covered
  <2>5. SubSeq(chain, 1, client.cursor) \in Seq(Seq(Tx))
    BY <2>2 DEF Null
  <2>6. Blocks(1, client.cursor) \in Seq(Tx)
    BY <2>5, FlattenType DEF Blocks, Leaves
  <2> QED BY <2>2, <2>3, <2>4, <2>6, RangePrefix
<1> QED BY <1>1, <1>2, <1>3, PTL DEF ClientSpec
=============================================================================
