------------------------------ MODULE Amm_proofs ------------------------------
(***************************************************************************)
(* Proofs about the AMM (SherwoodV2Pair, SherwoodV2Router, SwapContracts,  *)
(* Amm) and the trades of the app over it (PublicTrades), for every value  *)
(* of the constants that the modules' assumptions allow:                   *)
(*                                                                         *)
(*   PairsStayGood        shares add up, some are locked, reserves are     *)
(*                        covered: the inductive invariant                 *)
(*   ShareValueCorrect    no share of a pair loses value                   *)
(*   FeeOnTradingCorrect  the protocol's fee is on trading alone           *)
(*   QuotesCorrect        what the router quotes, a pair pays, and no more *)
(*   CallsCorrect         a call that succeeds has paid, received and left *)
(*                        behind what it should                            *)
(*   RootIsFloor          what Math.sqrt computes                          *)
(*                                                                         *)
(* The argument is by kinds of steps. Same(s, x), Quiet(s, x) and          *)
(* Moves(s, x) say, from the strongest to the weakest, what becomes of the *)
(* pairs from state s to state x. A transfer is Same, SwapLeads shows that *)
(* a swap is Quiet, MintLeads and BurnLeads that mint and burn are Moves.  *)
(* The three compose, so what the router and the swap contracts do, call   *)
(* by call, is Quiet or Moves, whatever the order of the calls and whoever *)
(* makes them.                                                             *)
(*                                                                         *)
(* For CallsCorrect the same walks are taken once more, following amounts: *)
(* each transfer is a leg <<asset, from, to, amount>>, and what an account *)
(* holds after some of them is what it held with its legs added up.        *)
(*                                                                         *)
(* The steps before those theorems are about the model's own operators:    *)
(* the integer square root of `mint` (a recursive function, so its         *)
(* existence has to be shown), transfers one after another, sums of shares *)
(* and products of reserves.                                               *)
(***************************************************************************)
EXTENDS PublicTrades, SumTheorems

-----------------------------------------------------------------------------
(* A descent through the positive numbers ends: the function that follows  *)
(* it exists.                                                              *)
Positive == Nat \ {0}
Follows(g, f, n) == \A z \in 1 .. n : f[z] = IF g[z] < z THEN f[g[z]] ELSE z

(* Two functions that follow the descent up to n agree there.              *)
LEMMA FollowsAgree ==
  ASSUME NEW g \in [Positive -> Positive], NEW n \in Nat, NEW e, NEW f, Follows(g, e, n), Follows(g, f, n)
  PROVE  \A z \in 1 .. n : e[z] = f[z]
<1> DEFINE T == { z \in Nat : z \in 1 .. n /\ e[z] # f[z] }
<1> SUFFICES ASSUME T # {} PROVE FALSE
  OBVIOUS
<1>1. PICK z \in T : \A m \in T : z <= m
  BY LeastNatural
<1>2. z \in 1 .. n /\ e[z] # f[z] /\ z \in Positive
  BY DEF Positive
<1>3. g[z] \in Nat /\ g[z] > 0
  BY <1>2 DEF Positive
<1>4. CASE g[z] < z
  <2>1. g[z] \in 1 .. n /\ g[z] \notin T
    BY <1>1, <1>2, <1>3, <1>4
  <2>2. e[g[z]] = f[g[z]]
    BY <1>3, <2>1
  <2> QED BY <1>2, <1>4, <2>2 DEF Follows
<1>5. CASE ~(g[z] < z)
  BY <1>2, <1>5 DEF Follows
<1> QED BY <1>4, <1>5

(* One exists for every n.                                                 *)
LEMMA FollowsExists ==
  ASSUME NEW g \in [Positive -> Positive], NEW n \in Nat
  PROVE  \E f \in [1 .. n -> Positive] : Follows(g, f, n)
<1> DEFINE N == { k \in Nat : \E f \in [1 .. k -> Positive] : Follows(g, f, k) }
<1>1. 0 \in N
  <2> DEFINE f == [z \in 1 .. 0 |-> 1]
  <2>1. f \in [1 .. 0 -> Positive]
    BY DEF Positive
  <2>2. Follows(g, f, 0)
    BY DEF Follows
  <2> HIDE DEF f
  <2> QED BY <2>1, <2>2
<1>2. ASSUME NEW k \in N PROVE k + 1 \in N
  <2>1. PICK f \in [1 .. k -> Positive] : Follows(g, f, k)
    OBVIOUS
  <2> DEFINE h == [z \in 1 .. k + 1 |-> IF z \in 1 .. k THEN f[z] ELSE IF g[z] < z THEN f[g[z]] ELSE z]
  <2>2. k \in Nat
    OBVIOUS
  <2>3. \A z \in 1 .. k + 1 : z \in Positive /\ g[z] \in Nat /\ g[z] > 0 /\ (g[z] < z => g[z] \in 1 .. k)
    <3> TAKE z \in 1 .. k + 1
    <3>1. z \in Positive
      BY <2>2 DEF Positive
    <3>2. g[z] \in Nat /\ g[z] > 0
      BY <3>1 DEF Positive
    <3> QED BY <2>2, <3>1, <3>2
  <2>4. \A z \in 1 .. k + 1 : h[z] \in Positive
    BY <2>1, <2>3
  <2>5. \A z \in 1 .. k : h[z] = f[z]
    BY <2>2
  <2>6. ASSUME NEW z \in 1 .. k + 1 PROVE h[z] = IF g[z] < z THEN h[g[z]] ELSE z
    <3>1. CASE z \in 1 .. k
      <4>1. h[z] = f[z] /\ f[z] = IF g[z] < z THEN f[g[z]] ELSE z
        BY <2>1, <2>5, <3>1 DEF Follows
      <4> QED BY <2>3, <2>5, <4>1
    <3>2. CASE z \notin 1 .. k
      <4>1. h[z] = IF g[z] < z THEN f[g[z]] ELSE z
        BY <3>2
      <4> QED BY <2>3, <2>5, <4>1
    <3> QED BY <3>1, <3>2
  <2>7. h \in [1 .. k + 1 -> Positive]
    BY <2>4
  <2> HIDE DEF h
  <2>8. Follows(g, h, k + 1)
    BY <2>6 DEF Follows
  <2> QED BY <2>2, <2>7, <2>8
<1>3. N = Nat
  <2> HIDE DEF N
  <2>1. N \subseteq Nat
    BY DEF N
  <2> QED BY <1>1, <1>2, <2>1, NaturalsBySteps
<1> QED BY <1>3

(* So the function of the whole descent exists, and its values are         *)
(* positive.                                                               *)
LEMMA DescentExists ==
  ASSUME NEW g \in [Positive -> Positive]
  PROVE  /\ \E f : f = [z \in Positive |-> IF g[z] < z THEN f[g[z]] ELSE z]
         /\ \A f : f = [z \in Positive |-> IF g[z] < z THEN f[g[z]] ELSE z] => f \in [Positive -> Positive]
<1> DEFINE e == [n \in Nat |-> CHOOSE f \in [1 .. n -> Positive] : Follows(g, f, n)]
           f == [z \in Positive |-> e[z][z]]
<1>1. \A n \in Nat : e[n] \in [1 .. n -> Positive] /\ Follows(g, e[n], n)
  BY FollowsExists
<1> HIDE DEF e
<1>2. ASSUME NEW m \in Nat, NEW n \in Nat, m <= n PROVE \A z \in 1 .. m : e[m][z] = e[n][z]
  <2>1. Follows(g, e[n], m)
    <3>1. \A z \in 1 .. m : z \in 1 .. n
      BY <1>2
    <3> QED BY <1>1, <3>1 DEF Follows
  <2> QED BY <1>1, <2>1, FollowsAgree
<1>3. ASSUME NEW z \in Positive PROVE f[z] = IF g[z] < z THEN f[g[z]] ELSE z
  <2>1. z \in Nat /\ z \in 1 .. z /\ g[z] \in Nat /\ g[z] > 0 /\ g[z] \in Positive
    BY DEF Positive
  <2>2. e[z][z] = IF g[z] < z THEN e[z][g[z]] ELSE z
    BY <1>1, <2>1 DEF Follows
  <2>3. CASE g[z] < z
    <3>1. g[z] <= z /\ g[z] \in 1 .. g[z]
      BY <2>1, <2>3
    <3>2. e[g[z]][g[z]] = e[z][g[z]]
      BY <1>2, <2>1, <3>1
    <3> QED BY <2>1, <2>2, <2>3, <3>2
  <2> QED BY <2>1, <2>2, <2>3
<1>4. f = [z \in Positive |-> IF g[z] < z THEN f[g[z]] ELSE z]
  <2> DEFINE h == [z \in Positive |-> IF g[z] < z THEN f[g[z]] ELSE z]
  <2>1. \A z \in Positive : h[z] = f[z]
    BY <1>3
  <2>2. DOMAIN f = Positive /\ f = [z \in Positive |-> f[z]]
    OBVIOUS
  <2> HIDE DEF f
  <2>3. h = [z \in Positive |-> f[z]]
    BY <2>1
  <2> QED BY <2>2, <2>3
<1>5. ASSUME NEW h, h = [z \in Positive |-> IF g[z] < z THEN h[g[z]] ELSE z] PROVE h \in [Positive -> Positive]
  <2> DEFINE T == { z \in Nat : z \in Positive /\ h[z] \notin Positive }
  <2>1. \A z \in Positive : h[z] = IF g[z] < z THEN h[g[z]] ELSE z
    BY <1>5
  <2>2. T = {}
    <3> SUFFICES ASSUME T # {} PROVE FALSE
      OBVIOUS
    <3>1. PICK z \in T : \A m \in T : z <= m
      BY LeastNatural
    <3>2. z \in Positive /\ h[z] \notin Positive /\ g[z] \in Positive /\ z \in Nat /\ g[z] \in Nat
      BY DEF Positive
    <3>3. g[z] < z => g[z] \notin T
      BY <3>1, <3>2
    <3> QED BY <2>1, <3>2, <3>3
  <2>3. \A z \in Positive : h[z] \in Positive
    BY <2>2 DEF Positive
  <2>4. h = [z \in Positive |-> h[z]]
    BY <1>5
  <2> QED BY <2>3, <2>4
<1> HIDE DEF f
<1> QED BY <1>4, <1>5

(* The bounds of an integer division.                                      *)
LEMMA DivisionBounds ==
  ASSUME NEW n \in Nat, NEW d \in Nat \ {0}
  PROVE  n \div d \in Nat /\ (n \div d) * d <= n /\ n < (n \div d + 1) * d
OBVIOUS

(* The descent that sqrt follows, and the estimate after z.                *)
Better(y, z) == (y \div z + z) \div 2
Descends(d, y) ==
  /\ d \in [Positive -> Positive]
  /\ \A z \in Positive : d[z] = IF Better(y, z) < z THEN d[Better(y, z)] ELSE z

(* An estimate is followed by one, and by one whose square is not much     *)
(* below y: the mean of two numbers is no less than the root of their      *)
(* product.                                                                *)
LEMMA BetterType ==
  ASSUME NEW y \in Nat, y > 3, NEW z \in Positive
  PROVE  Better(y, z) \in Positive
<1>1. z \in Nat /\ z > 0
  BY DEF Positive
<1>2. y \div z \in Nat
  BY <1>1
<1>3. y \div z + z >= 2
  <2>1. CASE z = 1
    BY <2>1
  <2> QED BY <1>1, <1>2, <2>1
<1> DEFINE q == y \div z
<1>4. q \in Nat /\ q + z >= 2
  BY <1>2, <1>3
<1> HIDE DEF q
<1>5. (q + z) \div 2 \in Nat /\ (q + z) \div 2 # 0
  BY <1>1, <1>4
<1> QED BY <1>5 DEF Positive, Better, q

LEMMA BetterIsAbove ==
  ASSUME NEW y \in Nat, NEW z \in Nat, z > 0
  PROVE  /\ y < (Better(y, z) + 1) * (Better(y, z) + 1)
         /\ Better(y, z) >= z => z * z <= y
<1> DEFINE q == y \div z  x == (q + z) \div 2
<1>1. q \in Nat /\ q * z <= y /\ y < (q + 1) * z
  BY DivisionBounds
<1>2. Better(y, z) = x
  BY DEF Better
<1> HIDE DEF q
<1>3. x \in Nat /\ 2 * x <= q + z /\ q + z + 1 <= 2 * (x + 1)
  BY <1>1
<1> HIDE DEF x
<1> DEFINE a == q + 1  b == q + z + 1  c == 2 * (x + 1)
<1>4. a \in Nat /\ b \in Nat /\ c \in Nat /\ b = a + z /\ b <= c
  BY <1>1, <1>3
<1>5. y < a * z /\ c * c = 4 * ((x + 1) * (x + 1)) /\ (x + 1) * (x + 1) \in Nat
  BY <1>1, <1>3
<1> HIDE DEF a, b, c
<1>6. b * b <= c * c
  <2>1. b * b <= b * c /\ b * c <= c * c
    BY <1>4
  <2> QED BY <1>4, <2>1
<1>7. 4 * (a * z) <= b * b
  <2>1. a - z \in Int /\ (a - z) * (a - z) >= 0
    BY <1>4
  <2>2. b * b = (a - z) * (a - z) + 4 * (a * z)
    BY <1>4
  <2> QED BY <1>4, <2>1, <2>2
<1>8. y < (x + 1) * (x + 1)
  <2> DEFINE m == a * z  n == (x + 1) * (x + 1)
  <2>1. m \in Nat /\ n \in Nat /\ 4 * m <= 4 * n /\ y < m
    BY <1>4, <1>5, <1>6, <1>7
  <2> HIDE DEF m, n
  <2>2. y < n
    BY <2>1
  <2> QED BY <2>2 DEF n
<1>9. ASSUME x >= z PROVE z * z <= y
  <2>1. z <= q
    BY <1>1, <1>3, <1>9
  <2>2. z * z <= q * z
    BY <1>1, <2>1
  <2> QED BY <1>1, <2>2
<1> QED BY <1>2, <1>8, <1>9

(* sqrt begins the descent above the root.                                 *)
LEMMA RootDescends ==
  ASSUME NEW y \in Nat, y > 3
  PROVE  \E d : Descends(d, y) /\ sqrt(y) = d[y \div 2 + 1]
<1> DEFINE g == [z \in Positive |-> Better(y, z)]
           f == CHOOSE h : h = [z \in Positive |-> IF g[z] < z THEN h[g[z]] ELSE z]
           d == CHOOSE h : h = [z \in Nat \ {0} |-> LET x == (y \div z + z) \div 2 IN IF x < z THEN h[x] ELSE z]
<1>1. g \in [Positive -> Positive]
  BY BetterType
<1>2. \A h : [z \in Positive |-> IF g[z] < z THEN h[g[z]] ELSE z]
           = [z \in Nat \ {0} |-> LET x == (y \div z + z) \div 2 IN IF x < z THEN h[x] ELSE z]
  BY DEF Positive, Better
<1>3. d = f
  BY <1>2
<1>4. f \in [Positive -> Positive] /\ f = [z \in Positive |-> IF g[z] < z THEN f[g[z]] ELSE z]
  <2> HIDE DEF g
  <2> QED BY <1>1, DescentExists
<1>5. sqrt(y) = d[y \div 2 + 1]
  BY DEF sqrt
<1> HIDE DEF f, d
<1>6. \A z \in Positive : f[z] = IF Better(y, z) < z THEN f[Better(y, z)] ELSE z
  BY <1>4
<1> QED BY <1>3, <1>4, <1>5, <1>6 DEF Descends

(* Roots are natural numbers, and that of 0 is 0.                          *)
LEMMA RootType ==
  ASSUME NEW y \in Nat
  PROVE  sqrt(y) \in Nat /\ (y = 0 => sqrt(y) = 0)
<1>1. CASE y > 3
  <2>1. y \div 2 + 1 \in Positive
    BY DEF Positive
  <2>2. PICK d : Descends(d, y) /\ sqrt(y) = d[y \div 2 + 1]
    BY <1>1, RootDescends
  <2>3. sqrt(y) \in Positive
    BY <2>1, <2>2 DEF Descends
  <2> QED BY <1>1, <2>3 DEF Positive
<1>2. CASE ~(y > 3)
  BY <1>2 DEF sqrt
<1> QED BY <1>1, <1>2

(* Math.sqrt (libraries/Math.sol) is the integer square root: the descent  *)
(* ends, and at the greatest number whose square is at most y. The first   *)
(* shares of a pair and the protocol's fee are counted with it.            *)
THEOREM RootIsFloor ==
  ASSUME NEW y \in Nat
  PROVE  sqrt(y) * sqrt(y) <= y /\ y < (sqrt(y) + 1) * (sqrt(y) + 1)
<1>1. CASE y > 3
  <2> DEFINE IsRoot(x) == x * x <= y /\ y < (x + 1) * (x + 1)
             start == y \div 2 + 1
  <2>1. PICK d : Descends(d, y) /\ sqrt(y) = d[start]
    BY <1>1, RootDescends
  <2> DEFINE T == { z \in Nat : z > 0 /\ y < (z + 1) * (z + 1) /\ ~IsRoot(d[z]) }
  <2>2. T = {}
    <3> SUFFICES ASSUME T # {} PROVE FALSE
      OBVIOUS
    <3>1. PICK z \in T : \A m \in T : z <= m
      BY LeastNatural
    <3>2. z \in Nat /\ z > 0 /\ y < (z + 1) * (z + 1) /\ ~IsRoot(d[z]) /\ z \in Positive
      BY DEF Positive
    <3> DEFINE x == Better(y, z)
    <3>3. x \in Nat /\ x > 0
      <4>1. x \in Positive
        BY <1>1, <3>2, BetterType
      <4> QED BY <4>1 DEF Positive
    <3>4. y < (x + 1) * (x + 1) /\ (x >= z => z * z <= y)
      BY <3>2, BetterIsAbove
    <3>5. d[z] = IF x < z THEN d[x] ELSE z
      BY <2>1, <3>2 DEF Descends
    <3> HIDE DEF x
    <3>6. CASE x < z
      <4>1. x \notin T
        BY <3>1, <3>2, <3>3, <3>6
      <4>2. IsRoot(d[x])
        BY <3>3, <3>4, <4>1
      <4> QED BY <3>2, <3>5, <3>6, <4>2
    <3>7. CASE ~(x < z)
      <4>1. d[z] = z /\ z * z <= y
        BY <3>2, <3>3, <3>4, <3>5, <3>7
      <4> QED BY <3>2, <4>1
    <3> QED BY <3>6, <3>7
  <2>3. start \in Nat /\ start > 0 /\ y < (start + 1) * (start + 1)
    <3> DEFINE h == y \div 2
    <3>1. h \in Nat /\ y <= 2 * h + 1
      OBVIOUS
    <3>2. start = h + 1
      OBVIOUS
    <3> HIDE DEF h, start
    <3>3. start * 2 <= (start + 1) * 2 /\ 2 * (start + 1) <= (start + 1) * (start + 1)
      BY <3>1, <3>2
    <3> QED BY <3>1, <3>2, <3>3
  <2>4. IsRoot(d[start])
    BY <2>2, <2>3
  <2> QED BY <2>1, <2>4
<1>2. CASE ~(y > 3)
  <2>1. y \in 0 .. 3
    BY <1>2
  <2>2. sqrt(y) = IF y # 0 THEN 1 ELSE 0
    BY <1>2 DEF sqrt
  <2> QED BY <2>1, <2>2
<1> QED BY <1>1, <1>2

-----------------------------------------------------------------------------
(* A pair has two tokens, and what is said of one and of the other is said *)
(* of both.                                                                *)
LEMMA PairIsTwo ==
  ASSUME NEW p \in Pair
  PROVE  \E a, b \in Token : a # b /\ p = {a, b}
<1>1. p \subseteq Token /\ Cardinality(p) = 2
  BY DEF Pair, kSubset
<1>2. IsFiniteSet(p)
  BY <1>1, PairAssumption, FS_Subset
<1>3. PICK a \in p : TRUE
  BY <1>1, FS_EmptySet
<1>4. IsFiniteSet(p \ {a}) /\ Cardinality(p \ {a}) = 1
  BY <1>1, <1>2, FS_RemoveElement
<1>5. PICK b \in p \ {a} : TRUE
  BY <1>4, FS_EmptySet
<1>6. IsFiniteSet((p \ {a}) \ {b}) /\ Cardinality((p \ {a}) \ {b}) = 0
  BY <1>4, FS_RemoveElement
<1>7. (p \ {a}) \ {b} = {}
  BY <1>6, FS_EmptySet
<1>8. p = {a, b} /\ a # b
  BY <1>3, <1>5, <1>7
<1> QED BY <1>1, <1>8

(* The other token of a pair.                                              *)
LEMMA OtherOf ==
  ASSUME NEW p \in Pair, NEW t \in p
  PROVE  Other(p, t) \in p /\ Other(p, t) # t /\ p = {t, Other(p, t)} /\ p \subseteq Token
<1>1. PICK a \in Token, b \in Token : a # b /\ p = {a, b}
  BY PairIsTwo
<1>2. \E u \in p : u # t
  BY <1>1
<1>3. Other(p, t) \in p /\ Other(p, t) # t
  BY <1>2 DEF Other
<1> QED BY <1>1, <1>3

(* The product over a pair, whichever token comes first.                   *)
LEMMA ProductOf ==
  ASSUME NEW p \in Pair, NEW f, DOMAIN f = p, \A t \in p : f[t] \in Int, NEW a \in p, NEW b \in p, a # b
  PROVE  Product(f) = f[a] * f[b] /\ Product(f) \in Int
<1> DEFINE t == CHOOSE u \in DOMAIN f : TRUE
<1>1. t \in p
  OBVIOUS
<1>2. Product(f) = f[t] * f[Other(p, t)]
  BY DEF Product
<1> HIDE DEF t
<1>3. Other(p, t) \in p /\ Other(p, t) # t /\ p = {t, Other(p, t)}
  BY <1>1, OtherOf
<1>4. (t = a /\ Other(p, t) = b) \/ (t = b /\ Other(p, t) = a)
  BY <1>1, <1>3
<1>5. f[a] \in Int /\ f[b] \in Int
  OBVIOUS
<1> HIDE DEF Product
<1>6. f[a] * f[b] = f[b] * f[a] /\ f[a] * f[b] \in Int
  BY <1>5
<1>7. CASE t = a /\ Other(p, t) = b
  BY <1>2, <1>6, <1>7
<1>8. CASE t = b /\ Other(p, t) = a
  BY <1>2, <1>6, <1>8
<1> QED BY <1>4, <1>7, <1>8

(* Products of natural numbers are ordered as they are.                    *)
LEMMA TimesMonotone ==
  ASSUME NEW a \in Nat, NEW b \in Nat, NEW c \in Nat, NEW d \in Nat, a <= c, b <= d
  PROVE  a * b <= c * d /\ a * b \in Nat /\ c * d \in Nat
<1>1. a * b <= c * b
  OBVIOUS
<1>2. c * b <= c * d
  OBVIOUS
<1> QED BY <1>1, <1>2

(* The product of a pair's two numbers is a natural number and grows with  *)
(* them.                                                                   *)
LEMMA ProductMonotone ==
  ASSUME NEW p \in Pair, NEW f, NEW g, DOMAIN f = p, DOMAIN g = p,
         \A t \in p : f[t] \in Nat /\ g[t] \in Nat /\ f[t] <= g[t]
  PROVE  Product(f) \in Nat /\ Product(g) \in Nat /\ Product(f) <= Product(g)
<1>1. PICK a \in Token, b \in Token : a # b /\ p = {a, b}
  BY PairIsTwo
<1>2. a \in p /\ b \in p
  BY <1>1
<1>3. Product(f) = f[a] * f[b] /\ Product(g) = g[a] * g[b]
  BY <1>1, <1>2, ProductOf
<1> QED BY <1>2, <1>3, TimesMonotone

(* A product is positive when both factors are.                            *)
LEMMA ProductPositive ==
  ASSUME NEW p \in Pair, NEW f, DOMAIN f = p, \A t \in p : f[t] \in Nat
  PROVE  Product(f) > 0 <=> \A t \in p : f[t] > 0
<1>1. PICK a \in Token, b \in Token : a # b /\ p = {a, b}
  BY PairIsTwo
<1>2. a \in p /\ b \in p /\ f[a] \in Nat /\ f[b] \in Nat
  BY <1>1
<1>3. Product(f) = f[a] * f[b]
  BY <1>1, <1>2, ProductOf
<1> DEFINE x == f[a]  y == f[b]
<1>4. x * y > 0 <=> x > 0 /\ y > 0
  <2>1. x \in Nat /\ y \in Nat
    BY <1>2
  <2> HIDE DEF x, y
  <2> QED BY <2>1
<1> QED BY <1>1, <1>2, <1>3, <1>4

-----------------------------------------------------------------------------
(* The states that calls go from and to. Good is what no call breaks: the  *)
(* shares of a pair add up and some are locked as soon as there are any,   *)
(* the growth is counted from no more than there is, and a pair holds what *)
(* it takes for its reserves.                                              *)
Record(p) == [reserve : [p -> Nat], kLast : Nat, totalSupply : Nat, balanceOf : [Holder -> Nat]]

IsState(s) ==
  /\ s = [wallet |-> s.wallet, pool |-> s.pool]
  /\ s.wallet \in [Asset -> [Holder -> Nat]]
  /\ s.pool = [p \in DOMAIN s.pool |-> s.pool[p]]
  /\ DOMAIN s.pool \subseteq Pair
  /\ \A p \in DOMAIN s.pool : s.pool[p] \in Record(p)

SharesOK(r) ==
  /\ SumFunctionOnSet(r.balanceOf, Holder) = r.totalSupply
  /\ r.kLast <= Product(r.reserve)
  /\ r.totalSupply > 0 => r.balanceOf[Zero] >= MINIMUM_LIQUIDITY /\ Product(r.reserve) > 0

Covered(s, p) == \A t \in p : s.pool[p].reserve[t] <= s.wallet[t][p]

Good(s) == IsState(s) /\ \A p \in DOMAIN s.pool : SharesOK(s.pool[p]) /\ Covered(s, p)

(* There are finitely many holders.                                        *)
LEMMA HoldersFinite == IsFiniteSet(Holder) /\ Zero \in Holder /\ Pair \subseteq Holder /\ Zero \notin Pair
<1>1. IsFiniteSet(SUBSET Token)
  BY PairAssumption, FS_SUBSET
<1>2. Pair \subseteq SUBSET Token
  BY DEF Pair, kSubset
<1>3. IsFiniteSet(Pair)
  BY <1>1, <1>2, FS_Subset
<1>4. IsFiniteSet(Account \cup Pair)
  BY <1>3, PairAssumption, FS_Union
<1>5. Zero \notin Pair
  BY PairAssumption DEF Pair
<1> QED BY <1>4, <1>5, PairAssumption DEF Holder

(* A transfer takes from the sender only, and leaves the pairs alone.      *)
LEMMA TransferOne ==
  ASSUME NEW s, IsState(s), NEW a \in Asset, NEW from \in Holder, NEW to \in Holder, NEW amount,
         NEW x \in Transfer(s, a, from, to, amount)
  PROVE  /\ IsState(x) /\ x.pool = s.pool /\ amount \in Nat /\ amount <= s.wallet[a][from]
         /\ \A b \in Asset, h \in Holder :
              x.wallet[b][h] >= s.wallet[b][h] - (IF b = a /\ h = from THEN amount ELSE 0)
<1> DEFINE w == s.wallet
           got == Received(a, amount)
           taken == [w EXCEPT ![a][from] = @ - amount]
           given == [taken EXCEPT ![a][to] = @ + got]
<1>1. w \in [Asset -> [Holder -> Nat]] /\ s = [wallet |-> w, pool |-> s.pool]
  BY DEF IsState
<1>2. amount \in 0 .. w[a][from]
      /\ x = [[s EXCEPT !.wallet[a][from] = @ - amount] EXCEPT !.wallet[a][to] = @ + got]
  BY DEF Transfer
<1>3. w[a][from] \in Nat
  BY <1>1
<1>4. amount \in Nat /\ amount <= w[a][from] /\ w[a][from] - amount \in Nat
  BY <1>2, <1>3
<1>5. got \in Nat
  BY <1>4 DEF Received
<1>6. x = [wallet |-> given, pool |-> s.pool]
  <2> HIDE DEF w, got
  <2> DEFINE q == s.pool
             y == [wallet |-> taken, pool |-> q]
  <2>1. s = [wallet |-> w, pool |-> q]
    BY <1>1
  <2> HIDE DEF q
  <2>2. s.wallet = w
    BY <2>1
  <2>3. [s EXCEPT !.wallet = taken] = y
    BY <2>1
  <2>4. [s EXCEPT !.wallet[a][from] = @ - amount] = [s EXCEPT !.wallet = taken]
    BY <2>2
  <2>5. x = [y EXCEPT !.wallet[a][to] = @ + got]
    BY <1>2, <2>3, <2>4
  <2> HIDE DEF taken
  <2> QED BY <2>5 DEF q
<1> HIDE DEF w, got
<1>7. taken \in [Asset -> [Holder -> Nat]]
      /\ \A b \in Asset, h \in Holder : taken[b][h] = IF b = a /\ h = from THEN w[b][h] - amount ELSE w[b][h]
  BY <1>1, <1>4
<1> HIDE DEF taken
<1>8. taken[a][to] \in Nat
  BY <1>7
<1>9. given \in [Asset -> [Holder -> Nat]]
      /\ \A b \in Asset, h \in Holder : given[b][h] = IF b = a /\ h = to THEN taken[b][h] + got ELSE taken[b][h]
  BY <1>5, <1>7, <1>8
<1> HIDE DEF given
<1>10. \A b \in Asset, h \in Holder :
         given[b][h] >= w[b][h] - (IF b = a /\ h = from THEN amount ELSE 0)
  <2> TAKE b \in Asset, h \in Holder
  <2>1. w[b][h] \in Nat /\ taken[b][h] \in Nat
    BY <1>1, <1>7
  <2> QED BY <1>4, <1>5, <1>7, <1>9, <2>1
<1>11. x.wallet = given /\ x.pool = s.pool
  BY <1>6
<1>12. IsState(x)
  BY <1>6, <1>9, <1>11 DEF IsState
<1> QED BY <1>4, <1>10, <1>11, <1>12 DEF w

(* Transfers run one after another.                                        *)
TransferFrom(S, l) == UNION {Transfer(y, l[1], l[2], l[3], l[4]) : y \in S}

Stages(after, s, legs, n) ==
  /\ after[0] = {s} /\ Transfers(s, legs) = after[n]
  /\ \A i \in 1 .. n : after[i] = TransferFrom(after[i - 1], legs[i])

(* What Transfers computes, by its stages.                                 *)
LEMMA TransfersUnfold ==
  ASSUME NEW s, NEW legs, NEW n \in Nat, n = Len(legs)
  PROVE  \E after : Stages(after, s, legs, n)
<1> DEFINE On(S, i) == TransferFrom(S, legs[i])
           Runs(f, k) == f = [i \in 0 .. k |-> IF i = 0 THEN {s} ELSE On(f[i - 1], i)]
           Done == { k \in Nat : \E f : Runs(f, k) }
           after == CHOOSE f : Runs(f, n)
<1>1. Transfers(s, legs) = after[n]
  BY DEF Transfers, InTurn, TransferFrom
<1> HIDE DEF On
<1>2. 0 \in Done
  <2> DEFINE f == [i \in 0 .. 0 |-> {s}]
  <2>1. Runs(f, 0)
    OBVIOUS
  <2> QED BY <2>1
<1>3. ASSUME NEW k \in Done PROVE k + 1 \in Done
  <2>1. k \in Nat
    OBVIOUS
  <2>2. PICK f : Runs(f, k)
    OBVIOUS
  <2> DEFINE g == [i \in 0 .. k + 1 |-> IF i = k + 1 THEN On(f[k], i) ELSE f[i]]
             h == [i \in 0 .. k + 1 |-> IF i = 0 THEN {s} ELSE On(g[i - 1], i)]
  <2>3. \A i \in 0 .. k : f[i] = IF i = 0 THEN {s} ELSE On(f[i - 1], i)
    BY <2>2
  <2>4. ASSUME NEW i \in 0 .. k + 1 PROVE g[i] = h[i]
    <3>1. CASE i = 0
      <4>1. g[i] = f[0] /\ h[i] = {s} /\ 0 \in 0 .. k
        BY <2>1, <3>1
      <4>2. f[0] = {s}
        BY <2>3, <4>1
      <4> HIDE DEF g, h
      <4> QED BY <4>1, <4>2
    <3>2. CASE i # 0 /\ i \in 0 .. k
      <4>1. i - 1 \in 0 .. k + 1 /\ i - 1 # k + 1 /\ i # k + 1
        BY <2>1, <3>2
      <4>2. g[i] = f[i] /\ g[i - 1] = f[i - 1]
        BY <4>1
      <4>3. h[i] = On(g[i - 1], i)
        BY <3>2
      <4>4. f[i] = On(f[i - 1], i)
        BY <2>3, <3>2
      <4> HIDE DEF g, h
      <4> QED BY <4>2, <4>3, <4>4
    <3>3. CASE i = k + 1
      <4>1. i - 1 = k /\ k \in 0 .. k + 1 /\ k # k + 1 /\ i # 0
        BY <2>1, <3>3
      <4>2. g[i] = On(f[k], i) /\ g[i - 1] = f[k]
        BY <3>3, <4>1
      <4>3. h[i] = On(g[i - 1], i)
        BY <4>1
      <4> HIDE DEF g, h
      <4> QED BY <4>2, <4>3
    <3> QED BY <2>1, <3>1, <3>2, <3>3
  <2>5. Runs(g, k + 1)
    BY <2>4
  <2> HIDE DEF g, h, Runs
  <2> QED BY <2>1, <2>5
<1>4. Done = Nat
  <2> HIDE DEF Done
  <2>1. Done \subseteq Nat
    BY DEF Done
  <2> QED BY <1>2, <1>3, <2>1, NaturalsBySteps
<1>5. Runs(after, n)
  <2>1. \E f : Runs(f, n)
    BY <1>4
  <2> HIDE DEF Runs
  <2> QED BY <2>1
<1> HIDE DEF after
<1>6. after[0] = {s} /\ \A i \in 1 .. n : after[i] = On(after[i - 1], i)
  <2>1. \A i \in 0 .. n : after[i] = IF i = 0 THEN {s} ELSE On(after[i - 1], i)
    BY <1>5
  <2> QED BY <2>1
<1> WITNESS after
<1> QED BY <1>1, <1>6 DEF On, Stages

-----------------------------------------------------------------------------
(* Where transfers lead: every amount was there to be sent, the pairs are  *)
(* as before, and who only receives loses nothing.                         *)
IsLegs(L) == \A l \in L : l[1] \in Asset /\ l[2] \in Holder /\ l[3] \in Holder
Keeps(L, h) == \A l \in L : l[2] = h => l[4] = 0

(* Transfers keep the pairs' records; every amount sent is a natural       *)
(* number; a holder who only sends zero amounts loses nothing of any       *)
(* asset.                                                                  *)
LEMMA TransfersLead ==
  ASSUME NEW s, IsState(s), NEW L, IsLegs(L), NEW legs \in Seq(L), NEW x \in Transfers(s, legs)
  PROVE  /\ IsState(x) /\ x.pool = s.pool
         /\ \A i \in 1 .. Len(legs) : legs[i][4] \in Nat
         /\ \A h \in Holder : Keeps(L, h) => \A b \in Asset : x.wallet[b][h] >= s.wallet[b][h]
<1> DEFINE n == Len(legs)
           From(y) == /\ IsState(y) /\ y.pool = s.pool
                      /\ \A h \in Holder : Keeps(L, h) => \A b \in Asset : y.wallet[b][h] >= s.wallet[b][h]
<1>1. n \in Nat /\ \A i \in 1 .. n : legs[i] \in L
  OBVIOUS
<1>2. PICK after : Stages(after, s, legs, n)
  <2>1. n = Len(legs)
    OBVIOUS
  <2> QED BY <1>1, <2>1, TransfersUnfold
<1> DEFINE Sound == {k \in Nat : k <= n => /\ \A y \in after[k] : From(y)
                                           /\ after[k] # {} => \A i \in 1 .. k : legs[i][4] \in Nat}
<1>3. From(s)
  <2>1. \A b \in Asset, h \in Holder : s.wallet[b][h] \in Nat
    BY DEF IsState
  <2>2. \A b \in Asset, h \in Holder : s.wallet[b][h] >= s.wallet[b][h]
    BY <2>1
  <2> QED BY <2>2
<1>4. ASSUME NEW i \in 1 .. n, NEW y, From(y),
             NEW z \in Transfer(y, legs[i][1], legs[i][2], legs[i][3], legs[i][4])
      PROVE  From(z) /\ legs[i][4] \in Nat
  <2> DEFINE l == legs[i]
  <2>1. l \in L /\ l[1] \in Asset /\ l[2] \in Holder /\ l[3] \in Holder
    BY <1>1 DEF IsLegs
  <2>2. IsState(y)
    BY <1>4
  <2> HIDE DEF From
  <2>3. /\ IsState(z) /\ z.pool = y.pool /\ l[4] \in Nat
        /\ \A b \in Asset, h \in Holder :
             z.wallet[b][h] >= y.wallet[b][h] - (IF b = l[1] /\ h = l[2] THEN l[4] ELSE 0)
    BY <1>4, <2>1, <2>2, TransferOne
  <2>4. ASSUME NEW h \in Holder, Keeps(L, h), NEW b \in Asset PROVE z.wallet[b][h] >= s.wallet[b][h]
    <3>1. y.wallet[b][h] \in Nat /\ z.wallet[b][h] \in Nat /\ s.wallet[b][h] \in Nat
      BY <2>2, <2>3 DEF IsState
    <3>2. l[2] = h => l[4] = 0
      BY <2>1, <2>4 DEF Keeps
    <3>3. z.wallet[b][h] >= y.wallet[b][h]
      BY <2>3, <3>1, <3>2
    <3>4. y.wallet[b][h] >= s.wallet[b][h]
      BY <1>4, <2>4 DEF From
    <3> QED BY <3>1, <3>3, <3>4
  <2> HIDE DEF l
  <2>5. z.pool = s.pool
    BY <1>4, <2>3 DEF From
  <2> QED BY <2>3, <2>4, <2>5 DEF From, l
<1> HIDE DEF From
<1>5. 0 \in Sound
  BY <1>2, <1>3 DEF Stages
<1>6. ASSUME NEW k \in Sound PROVE k + 1 \in Sound
  <2> SUFFICES ASSUME k + 1 <= n
      PROVE /\ \A y \in after[k + 1] : From(y)
            /\ after[k + 1] # {} => \A i \in 1 .. k + 1 : legs[i][4] \in Nat
    OBVIOUS
  <2>1. k \in Nat /\ k <= n /\ k + 1 \in 1 .. n /\ (k + 1) - 1 = k
    BY <1>1
  <2>2. /\ \A y \in after[k] : From(y)
        /\ after[k] # {} => \A i \in 1 .. k : legs[i][4] \in Nat
    BY <2>1
  <2>3. \A z \in after[k + 1] : \E y \in after[k] :
          z \in Transfer(y, legs[k + 1][1], legs[k + 1][2], legs[k + 1][3], legs[k + 1][4])
    BY <1>2, <2>1 DEF TransferFrom, Stages
  <2>4. \A z \in after[k + 1] : From(z) /\ legs[k + 1][4] \in Nat
    BY <1>4, <2>1, <2>2, <2>3
  <2>5. ASSUME after[k + 1] # {}, NEW i \in 1 .. k + 1 PROVE legs[i][4] \in Nat
    <3>1. after[k] # {}
      BY <2>3, <2>5
    <3>2. CASE i = k + 1
      BY <2>4, <2>5, <3>2
    <3>3. CASE i # k + 1
      BY <2>1, <2>2, <3>1, <3>3
    <3> QED BY <3>2, <3>3
  <2> QED BY <2>4, <2>5
<1>7. Sound = Nat
  <2> HIDE DEF Sound
  <2>1. Sound \subseteq Nat
    BY DEF Sound
  <2> QED BY <1>5, <1>6, <2>1, NaturalsBySteps
<1>8. /\ \A y \in after[n] : From(y)
      /\ after[n] # {} => \A i \in 1 .. n : legs[i][4] \in Nat
  BY <1>1, <1>7
<1>9. x \in after[n]
  BY <1>2 DEF Stages
<1> QED BY <1>8, <1>9 DEF From

(* The two transfers of a pair's tokens.                                   *)
PairLegs(p, from, to, amount) == {<<t, from, to, amount[t]>> : t \in p}

(* Sending both tokens of a pair from one holder to another.               *)
LEMMA BothTokensLegs ==
  ASSUME NEW p \in Pair, NEW from \in Holder, NEW to \in Holder, NEW amount
  PROVE  /\ BothTokens(p, from, to, amount) \in Seq(PairLegs(p, from, to, amount))
         /\ IsLegs(PairLegs(p, from, to, amount))
         /\ \A s, x : x \in Transfers(s, BothTokens(p, from, to, amount)) /\ IsState(s) => \A t \in p : amount[t] \in Nat
<1> DEFINE L == {<<t, from, to, amount[t]>> : t \in p}
           t == CHOOSE u \in p : TRUE
           o == Other(p, t)
           legs == BothTokens(p, from, to, amount)
<1>1. t \in p
  BY PairIsTwo
<1>2. o \in p /\ p = {t, o} /\ p \subseteq Token
  BY <1>1, OtherOf
<1>3. legs = <<<<t, from, to, amount[t]>>, <<o, from, to, amount[o]>>>>
  BY DEF BothTokens
<1>4. IsLegs(L)
  BY <1>2, PairAssumption DEF IsLegs
<1> HIDE DEF t, o, legs
<1>5. legs \in Seq(L)
  BY <1>1, <1>2, <1>3
<1>6. ASSUME NEW s, NEW x, x \in Transfers(s, legs), IsState(s) PROVE \A u \in p : amount[u] \in Nat
  <2> HIDE DEF L
  <2>1. \A i \in 1 .. Len(legs) : legs[i][4] \in Nat
    BY <1>4, <1>5, <1>6, TransfersLead
  <2>2. Len(legs) = 2 /\ legs[1][4] = amount[t] /\ legs[2][4] = amount[o]
    BY <1>3
  <2>3. amount[t] \in Nat /\ amount[o] \in Nat
    BY <2>1, <2>2
  <2> QED BY <1>2, <2>3
<1> QED BY <1>4, <1>5, <1>6 DEF legs, PairLegs

(* A pair that sends both tokens holds no less than what it did not send.  *)
LEMMA BothTokensLeave ==
  ASSUME NEW s, IsState(s), NEW p \in Pair, NEW to \in Holder, NEW amount,
         NEW x \in Transfers(s, BothTokens(p, p, to, amount))
  PROVE  \A t \in p : amount[t] \in Nat /\ x.wallet[t][p] >= s.wallet[t][p] - amount[t]
<1> DEFINE t == CHOOSE u \in p : TRUE
           o == Other(p, t)
<1>1. t \in p
  BY PairIsTwo
<1>2. o \in p /\ p = {t, o} /\ p \subseteq Token /\ o # t
  BY <1>1, OtherOf
<1>3. BothTokens(p, p, to, amount) = <<<<t, p, to, amount[t]>>, <<o, p, to, amount[o]>>>>
  BY DEF BothTokens
<1> HIDE DEF t, o
<1>4. PICK legs : legs = <<<<t, p, to, amount[t]>>, <<o, p, to, amount[o]>>>>
  OBVIOUS
<1>5. Len(legs) = 2 /\ legs[1] = <<t, p, to, amount[t]>> /\ legs[2] = <<o, p, to, amount[o]>>
  BY <1>4
<1>6. PICK after : Stages(after, s, legs, 2)
  BY <1>5, TransfersUnfold
<1>7. after[1] = TransferFrom({s}, legs[1]) /\ x \in TransferFrom(after[1], legs[2])
  BY <1>3, <1>4, <1>5, <1>6 DEF Stages
<1>8. PICK y \in after[1] : x \in Transfer(y, o, p, to, amount[o])
  BY <1>5, <1>7 DEF TransferFrom
<1>9. y \in Transfer(s, t, p, to, amount[t])
  BY <1>5, <1>7 DEF TransferFrom
<1>10. p \in Holder /\ t \in Asset /\ o \in Asset
  BY <1>1, <1>2, HoldersFinite, PairAssumption
<1>11. /\ IsState(y) /\ amount[t] \in Nat
       /\ \A b \in Asset, h \in Holder : y.wallet[b][h] >= s.wallet[b][h] - (IF b = t /\ h = p THEN amount[t] ELSE 0)
  BY <1>9, <1>10, TransferOne
<1>12. /\ IsState(x) /\ amount[o] \in Nat
       /\ \A b \in Asset, h \in Holder : x.wallet[b][h] >= y.wallet[b][h] - (IF b = o /\ h = p THEN amount[o] ELSE 0)
  BY <1>8, <1>10, <1>11, TransferOne
<1>13. \A b \in Asset : s.wallet[b][p] \in Nat /\ y.wallet[b][p] \in Nat /\ x.wallet[b][p] \in Nat
  BY <1>10, <1>11, <1>12 DEF IsState
<1>14. x.wallet[t][p] >= s.wallet[t][p] - amount[t]
  <2>1. y.wallet[t][p] >= s.wallet[t][p] - amount[t] /\ x.wallet[t][p] >= y.wallet[t][p] - 0
    BY <1>2, <1>10, <1>11, <1>12
  <2> QED BY <1>10, <1>11, <1>13, <2>1
<1>15. x.wallet[o][p] >= s.wallet[o][p] - amount[o]
  <2>1. y.wallet[o][p] >= s.wallet[o][p] - 0 /\ x.wallet[o][p] >= y.wallet[o][p] - amount[o]
    BY <1>2, <1>10, <1>11, <1>12
  <2> QED BY <1>10, <1>12, <1>13, <2>1
<1> QED BY <1>2, <1>11, <1>12, <1>14, <1>15

-----------------------------------------------------------------------------
(* What becomes of the pairs there are. Same: their reserves and supplies  *)
(* are as before. Quiet: their supplies are, and the products of their     *)
(* reserves have not fallen. Moves: what ShareValueKept and                *)
(* FeeOnTradingOnly ask of a step.                                         *)
Grows(s, x) == Good(x) /\ DOMAIN s.pool \subseteq DOMAIN x.pool
Same(s, x) ==
  /\ Grows(s, x)
  /\ \A p \in DOMAIN s.pool :
       /\ x.pool[p].reserve = s.pool[p].reserve /\ x.pool[p].kLast = s.pool[p].kLast
       /\ x.pool[p].totalSupply = s.pool[p].totalSupply
Quiet(s, x) ==
  /\ Grows(s, x)
  /\ \A p \in DOMAIN s.pool :
       /\ Product(x.pool[p].reserve) >= Product(s.pool[p].reserve) /\ x.pool[p].kLast = s.pool[p].kLast
       /\ x.pool[p].totalSupply = s.pool[p].totalSupply

PairStep(r, r2) ==
  LET shares == r.totalSupply + FeeOwed(r)
  IN /\ r2.totalSupply # r.totalSupply => r2.kLast \in {0, Product(r2.reserve)}
     /\ r.totalSupply > 0 =>
          /\ Product(r2.reserve) > 0
          /\ Product(r2.reserve) * shares * shares >= Product(r.reserve) * r2.totalSupply * r2.totalSupply
Moves(s, x) == Grows(s, x) /\ \A p \in DOMAIN s.pool : PairStep(s.pool[p], x.pool[p])

(* The parts of a pair's record.                                           *)
LEMMA PairTypes ==
  ASSUME NEW s, IsState(s), NEW p \in DOMAIN s.pool
  PROVE  /\ p \in Pair /\ s.pool[p] \in Record(p)
         /\ s.pool[p].reserve \in [p -> Nat] /\ s.pool[p].kLast \in Nat /\ s.pool[p].totalSupply \in Nat
         /\ s.pool[p].balanceOf \in [Holder -> Nat] /\ Product(s.pool[p].reserve) \in Nat
         /\ \A t \in p : s.wallet[t][p] \in Nat /\ s.pool[p].reserve[t] \in Nat
<1>1. p \in Pair /\ s.pool[p] \in Record(p)
  BY DEF IsState
<1>2. s.pool[p].reserve \in [p -> Nat] /\ s.pool[p].kLast \in Nat /\ s.pool[p].totalSupply \in Nat
      /\ s.pool[p].balanceOf \in [Holder -> Nat]
  BY <1>1 DEF Record
<1>3. \A t \in p : s.wallet[t][p] \in Nat
  <2>1. p \subseteq Asset /\ p \in Holder
    BY <1>1, PairAssumption, HoldersFinite, PairIsTwo
  <2> QED BY <2>1 DEF IsState
<1>4. Product(s.pool[p].reserve) \in Nat
  <2> DEFINE f == s.pool[p].reserve
  <2>1. DOMAIN f = p /\ \A t \in p : f[t] \in Nat /\ f[t] <= f[t]
    BY <1>2
  <2> HIDE DEF f
  <2>2. Product(f) \in Nat
    BY <1>1, <2>1, ProductMonotone
  <2> QED BY <2>2 DEF f
<1> QED BY <1>1, <1>2, <1>3, <1>4

(* What keeps reserves keeps their products.                               *)
LEMMA SameIsQuiet == ASSUME NEW s, NEW x, Good(s), Same(s, x) PROVE Quiet(s, x)
<1>1. \A p \in DOMAIN s.pool : Product(s.pool[p].reserve) >= Product(s.pool[p].reserve)
  <2> TAKE p \in DOMAIN s.pool
  <2>1. Product(s.pool[p].reserve) \in Nat
    BY PairTypes DEF Good
  <2> QED BY <2>1
<1> QED BY <1>1 DEF Same, Quiet

(* Same, Quiet and Moves compose.                                          *)
LEMMA SameSame == ASSUME NEW s, NEW x, NEW y, Same(s, x), Same(x, y) PROVE Same(s, y)
BY DEF Same, Grows

(* Two quiet steps are one.                                                *)
LEMMA QuietQuiet == ASSUME NEW s, NEW x, NEW y, Good(s), Quiet(s, x), Quiet(x, y) PROVE Quiet(s, y)
<1> SUFFICES ASSUME NEW p \in DOMAIN s.pool PROVE Product(y.pool[p].reserve) >= Product(s.pool[p].reserve)
  BY DEF Quiet, Grows
<1>1. p \in DOMAIN x.pool /\ p \in DOMAIN y.pool /\ Good(x) /\ Good(y)
  BY DEF Quiet, Grows
<1>2. Product(s.pool[p].reserve) \in Nat /\ Product(x.pool[p].reserve) \in Nat /\ Product(y.pool[p].reserve) \in Nat
  BY <1>1, PairTypes DEF Good
<1>3. Product(y.pool[p].reserve) >= Product(x.pool[p].reserve) /\ Product(x.pool[p].reserve) >= Product(s.pool[p].reserve)
  BY <1>1 DEF Quiet
<1> QED BY <1>2, <1>3

(* A step of the pairs may begin with one that keeps them ...              *)
LEMMA SameMoves == ASSUME NEW s, NEW x, NEW y, Same(s, x), Moves(x, y) PROVE Moves(s, y)
<1> SUFFICES ASSUME NEW p \in DOMAIN s.pool PROVE PairStep(s.pool[p], y.pool[p])
  BY DEF Same, Moves, Grows
<1>1. p \in DOMAIN x.pool
  BY DEF Same, Grows
<1>2. FeeOwed(s.pool[p]) = FeeOwed(x.pool[p])
  BY DEF Same, FeeOwed
<1>3. PairStep(x.pool[p], y.pool[p])
  BY <1>1 DEF Moves
<1> QED BY <1>2, <1>3 DEF Same, PairStep

(* ... and end with one.                                                   *)
LEMMA MovesSame == ASSUME NEW s, NEW x, NEW y, Moves(s, x), Same(x, y) PROVE Moves(s, y)
BY DEF Moves, Same, Grows, PairStep

(* Writing a pair's record, all of it or its reserves.                     *)
LEMMA StateOf ==
  ASSUME NEW w \in [Asset -> [Holder -> Nat]], NEW g, g = [q \in DOMAIN g |-> g[q]],
         DOMAIN g \subseteq Pair, \A q \in DOMAIN g : g[q] \in Record(q)
  PROVE  IsState([wallet |-> w, pool |-> g])
<1> DEFINE x == [wallet |-> w, pool |-> g]
<1>1. x.wallet = w /\ x.pool = g
  OBVIOUS
<1>2. x = [wallet |-> x.wallet, pool |-> x.pool]
  OBVIOUS
<1> HIDE DEF x
<1> QED BY <1>1, <1>2 DEF IsState

(* Writing the record of one pair.                                         *)
LEMMA SetPair ==
  ASSUME NEW s, IsState(s), NEW p \in DOMAIN s.pool, NEW r \in Record(p), NEW x, x = [s EXCEPT !.pool[p] = r]
  PROVE  /\ IsState(x) /\ x.wallet = s.wallet /\ DOMAIN x.pool = DOMAIN s.pool /\ x.pool[p] = r
         /\ \A q \in DOMAIN s.pool : q # p => x.pool[q] = s.pool[q]
<1> DEFINE w == s.wallet  f == s.pool  g == [f EXCEPT ![p] = r]
<1>1. s = [wallet |-> w, pool |-> f] /\ w \in [Asset -> [Holder -> Nat]] /\ f = [q \in DOMAIN f |-> f[q]]
      /\ DOMAIN f \subseteq Pair /\ (\A q \in DOMAIN f : f[q] \in Record(q)) /\ p \in DOMAIN f
  BY DEF IsState
<1>2. x = [s EXCEPT !.pool = g]
  OBVIOUS
<1> HIDE DEF w, f
<1>3. DOMAIN g = DOMAIN f /\ g[p] = r /\ (\A q \in DOMAIN f : q # p => g[q] = f[q]) /\ g = [q \in DOMAIN g |-> g[q]]
  BY <1>1
<1> HIDE DEF g
<1>4. x = [wallet |-> w, pool |-> g]
  BY <1>1, <1>2
<1>5. x.wallet = w /\ x.pool = g
  BY <1>4
<1>6. \A q \in DOMAIN g : g[q] \in Record(q)
  BY <1>1, <1>3
<1>7. IsState(x)
  BY <1>1, <1>3, <1>4, <1>6, StateOf
<1> QED BY <1>3, <1>5, <1>7 DEF w, f

(* _update makes the pair's balances its reserves and writes nothing else. *)
LEMMA UpdateLeads ==
  ASSUME NEW y, IsState(y), NEW p \in DOMAIN y.pool, NEW x \in _update(y, p)
  PROVE  /\ IsState(x) /\ x.wallet = y.wallet /\ DOMAIN x.pool = DOMAIN y.pool
         /\ x.pool[p].reserve = Balances(y, p) /\ x.pool[p].kLast = y.pool[p].kLast
         /\ x.pool[p].totalSupply = y.pool[p].totalSupply /\ x.pool[p].balanceOf = y.pool[p].balanceOf
         /\ \A q \in DOMAIN y.pool : q # p => x.pool[q] = y.pool[q]
<1> DEFINE b == Balances(y, p)
           r == y.pool[p]
           r2 == [r EXCEPT !.reserve = b]
<1>1. x = [y EXCEPT !.pool[p].reserve = b]
  BY DEF _update
<1>2. p \in Pair /\ r \in Record(p) /\ \A t \in p : y.wallet[t][p] \in Nat
  BY PairTypes
<1>3. b \in [p -> Nat]
  BY <1>2 DEF Balances
<1> HIDE DEF b
<1>4. x = [y EXCEPT !.pool[p] = r2]
  BY <1>1
<1> HIDE DEF r
<1>5. r2 \in Record(p) /\ r2.reserve = b /\ r2.kLast = r.kLast /\ r2.totalSupply = r.totalSupply
      /\ r2.balanceOf = r.balanceOf
  BY <1>2, <1>3 DEF Record
<1> HIDE DEF r2
<1>6. /\ IsState(x) /\ x.wallet = y.wallet /\ DOMAIN x.pool = DOMAIN y.pool /\ x.pool[p] = r2
      /\ \A q \in DOMAIN y.pool : q # p => x.pool[q] = y.pool[q]
  BY <1>4, <1>5, SetPair
<1> QED BY <1>5, <1>6 DEF b, r

(* The reserves of every pair are covered again once the balances of the   *)
(* one that gave have been written.                                        *)
LEMMA CoveredAfter ==
  ASSUME NEW s, Good(s), NEW p \in DOMAIN s.pool, NEW y, IsState(y), DOMAIN y.pool = DOMAIN s.pool,
         \A q \in DOMAIN s.pool \ {p} : /\ y.pool[q] = s.pool[q]
                                        /\ \A b \in Asset : y.wallet[b][q] >= s.wallet[b][q],
         NEW x \in _update(y, p)
  PROVE  \A q \in DOMAIN x.pool : Covered(x, q) /\ (q # p => SharesOK(x.pool[q]))
<1>1. /\ IsState(x) /\ x.wallet = y.wallet /\ DOMAIN x.pool = DOMAIN y.pool
      /\ x.pool[p].reserve = Balances(y, p)
      /\ \A q \in DOMAIN y.pool : q # p => x.pool[q] = y.pool[q]
  BY UpdateLeads
<1>2. \A t \in p : y.wallet[t][p] \in Nat
  BY PairTypes
<1>3. Covered(x, p)
  BY <1>1, <1>2 DEF Covered, Balances
<1>4. ASSUME NEW q \in DOMAIN s.pool \ {p} PROVE Covered(x, q) /\ SharesOK(x.pool[q])
  <2>1. x.pool[q] = s.pool[q] /\ SharesOK(s.pool[q]) /\ Covered(s, q)
    BY <1>1, <1>4 DEF Good
  <2>2. ASSUME NEW t \in q PROVE x.pool[q].reserve[t] <= x.wallet[t][q]
    <3>1. t \in Asset
      BY <2>2, PairTypes, PairIsTwo, PairAssumption DEF Good
    <3>2. s.wallet[t][q] \in Nat /\ s.pool[q].reserve[t] \in Nat /\ y.wallet[t][q] \in Nat
      BY <1>4, <2>2, PairTypes DEF Good
    <3>3. s.pool[q].reserve[t] <= s.wallet[t][q] /\ y.wallet[t][q] >= s.wallet[t][q]
      BY <1>4, <2>1, <3>1 DEF Covered
    <3> QED BY <1>1, <2>1, <3>2, <3>3
  <2> QED BY <2>1, <2>2 DEF Covered
<1> QED BY <1>1, <1>3, <1>4

-----------------------------------------------------------------------------
(* What KHolds says of the balances.                                       *)
LEMMA TimesPositive ==
  ASSUME NEW a \in Int, NEW b \in Int, NEW k \in Nat \ {0}, a * k >= b * k
  PROVE  a >= b
<1> SUFFICES ASSUME a + 1 <= b PROVE FALSE
  OBVIOUS
<1>1. (a + 1) * k <= b * k
  OBVIOUS
<1>2. (a + 1) * k = a * k + k
  OBVIOUS
<1>3. a * k \in Int /\ b * k \in Int
  OBVIOUS
<1> DEFINE u == a * k  v == b * k
<1>4. u \in Int /\ v \in Int /\ u >= v /\ u + k <= v
  BY <1>1, <1>2, <1>3
<1> HIDE DEF u, v
<1> QED BY <1>4

(* What is left of a balance when a fee is taken on what came in.          *)
LEMMA LessFee ==
  ASSUME NEW a \in Nat, NEW i \in Nat, i <= a, NEW f \in Nat, NEW b \in Nat, f <= b
  PROVE  a * b - i * f \in Nat /\ a * b - i * f <= a * b
<1>1. i * f <= a * b /\ i * f \in Nat /\ a * b \in Nat
  BY TimesMonotone
<1> DEFINE u == i * f  v == a * b
<1>2. u <= v /\ u \in Nat /\ v \in Nat
  BY <1>1
<1> HIDE DEF u, v
<1>3. v - u \in Nat /\ v - u <= v
  BY <1>2
<1> QED BY <1>3 DEF u, v

(* The check of `swap` is on balances less their fees. It bounds the       *)
(* product of the balances themselves.                                     *)
LEMMA FeeKeepsProduct ==
  ASSUME NEW a \in Nat, NEW b \in Nat, NEW i \in Nat, NEW j \in Nat, i <= a, j <= b,
         NEW f \in Nat, NEW k \in Nat \ {0}, f <= k, NEW m \in Nat,
         (a * k - i * f) * (b * k - j * f) >= m * k * k
  PROVE  a * b >= m
<1> DEFINE u == a * k - i * f  v == b * k - j * f
<1>1. u \in Nat /\ u <= a * k /\ v \in Nat /\ v <= b * k
  BY LessFee
<1>2. u * v >= m * k * k
  OBVIOUS
<1> HIDE DEF u, v
<1>3. a * k \in Nat /\ b * k \in Nat
  OBVIOUS
<1>4. u * v <= (a * k) * (b * k)
  BY <1>1, <1>3, TimesMonotone
<1>5. (a * k) * (b * k) = ((a * b) * k) * k
  OBVIOUS
<1>6. u * v \in Nat /\ ((a * b) * k) * k \in Nat /\ m * k * k = (m * k) * k /\ (m * k) * k \in Nat
  BY <1>1
<1>7. ((a * b) * k) * k >= (m * k) * k
  BY <1>2, <1>4, <1>5, <1>6
<1>8. (a * b) * k >= m * k
  <2>1. (a * b) * k \in Int /\ m * k \in Int
    OBVIOUS
  <2> QED BY <1>7, <2>1, TimesPositive
<1>9. a * b \in Int
  OBVIOUS
<1> QED BY <1>8, <1>9, TimesPositive

(* What came in is within what there is.                                   *)
LEMMA CameIn ==
  ASSUME NEW b \in Nat, NEW r \in Nat, NEW o \in Nat, o < r
  PROVE  Max({0, b - (r - o)}) \in Nat /\ Max({0, b - (r - o)}) <= b
<1> DEFINE v == b - (r - o)
<1>1. v \in Int /\ v <= b
  OBVIOUS
<1> HIDE DEF v
<1>2. Max({0, v}) = IF v >= 0 THEN v ELSE 0
  BY <1>1 DEF Max
<1>3. Max({0, v}) \in Nat /\ Max({0, v}) <= b
  BY <1>1, <1>2
<1> QED BY <1>3 DEF v

(* Swaps: the two transfers out, the two back, and what the pair then holds.*)
LEMMA SwapTransfers ==
  ASSUME NEW s, IsState(s), NEW p \in Pair, NEW to \in Holder, NEW out, NEW paid,
         to \in Account \/ \A t \in p : paid[t] = 0,
         NEW y \in Transfers(s, BothTokens(p, p, to, out) \o BothTokens(p, to, p, paid))
  PROVE  /\ IsState(y) /\ y.pool = s.pool /\ \A t \in p : out[t] \in Nat
         /\ \A q \in Pair \ {p} : \A b \in Asset : y.wallet[b][q] >= s.wallet[b][q]
<1> DEFINE A == PairLegs(p, p, to, out)
           B == PairLegs(p, to, p, paid)
           L == A \cup B
           l1 == BothTokens(p, p, to, out)
           l2 == BothTokens(p, to, p, paid)
<1>1. p \in Holder
  BY HoldersFinite
<1>2. l1 \in Seq(A) /\ IsLegs(A)
  BY <1>1, BothTokensLegs
<1>3. l2 \in Seq(B) /\ IsLegs(B)
  BY <1>1, BothTokensLegs
<1>4. Len(l1) = 2 /\ \A t \in p : \E i \in {1, 2} : l1[i][4] = out[t]
  <2> DEFINE t == CHOOSE u \in p : TRUE
  <2>1. t \in p
    BY PairIsTwo
  <2>2. l1 = <<<<t, p, to, out[t]>>, <<Other(p, t), p, to, out[Other(p, t)]>>>>
    BY DEF BothTokens
  <2> HIDE DEF t, l1
  <2>3. Len(l1) = 2 /\ l1[1][4] = out[t] /\ l1[2][4] = out[Other(p, t)]
    BY <2>2
  <2>4. p = {t, Other(p, t)}
    BY <2>1, OtherOf
  <2> QED BY <2>3, <2>4
<1>5. IsLegs(L)
  BY <1>2, <1>3 DEF IsLegs
<1>6. \A q \in Pair \ {p} : Keeps(L, q)
  <2> SUFFICES ASSUME NEW q \in Pair \ {p}, NEW l \in L, l[2] = q PROVE l[4] = 0
    BY DEF Keeps
  <2>1. l \in B
    BY DEF PairLegs
  <2>2. to = q /\ \E t \in p : l[4] = paid[t]
    BY <2>1 DEF PairLegs
  <2>3. to \notin Account
    BY <2>2, PairAssumption DEF Pair
  <2> QED BY <2>2, <2>3
<1> HIDE DEF A, B, l1, l2
<1>7. l1 \in Seq(L) /\ l2 \in Seq(L)
  BY <1>2, <1>3
<1> HIDE DEF L
<1>8. l1 \o l2 \in Seq(L)
  BY <1>7
<1>9. /\ IsState(y) /\ y.pool = s.pool
      /\ \A i \in 1 .. Len(l1 \o l2) : (l1 \o l2)[i][4] \in Nat
      /\ \A h \in Holder : Keeps(L, h) => \A b \in Asset : y.wallet[b][h] >= s.wallet[b][h]
  BY <1>5, <1>8, TransfersLead DEF l1, l2
<1>10. \A i \in {1, 2} : i \in 1 .. Len(l1 \o l2) /\ (l1 \o l2)[i] = l1[i]
  <2>1. Len(l2) \in Nat /\ Len(l1 \o l2) = Len(l1) + Len(l2)
    BY <1>7
  <2>2. \A i \in 1 .. Len(l1) : (l1 \o l2)[i] = l1[i]
    BY <1>7
  <2> QED BY <1>4, <2>1, <2>2
<1>11. \A t \in p : out[t] \in Nat
  BY <1>4, <1>9, <1>10
<1> QED BY <1>6, <1>9, <1>11, HoldersFinite

(* KHolds is that the product of the balances has not fallen.              *)
LEMMA KHoldsMeans ==
  ASSUME NEW p \in Pair, NEW reserve \in [p -> Nat], NEW balance \in [p -> Nat], NEW in \in [p -> Nat],
         \A t \in p : in[t] <= balance[t], NEW fee \in 0 .. FEE_BASE, KHolds(reserve, balance, in, fee)
  PROVE  Product(balance) >= Product(reserve)
<1>1. PICK a \in Token, b \in Token : a # b /\ p = {a, b}
  BY PairIsTwo
<1> DEFINE adjusted == [t \in p |-> balance[t] * FEE_BASE - in[t] * fee]
<1>2. FEE_BASE \in Nat \ {0} /\ fee \in Nat /\ fee <= FEE_BASE
  BY FeeAssumption
<1>3. \A t \in p : balance[t] \in Nat /\ in[t] \in Nat /\ reserve[t] \in Nat
  OBVIOUS
<1>4. Product(balance) = balance[a] * balance[b] /\ Product(reserve) = reserve[a] * reserve[b]
  BY <1>1, <1>3, ProductOf
<1>5. Product(adjusted) = (balance[a] * FEE_BASE - in[a] * fee) * (balance[b] * FEE_BASE - in[b] * fee)
  <2>1. DOMAIN adjusted = p /\ \A t \in p : adjusted[t] = balance[t] * FEE_BASE - in[t] * fee
    OBVIOUS
  <2>2. \A t \in p : adjusted[t] \in Int
    BY <1>2, <1>3, <2>1
  <2> HIDE DEF adjusted
  <2>3. Product(adjusted) = adjusted[a] * adjusted[b]
    BY <1>1, <2>1, <2>2, ProductOf
  <2> QED BY <1>1, <2>1, <2>3
<1>6. Product(adjusted) >= Product(reserve) * FEE_BASE * FEE_BASE
  BY DEF KHolds
<1> DEFINE m == Product(reserve)
<1>7. m \in Nat
  BY <1>1, <1>3, <1>4, TimesMonotone
<1>8. balance[a] * balance[b] >= m
  <2> HIDE DEF m
  <2>1. (balance[a] * FEE_BASE - in[a] * fee) * (balance[b] * FEE_BASE - in[b] * fee) >= m * FEE_BASE * FEE_BASE
    BY <1>5, <1>6 DEF m
  <2>2. in[a] <= balance[a] /\ in[b] <= balance[b] /\ a \in p /\ b \in p
    BY <1>1
  <2> QED BY <1>2, <1>3, <1>7, <2>1, <2>2, FeeKeepsProduct
<1> QED BY <1>4, <1>8

(* swap (SherwoodV2Pair.sol): whoever calls it, whatever is sent out and   *)
(* paid in, the product of the pair's reserves does not fall, its supply   *)
(* and kLast stay, and every other pair loses nothing.                     *)
THEOREM SwapLeads ==
  ASSUME NEW s, Good(s), NEW p \in DOMAIN s.pool, NEW to \in Holder, NEW out, NEW paid,
         to \in Account \/ \A t \in p : paid[t] = 0,
         NEW x \in swap(s, p, out, to, paid)
  PROVE  Quiet(s, x)
<1> DEFINE reserve == s.pool[p].reserve
           In(y) == [t \in p |-> Max({0, y.wallet[t][p] - (reserve[t] - out[t])})]
           Settled(y) == /\ \E t \in p : In(y)[t] > 0
                         /\ KHolds(reserve, Balances(y, p), In(y), PairFee[p])
           S == Transfers(s, BothTokens(p, p, to, out) \o BothTokens(p, to, p, paid))
<1>1. /\ \A t \in p : out[t] < reserve[t]
      /\ x \in Then(S, LAMBDA y : IF Settled(y) THEN _update(y, p) ELSE {})
  BY DEF swap
<1>2. PICK y \in S : Settled(y) /\ x \in _update(y, p)
  <2> HIDE DEF S, Settled
  <2> QED BY <1>1 DEF Then
<1>3. IsState(s) /\ p \in Pair
  BY DEF Good, IsState
<1>4. /\ IsState(y) /\ y.pool = s.pool /\ \A t \in p : out[t] \in Nat
      /\ \A q \in Pair \ {p} : \A b \in Asset : y.wallet[b][q] >= s.wallet[b][q]
  BY <1>3, SwapTransfers
<1> HIDE DEF S
<1>5. /\ IsState(x) /\ DOMAIN x.pool = DOMAIN s.pool
      /\ x.pool[p].reserve = Balances(y, p) /\ x.pool[p].kLast = s.pool[p].kLast
      /\ x.pool[p].totalSupply = s.pool[p].totalSupply /\ x.pool[p].balanceOf = s.pool[p].balanceOf
      /\ \A q \in DOMAIN s.pool : q # p => x.pool[q] = s.pool[q]
  <2>1. p \in DOMAIN y.pool
    BY <1>4
  <2> QED BY <1>2, <1>4, <2>1, UpdateLeads
<1>6. \A q \in DOMAIN x.pool : Covered(x, q) /\ (q # p => SharesOK(x.pool[q]))
  <2>1. \A q \in DOMAIN s.pool \ {p} : y.pool[q] = s.pool[q] /\ \A b \in Asset : y.wallet[b][q] >= s.wallet[b][q]
    BY <1>3, <1>4 DEF IsState
  <2> HIDE DEF Settled
  <2> QED BY <1>2, <1>4, <2>1, CoveredAfter
<1>7. Product(Balances(y, p)) >= Product(reserve)
  <2>1. reserve \in [p -> Nat] /\ \A t \in p : reserve[t] \in Nat /\ y.wallet[t][p] \in Nat
    BY <1>3, <1>4, PairTypes
  <2>2. Balances(y, p) \in [p -> Nat] /\ \A t \in p : Balances(y, p)[t] = y.wallet[t][p]
    BY <2>1 DEF Balances
  <2>3. \A t \in p : In(y)[t] \in Nat /\ In(y)[t] <= Balances(y, p)[t]
    BY <1>1, <1>4, <2>1, <2>2, CameIn
  <2>4. In(y) \in [p -> Nat]
    BY <2>3
  <2>5. PairFee[p] \in 0 .. FEE_BASE
    BY <1>3, PairFeeAssumption, FeeAssumption DEF Pair
  <2>6. KHolds(reserve, Balances(y, p), In(y), PairFee[p])
    BY <1>2
  <2> HIDE DEF In, reserve
  <2> QED BY <1>3, <2>1, <2>2, <2>3, <2>4, <2>5, <2>6, KHoldsMeans
<1> HIDE DEF Settled
<1>8. Product(reserve) \in Nat /\ s.pool[p].kLast \in Nat /\ s.pool[p].totalSupply \in Nat
      /\ Product(x.pool[p].reserve) \in Nat
  BY <1>3, <1>5, PairTypes
<1>9. SharesOK(x.pool[p])
  <2>1. SharesOK(s.pool[p])
    BY DEF Good
  <2> QED BY <1>5, <1>7, <1>8, <2>1 DEF SharesOK
<1>10. Good(x)
  BY <1>5, <1>6, <1>9 DEF Good
<1>11. \A q \in DOMAIN s.pool : Product(x.pool[q].reserve) >= Product(s.pool[q].reserve)
  <2> TAKE q \in DOMAIN s.pool
  <2>1. Product(s.pool[q].reserve) \in Nat
    BY <1>3, PairTypes
  <2> QED BY <1>5, <1>7, <2>1
<1> QED BY <1>5, <1>10, <1>11 DEF Quiet, Grows

-----------------------------------------------------------------------------
(* The value of the shares of a pair whose supply stays: no less when the  *)
(* product of its reserves has not fallen.                                 *)
LEMMA FeeOwedType ==
  ASSUME NEW p \in Pair, NEW r \in Record(p)
  PROVE  FeeOwed(r) \in Nat /\ (r.totalSupply = 0 => FeeOwed(r) = 0)
<1> DEFINE n == r.totalSupply
           k == sqrt(Product(r.reserve))
           l == sqrt(r.kLast)
<1>1. n \in Nat /\ r.kLast \in Nat /\ r.reserve \in [p -> Nat]
  BY DEF Record
<1>2. Product(r.reserve) \in Nat
  <2> DEFINE f == r.reserve
  <2>1. DOMAIN f = p /\ \A t \in p : f[t] \in Nat /\ f[t] <= f[t]
    BY <1>1
  <2> HIDE DEF f
  <2>2. Product(f) \in Nat
    BY <2>1, ProductMonotone
  <2> QED BY <2>2 DEF f
<1>3. k \in Nat /\ l \in Nat
  BY <1>1, <1>2, RootType
<1>4. FeeOwed(r) = IF feeTo # Zero /\ r.kLast # 0 /\ k > l THEN (n * (k - l)) \div (k * 5 + l) ELSE 0
  BY DEF FeeOwed
<1> HIDE DEF n, k, l
<1>5. CASE feeTo # Zero /\ r.kLast # 0 /\ k > l
  <2> DEFINE a == n * (k - l)  b == k * 5 + l
  <2>1. k - l \in Nat /\ b \in Nat /\ b > 0
    BY <1>3, <1>5
  <2>2. a \in Nat
    BY <1>1, <2>1 DEF n
  <2>3. n = 0 => a = 0
    BY <2>1
  <2>4. FeeOwed(r) = a \div b
    BY <1>4, <1>5
  <2> HIDE DEF a, b
  <2>5. a \div b \in Nat /\ (a = 0 => a \div b = 0)
    BY <2>1, <2>2
  <2> QED BY <2>3, <2>4, <2>5 DEF n
<1>6. CASE ~(feeTo # Zero /\ r.kLast # 0 /\ k > l)
  BY <1>4, <1>6
<1> QED BY <1>5, <1>6

(* A product grows with its factor and with a square.                      *)
LEMMA SquaresGrow ==
  ASSUME NEW k \in Nat, NEW m \in Nat, k >= m, NEW a \in Nat, NEW b \in Nat, a >= b
  PROVE  k * a * a >= m * b * b
<1>1. k * a \in Nat /\ m * b \in Nat /\ k * a >= m * b
  BY TimesMonotone
<1> DEFINE u == k * a  v == m * b
<1> HIDE DEF u, v
<1>2. u * a >= v * b
  BY <1>1, TimesMonotone DEF u, v
<1> QED BY <1>2 DEF u, v

(* A pair whose supply stays and whose product of reserves does not fall:  *)
(* no share loses value.                                                   *)
LEMMA QuietPair ==
  ASSUME NEW p \in Pair, NEW r \in Record(p), SharesOK(r), NEW r2 \in Record(p), SharesOK(r2),
         r2.totalSupply = r.totalSupply, Product(r2.reserve) >= Product(r.reserve),
         Product(r.reserve) \in Nat, Product(r2.reserve) \in Nat
  PROVE  PairStep(r, r2)
<1> DEFINE n == r.totalSupply  f == FeeOwed(r)  k == Product(r.reserve)  m == Product(r2.reserve)
<1>1. n \in Nat /\ f \in Nat
  BY FeeOwedType DEF Record
<1>2. n > 0 => k > 0
  BY DEF SharesOK
<1>3. m \in Nat /\ k \in Nat /\ m >= k
  OBVIOUS
<1>4. m * (n + f) * (n + f) >= k * n * n
  <2> HIDE DEF n, f, k, m
  <2>1. n + f \in Nat /\ n + f >= n
    BY <1>1
  <2> QED BY <1>1, <1>3, <2>1, SquaresGrow
<1>5. n > 0 => m > 0
  <2> HIDE DEF n, k, m
  <2> QED BY <1>2, <1>3
<1> QED BY <1>4, <1>5 DEF PairStep

(* So a quiet step is one that the properties of the pairs allow.          *)
LEMMA QuietMoves ==
  ASSUME NEW s, NEW x, Good(s), Quiet(s, x)
  PROVE  Moves(s, x)
<1> SUFFICES ASSUME NEW p \in DOMAIN s.pool PROVE PairStep(s.pool[p], x.pool[p])
  BY DEF Quiet, Moves
<1>1. Good(x) /\ p \in DOMAIN x.pool /\ IsState(s) /\ IsState(x)
  BY DEF Quiet, Grows, Good
<1>2. /\ p \in Pair /\ s.pool[p] \in Record(p) /\ x.pool[p] \in Record(p)
      /\ Product(s.pool[p].reserve) \in Nat /\ Product(x.pool[p].reserve) \in Nat
  BY <1>1, PairTypes
<1>3. SharesOK(s.pool[p]) /\ SharesOK(x.pool[p])
  BY <1>1 DEF Good
<1>4. x.pool[p].totalSupply = s.pool[p].totalSupply /\ Product(x.pool[p].reserve) >= Product(s.pool[p].reserve)
  BY DEF Quiet
<1> QED BY <1>2, <1>3, <1>4, QuietPair

-----------------------------------------------------------------------------
(* Shares that are minted, for a caller or for the protocol.               *)
SharesAdd(r) == SumFunctionOnSet(r.balanceOf, Holder) = r.totalSupply

(* _mint adds to one balance and to the supply.                            *)
LEMMA MintOne ==
  ASSUME NEW p \in Pair, NEW r \in Record(p), SharesAdd(r), NEW to \in Holder, NEW value \in Nat
  PROVE  /\ _mint(r, to, value) \in Record(p) /\ SharesAdd(_mint(r, to, value))
         /\ _mint(r, to, value).reserve = r.reserve /\ _mint(r, to, value).kLast = r.kLast
         /\ _mint(r, to, value).totalSupply = r.totalSupply + value
         /\ \A h \in Holder : _mint(r, to, value).balanceOf[h] = r.balanceOf[h] + (IF h = to THEN value ELSE 0)
<1> DEFINE m == _mint(r, to, value)
           v == r.balanceOf
           w == [v EXCEPT ![to] = @ + value]
<1>1. v \in [Holder -> Nat] /\ r.totalSupply \in Nat /\ r.reserve \in [p -> Nat] /\ r.kLast \in Nat
  BY DEF Record
<1>2. m = [r EXCEPT !.totalSupply = r.totalSupply + value, !.balanceOf = w]
  BY DEF _mint
<1>3. m.reserve = r.reserve /\ m.kLast = r.kLast /\ m.totalSupply = r.totalSupply + value /\ m.balanceOf = w
  <2> HIDE DEF w, m
  <2> QED BY <1>2 DEF Record
<1>4. w \in [Holder -> Nat] /\ \A h \in Holder : w[h] = v[h] + (IF h = to THEN value ELSE 0)
  BY <1>1
<1>5. m \in Record(p)
  <2> DEFINE n == r.totalSupply + value
  <2>1. n \in Nat /\ w \in [Holder -> Nat]
    BY <1>1, <1>4
  <2>2. m = [r EXCEPT !.totalSupply = n, !.balanceOf = w]
    BY <1>2
  <2> HIDE DEF w, m, v, n
  <2>3. r \in [reserve : [p -> Nat], kLast : Nat, totalSupply : Nat, balanceOf : [Holder -> Nat]]
    BY DEF Record
  <2>4. [r EXCEPT !.totalSupply = n] \in [reserve : [p -> Nat], kLast : Nat, totalSupply : Nat, balanceOf : [Holder -> Nat]]
    BY <2>1, <2>3
  <2> DEFINE q == [r EXCEPT !.totalSupply = n]
  <2>5. m = [q EXCEPT !.balanceOf = w]
    BY <2>2
  <2> HIDE DEF q
  <2>6. m \in [reserve : [p -> Nat], kLast : Nat, totalSupply : Nat, balanceOf : [Holder -> Nat]]
    BY <2>1, <2>4, <2>5 DEF q
  <2> QED BY <2>6 DEF Record
<1>6. SumFunctionOnSet(w, Holder) = SumFunctionOnSet(v, Holder) - v[to] + w[to]
  <2>1. /\ \A y \in Holder : v[y] \in Int /\ w[y] \in Int
        /\ \A y \in Holder \ {to} : w[y] = v[y]
    BY <1>1, <1>4
  <2> HIDE DEF w, v
  <2> QED BY <2>1, HoldersFinite, SumUpdate
<1>7. SumFunctionOnSet(v, Holder) = r.totalSupply
  BY DEF SharesAdd
<1>8. SumFunctionOnSet(w, Holder) = r.totalSupply + value
  <2>1. w[to] = v[to] + value /\ v[to] \in Nat
    BY <1>1, <1>4
  <2> HIDE DEF w, v
  <2> QED BY <1>1, <1>6, <1>7, <2>1
<1> HIDE DEF m
<1>9. SharesAdd(m)
  BY <1>3, <1>8 DEF SharesAdd
<1> QED BY <1>3, <1>4, <1>5, <1>9 DEF m

(* _mintFee mints FeeOwed to feeTo and nothing else, and forgets kLast     *)
(* when there is no fee.                                                   *)
LEMMA MintFee ==
  ASSUME NEW p \in Pair, NEW r \in Record(p), SharesAdd(r), feeTo \in Account
  PROVE  /\ _mintFee(r) \in Record(p) /\ SharesAdd(_mintFee(r)) /\ _mintFee(r).reserve = r.reserve
         /\ _mintFee(r).totalSupply = r.totalSupply + FeeOwed(r)
         /\ feeTo = Zero => _mintFee(r).kLast = 0
         /\ \A h \in Pair : _mintFee(r).balanceOf[h] = r.balanceOf[h]
         /\ _mintFee(r).balanceOf[Zero] >= r.balanceOf[Zero]
<1>1. FeeOwed(r) \in Nat
  BY FeeOwedType
<1>2. \A h \in Holder : r.balanceOf[h] \in Nat
  BY DEF Record
<1>3. CASE feeTo = Zero
  <2>1. _mintFee(r) = [r EXCEPT !.kLast = 0] /\ FeeOwed(r) = 0
    BY <1>3 DEF _mintFee, FeeOwed
  <2> DEFINE m == [r EXCEPT !.kLast = 0]
  <2>2. /\ m \in Record(p) /\ m.reserve = r.reserve /\ m.totalSupply = r.totalSupply /\ m.kLast = 0
        /\ m.balanceOf = r.balanceOf /\ r.totalSupply \in Nat
    BY DEF Record
  <2>3. r.totalSupply + FeeOwed(r) = r.totalSupply
    BY <2>1, <2>2
  <2>4. r.balanceOf[Zero] \in Nat
    BY <1>2, HoldersFinite
  <2> HIDE DEF m
  <2> QED BY <2>1, <2>2, <2>3, <2>4 DEF SharesAdd, m
<1>4. CASE feeTo # Zero
  <2> DEFINE m == _mint(r, feeTo, FeeOwed(r))
  <2>1. _mintFee(r) = m
    BY <1>4 DEF _mintFee
  <2>2. feeTo \in Holder /\ feeTo \notin Pair /\ Zero \in Holder
    BY PairAssumption, HoldersFinite DEF Holder, Pair
  <2>3. /\ m \in Record(p) /\ SharesAdd(m) /\ m.reserve = r.reserve
        /\ m.totalSupply = r.totalSupply + FeeOwed(r)
        /\ \A h \in Holder : m.balanceOf[h] = r.balanceOf[h] + (IF h = feeTo THEN FeeOwed(r) ELSE 0)
    BY <1>1, <2>2, MintOne
  <2> HIDE DEF m
  <2>4. \A h \in Pair : m.balanceOf[h] = r.balanceOf[h]
    <3> TAKE h \in Pair
    <3>1. h \in Holder /\ h # feeTo
      BY <2>2, HoldersFinite
    <3>2. m.balanceOf[h] = r.balanceOf[h] + 0
      BY <2>3, <3>1
    <3>3. r.balanceOf[h] \in Nat
      BY <1>2, <3>1
    <3> QED BY <3>2, <3>3
  <2>5. m.balanceOf[Zero] >= r.balanceOf[Zero]
    <3>1. m.balanceOf[Zero] = r.balanceOf[Zero] + 0
      BY <1>4, <2>2, <2>3
    <3>2. r.balanceOf[Zero] \in Nat
      BY <1>2, <2>2
    <3> QED BY <3>1, <3>2
  <2> QED BY <1>4, <2>1, <2>3, <2>4, <2>5
<1> QED BY <1>3, <1>4

-----------------------------------------------------------------------------
(* How a mint and a burn end: the balances become the reserves, and the    *)
(* growth is counted from there.                                           *)
LEMMA SetKLastLeads ==
  ASSUME NEW y, IsState(y), NEW p \in DOMAIN y.pool, NEW x \in SetKLast(y, p)
  PROVE  /\ IsState(x) /\ x.wallet = y.wallet /\ DOMAIN x.pool = DOMAIN y.pool
         /\ x.pool[p].reserve = y.pool[p].reserve /\ x.pool[p].totalSupply = y.pool[p].totalSupply
         /\ x.pool[p].balanceOf = y.pool[p].balanceOf
         /\ x.pool[p].kLast = IF feeTo = Zero THEN y.pool[p].kLast ELSE Product(y.pool[p].reserve)
         /\ \A q \in DOMAIN y.pool : q # p => x.pool[q] = y.pool[q]
<1>1. CASE feeTo = Zero
  BY <1>1 DEF SetKLast
<1>2. CASE feeTo # Zero
  <2> DEFINE r == y.pool[p]
             k == Product(r.reserve)
             r2 == [r EXCEPT !.kLast = k]
  <2>1. x = [y EXCEPT !.pool[p].kLast = k]
    BY <1>2 DEF SetKLast
  <2>2. r \in Record(p) /\ k \in Nat
    BY PairTypes
  <2> HIDE DEF k
  <2>3. x = [y EXCEPT !.pool[p] = r2]
    BY <2>1
  <2> HIDE DEF r
  <2>4. r2 \in Record(p) /\ r2.reserve = r.reserve /\ r2.kLast = k /\ r2.totalSupply = r.totalSupply
        /\ r2.balanceOf = r.balanceOf
    BY <2>2 DEF Record
  <2> HIDE DEF r2
  <2>5. /\ IsState(x) /\ x.wallet = y.wallet /\ DOMAIN x.pool = DOMAIN y.pool /\ x.pool[p] = r2
        /\ \A q \in DOMAIN y.pool : q # p => x.pool[q] = y.pool[q]
    BY <2>3, <2>4, SetPair
  <2> QED BY <1>2, <2>4, <2>5 DEF k, r
<1> QED BY <1>1, <1>2

Finished(y, p) == Then(_update(y, p), LAMBDA z : SetKLast(z, p))

(* The end of mint and burn, _update and kLast: what the shares were worth *)
(* before, fee included, they are still worth.                             *)
LEMMA FinishLeads ==
  ASSUME NEW s, Good(s), NEW p \in DOMAIN s.pool, NEW y, IsState(y), DOMAIN y.pool = DOMAIN s.pool,
         \A q \in DOMAIN s.pool \ {p} : /\ y.pool[q] = s.pool[q]
                                        /\ \A b \in Asset : y.wallet[b][q] >= s.wallet[b][q],
         SharesAdd(y.pool[p]), feeTo = Zero => y.pool[p].kLast = 0,
         y.pool[p].totalSupply > 0 =>
           y.pool[p].balanceOf[Zero] >= MINIMUM_LIQUIDITY /\ Product(Balances(y, p)) > 0,
         NEW x \in Finished(y, p),
         s.pool[p].totalSupply > 0 =>
           /\ Product(Balances(y, p)) > 0
           /\ Product(Balances(y, p)) * (s.pool[p].totalSupply + FeeOwed(s.pool[p])) * (s.pool[p].totalSupply + FeeOwed(s.pool[p]))
                >= Product(s.pool[p].reserve) * y.pool[p].totalSupply * y.pool[p].totalSupply
  PROVE  Moves(s, x) /\ DOMAIN x.pool = DOMAIN s.pool
<1>1. PICK z \in _update(y, p) : x \in SetKLast(z, p)
  BY DEF Finished, Then
<1>2. /\ IsState(z) /\ z.wallet = y.wallet /\ DOMAIN z.pool = DOMAIN y.pool
      /\ z.pool[p].reserve = Balances(y, p) /\ z.pool[p].kLast = y.pool[p].kLast
      /\ z.pool[p].totalSupply = y.pool[p].totalSupply /\ z.pool[p].balanceOf = y.pool[p].balanceOf
      /\ \A q \in DOMAIN y.pool : q # p => z.pool[q] = y.pool[q]
  BY UpdateLeads
<1>3. \A q \in DOMAIN z.pool : Covered(z, q) /\ (q # p => SharesOK(z.pool[q]))
  BY CoveredAfter
<1>4. /\ IsState(x) /\ x.wallet = z.wallet /\ DOMAIN x.pool = DOMAIN z.pool
      /\ x.pool[p].reserve = z.pool[p].reserve /\ x.pool[p].totalSupply = z.pool[p].totalSupply
      /\ x.pool[p].balanceOf = z.pool[p].balanceOf
      /\ x.pool[p].kLast = IF feeTo = Zero THEN z.pool[p].kLast ELSE Product(z.pool[p].reserve)
      /\ \A q \in DOMAIN z.pool : q # p => x.pool[q] = z.pool[q]
  BY <1>1, <1>2, SetKLastLeads
<1>5. Product(x.pool[p].reserve) \in Nat
  BY <1>2, <1>4, PairTypes
<1>6. x.pool[p].kLast \in {0, Product(x.pool[p].reserve)}
  BY <1>2, <1>4
<1>7. SharesOK(x.pool[p])
  BY <1>2, <1>4, <1>5, <1>6 DEF SharesOK, SharesAdd
<1>8. Good(x)
  <2>1. ASSUME NEW q \in DOMAIN x.pool PROVE SharesOK(x.pool[q]) /\ Covered(x, q)
    <3>1. Covered(x, q)
      <4>1. x.pool[q].reserve = z.pool[q].reserve
        BY <1>4
      <4> QED BY <1>3, <1>4, <4>1 DEF Covered
    <3> QED BY <1>3, <1>4, <1>7, <3>1
  <2> QED BY <1>4, <2>1 DEF Good
<1>9. ASSUME NEW q \in DOMAIN s.pool, q # p PROVE PairStep(s.pool[q], x.pool[q])
  <2>1. x.pool[q] = s.pool[q]
    BY <1>2, <1>4, <1>9
  <2>2. /\ q \in Pair /\ s.pool[q] \in Record(q) /\ Product(s.pool[q].reserve) \in Nat /\ SharesOK(s.pool[q])
    BY PairTypes DEF Good
  <2>3. PairStep(s.pool[q], s.pool[q])
    <3>1. Product(s.pool[q].reserve) >= Product(s.pool[q].reserve)
      BY <2>2
    <3> QED BY <2>2, <3>1, QuietPair
  <2> QED BY <2>1, <2>3
<1>10. PairStep(s.pool[p], x.pool[p])
  BY <1>2, <1>4, <1>6 DEF PairStep
<1> QED BY <1>2, <1>4, <1>8, <1>9, <1>10 DEF Moves, Grows

(* Shares minted in proportion are worth no less than what is added.       *)
LEMMA MintArithmetic ==
  ASSUME NEW a \in Nat \ {0}, NEW b \in Nat \ {0}, NEW c \in Nat, NEW d \in Nat, NEW n \in Nat, NEW l \in Nat,
         l <= (c * n) \div a, l <= (d * n) \div b
  PROVE  ((a + c) * (b + d)) * n * n >= (a * b) * (n + l) * (n + l)
<1>1. ASSUME NEW x \in Nat \ {0}, NEW y \in Nat, l <= (y * n) \div x PROVE x * (n + l) <= (x + y) * n
  <2> DEFINE e == y * n
  <2>1. e \in Nat
    OBVIOUS
  <2>2. l * x <= e
    <3> HIDE DEF e
    <3>1. l <= e \div x
      BY <1>1 DEF e
    <3>2. (e \div x) * x <= e /\ e \div x \in Nat
      BY <2>1
    <3>3. l * x <= (e \div x) * x /\ l * x \in Nat /\ (e \div x) * x \in Nat
      BY <3>1, <3>2, TimesMonotone
    <3> QED BY <2>1, <3>2, <3>3
  <2>3. x * (n + l) = x * n + l * x /\ (x + y) * n = x * n + e
    OBVIOUS
  <2>4. x * n \in Nat /\ l * x \in Nat
    OBVIOUS
  <2> DEFINE u == x * n  v == l * x
  <2> HIDE DEF e, u, v
  <2>5. u + v <= u + e
    BY <2>1, <2>2, <2>4 DEF u, v
  <2> QED BY <2>3, <2>5 DEF u, v
<1> DEFINE A == a * (n + l)  B == b * (n + l)  C == (a + c) * n  D == (b + d) * n
<1>2. A <= C /\ B <= D
  BY <1>1
<1>3. A \in Nat /\ B \in Nat /\ C \in Nat /\ D \in Nat
  OBVIOUS
<1>4. A * B <= C * D
  <2> HIDE DEF A, B, C, D
  <2> QED BY <1>2, <1>3, TimesMonotone
<1>5. A * B = (a * b) * (n + l) * (n + l)
  <2> DEFINE k == n + l
  <2>1. k \in Nat
    OBVIOUS
  <2> HIDE DEF k
  <2>2. (a * k) * (b * k) = (a * b) * k * k
    BY <2>1
  <2> QED BY <2>2 DEF k
<1>6. C * D = ((a + c) * (b + d)) * n * n
  <2> DEFINE x == a + c  y == b + d
  <2>1. x \in Nat /\ y \in Nat
    OBVIOUS
  <2> HIDE DEF x, y
  <2>2. (x * n) * (y * n) = (x * y) * n * n
    BY <2>1
  <2> QED BY <2>2 DEF x, y
<1>7. A * B \in Nat /\ C * D \in Nat
  BY <1>3, TimesMonotone
<1> HIDE DEF A, B, C, D
<1> QED BY <1>4, <1>5, <1>6, <1>7

(* Liquidity: in proportion, and none for a deposit without product.       *)
LEMMA LiquidityProportional ==
  ASSUME NEW p \in Pair, NEW r, r.totalSupply \in Nat \ {0}, NEW amount \in [p -> Nat],
         r.reserve \in [p -> Nat], \A t \in p : r.reserve[t] > 0
  PROVE  Liquidity(r, amount) \in Int /\ \A t \in p : Liquidity(r, amount) <= (amount[t] * r.totalSupply) \div r.reserve[t]
<1>1. PICK a \in Token, b \in Token : a # b /\ p = {a, b}
  BY PairIsTwo
<1> DEFINE n == r.totalSupply  f == r.reserve
           g(t) == (amount[t] * n) \div f[t]
<1>2. Liquidity(r, amount) = Min({g(t) : t \in DOMAIN amount})
  BY DEF Liquidity
<1>3. \A t \in p : g(t) \in Int
  <2> TAKE t \in p
  <2>1. amount[t] \in Nat /\ n \in Nat /\ f[t] \in Nat /\ f[t] > 0
    OBVIOUS
  <2> DEFINE u == amount[t]  v == f[t]
  <2> HIDE DEF u, v, n
  <2>2. (u * n) \div v \in Int
    BY <2>1 DEF u, v
  <2> QED BY <2>2 DEF u, v
<1>4. DOMAIN amount = p
  OBVIOUS
<1> HIDE DEF g
<1>5. {g(t) : t \in DOMAIN amount} = {g(a), g(b)}
  BY <1>1, <1>4
<1>6. g(a) \in Int /\ g(b) \in Int
  BY <1>1, <1>3
<1>7. Min({g(a), g(b)}) \in Int /\ Min({g(a), g(b)}) <= g(a) /\ Min({g(a), g(b)}) <= g(b)
  BY <1>6, MinOfPair
<1>8. Liquidity(r, amount) \in Int /\ \A t \in p : Liquidity(r, amount) <= g(t)
  BY <1>1, <1>2, <1>5, <1>7
<1> QED BY <1>8 DEF g

(* The first liquidity of a pair is of both tokens.                        *)
LEMMA LiquidityFirst ==
  ASSUME NEW p \in Pair, NEW r, r.totalSupply = 0, NEW amount \in [p -> Nat], Liquidity(r, amount) > 0
  PROVE  Liquidity(r, amount) \in Int /\ \A t \in p : amount[t] > 0
<1> DEFINE k == Product(amount)
<1>1. DOMAIN amount = p /\ \A t \in p : amount[t] \in Nat /\ amount[t] <= amount[t]
  OBVIOUS
<1>2. k \in Nat
  BY <1>1, ProductMonotone
<1>3. Liquidity(r, amount) = sqrt(k) - MINIMUM_LIQUIDITY
  BY DEF Liquidity
<1>4. sqrt(k) \in Nat /\ (k = 0 => sqrt(k) = 0)
  BY <1>2, RootType
<1>5. MINIMUM_LIQUIDITY \in Nat \ {0}
  BY PairAssumption
<1>6. k > 0
  <2> HIDE DEF k
  <2> QED BY <1>2, <1>3, <1>4, <1>5
<1>7. \A t \in p : amount[t] > 0
  BY <1>1, <1>6, ProductPositive
<1> HIDE DEF k
<1> QED BY <1>3, <1>4, <1>5, <1>7

(* mint (SherwoodV2Pair.sol): the new shares, and the protocol's, take no  *)
(* value from those there were, and the growth of trading is counted from  *)
(* the new product.                                                        *)
THEOREM MintLeads ==
  ASSUME NEW s, Good(s), feeTo \in Account, NEW p \in DOMAIN s.pool, NEW to \in Holder, NEW x \in mint(s, p, to)
  PROVE  Moves(s, x) /\ DOMAIN x.pool = DOMAIN s.pool
<1> DEFINE old == s.pool[p]
           amount == [t \in p |-> s.wallet[t][p] - old.reserve[t]]
           r == _mintFee(old)
           l == Liquidity(r, amount)
           minimum == IF r.totalSupply = 0 THEN MINIMUM_LIQUIDITY ELSE 0
           first == _mint(r, Zero, minimum)
           minted == _mint(first, to, l)
           y == [s EXCEPT !.pool[p] = minted]
<1>1. /\ \A t \in p : amount[t] >= 0
      /\ l > 0
      /\ x \in Finished(y, p)
  BY DEF mint, Finished
<1>2. /\ IsState(s) /\ p \in Pair /\ old \in Record(p) /\ SharesOK(old)
      /\ old.reserve \in [p -> Nat] /\ Product(old.reserve) \in Nat /\ old.totalSupply \in Nat
      /\ old.balanceOf \in [Holder -> Nat]
      /\ \A t \in p : s.wallet[t][p] \in Nat /\ old.reserve[t] \in Nat
  BY PairTypes DEF Good
<1>3. amount \in [p -> Nat] /\ \A t \in p : s.wallet[t][p] = old.reserve[t] + amount[t] /\ amount[t] \in Nat
  <2>1. \A t \in p : amount[t] \in Nat /\ s.wallet[t][p] = old.reserve[t] + amount[t]
    <3> TAKE t \in p
    <3> DEFINE u == s.wallet[t][p]  v == old.reserve[t]
    <3>1. u \in Nat /\ v \in Nat /\ u - v >= 0
      BY <1>1, <1>2
    <3>2. u - v \in Nat /\ u = v + (u - v)
      <4> HIDE DEF u, v
      <4> QED BY <3>1
    <3> QED BY <3>2
  <2> QED BY <2>1
<1>4. /\ r \in Record(p) /\ SharesAdd(r) /\ r.reserve = old.reserve
      /\ r.totalSupply = old.totalSupply + FeeOwed(old)
      /\ (feeTo = Zero => r.kLast = 0)
      /\ r.balanceOf[Zero] >= old.balanceOf[Zero]
  <2>1. SharesAdd(old)
    BY <1>2 DEF SharesOK, SharesAdd
  <2> QED BY <1>2, <2>1, MintFee
<1>5. FeeOwed(old) \in Nat /\ (old.totalSupply = 0 => FeeOwed(old) = 0)
  BY <1>2, FeeOwedType
<1>6. r.totalSupply \in Nat /\ r.balanceOf \in [Holder -> Nat] /\ (r.totalSupply = 0 <=> old.totalSupply = 0)
  BY <1>2, <1>4, <1>5 DEF Record
<1>7. MINIMUM_LIQUIDITY \in Nat \ {0} /\ minimum \in Nat /\ Zero \in Holder
  BY PairAssumption, HoldersFinite
<1> DEFINE full == old.totalSupply > 0
<1>8. full => \A t \in p : old.reserve[t] > 0
  <2>1. DOMAIN old.reserve = p /\ (full => Product(old.reserve) > 0)
    BY <1>2 DEF SharesOK
  <2> HIDE DEF old, full
  <2> QED BY <1>2, <2>1, ProductPositive
<1>9. l \in Nat
  <2>1. CASE r.totalSupply = 0
    <3> HIDE DEF amount, r
    <3>1. l \in Int
      BY <1>1, <1>2, <1>3, <2>1, LiquidityFirst
    <3> QED BY <1>1, <3>1
  <2>2. CASE r.totalSupply # 0
    <3>1. \A t \in p : r.reserve[t] > 0
      BY <1>2, <1>4, <1>6, <1>8, <2>2
    <3>2. r.reserve \in [p -> Nat]
      BY <1>2, <1>4
    <3> HIDE DEF amount, r
    <3>3. l \in Int
      BY <1>2, <1>3, <1>6, <2>2, <3>1, <3>2, LiquidityProportional
    <3> QED BY <1>1, <3>3
  <2> QED BY <2>1, <2>2
<1> HIDE DEF amount, r, l, minimum
<1>10. /\ first \in Record(p) /\ SharesAdd(first) /\ first.reserve = r.reserve /\ first.kLast = r.kLast
       /\ first.totalSupply = r.totalSupply + minimum
       /\ first.balanceOf[Zero] = r.balanceOf[Zero] + minimum
  <2>1. /\ first \in Record(p) /\ SharesAdd(first) /\ first.reserve = r.reserve /\ first.kLast = r.kLast
        /\ first.totalSupply = r.totalSupply + minimum
        /\ \A h \in Holder : first.balanceOf[h] = r.balanceOf[h] + (IF h = Zero THEN minimum ELSE 0)
    <3>1. p \in Pair /\ r \in Record(p) /\ SharesAdd(r) /\ minimum \in Nat /\ Zero \in Holder
      BY <1>2, <1>4, <1>7
    <3> QED BY <3>1, MintOne
  <2> HIDE DEF first
  <2> QED BY <1>7, <2>1
<1> HIDE DEF first
<1>11. /\ minted \in Record(p) /\ SharesAdd(minted) /\ minted.reserve = r.reserve /\ minted.kLast = r.kLast
       /\ minted.totalSupply = first.totalSupply + l
       /\ minted.balanceOf[Zero] = first.balanceOf[Zero] + (IF Zero = to THEN l ELSE 0)
  <2>1. /\ minted \in Record(p) /\ SharesAdd(minted) /\ minted.reserve = first.reserve /\ minted.kLast = first.kLast
        /\ minted.totalSupply = first.totalSupply + l
        /\ \A h \in Holder : minted.balanceOf[h] = first.balanceOf[h] + (IF h = to THEN l ELSE 0)
    BY <1>2, <1>9, <1>10, MintOne
  <2> HIDE DEF minted
  <2> QED BY <1>7, <1>10, <2>1
<1> HIDE DEF minted
<1>12. /\ IsState(y) /\ y.wallet = s.wallet /\ DOMAIN y.pool = DOMAIN s.pool /\ y.pool[p] = minted
       /\ \A q \in DOMAIN s.pool : q # p => y.pool[q] = s.pool[q]
  BY <1>2, <1>11, SetPair
<1> HIDE DEF y
<1> DEFINE balances == Balances(y, p)
<1>13. balances \in [p -> Nat] /\ DOMAIN balances = p
       /\ \A t \in p : balances[t] = old.reserve[t] + amount[t] /\ balances[t] \in Nat
  BY <1>2, <1>3, <1>12 DEF Balances
<1>14. Product(balances) > 0
  <2>1. \A t \in p : balances[t] > 0
    <3>1. CASE full
      <4> SUFFICES ASSUME NEW t \in p PROVE balances[t] > 0
        OBVIOUS
      <4> DEFINE u == old.reserve[t]  v == amount[t]
      <4>1. balances[t] = u + v /\ u \in Nat /\ v \in Nat /\ u > 0
        BY <1>2, <1>3, <1>8, <1>13, <3>1
      <4> HIDE DEF u, v, balances
      <4> QED BY <4>1
    <3>2. CASE ~full
      <4>1. r.totalSupply = 0
        BY <1>2, <1>6, <3>2
      <4>2. \A t \in p : amount[t] > 0
        BY <1>1, <1>2, <1>3, <4>1, LiquidityFirst DEF l
      <4> SUFFICES ASSUME NEW t \in p PROVE balances[t] > 0
        OBVIOUS
      <4> DEFINE u == old.reserve[t]  v == amount[t]
      <4>3. balances[t] = u + v /\ u \in Nat /\ v \in Nat /\ v > 0
        BY <1>2, <1>3, <1>13, <4>2
      <4> HIDE DEF u, v, balances
      <4> QED BY <4>3
    <3> QED BY <3>1, <3>2
  <2> HIDE DEF balances
  <2> QED BY <1>2, <1>13, <2>1, ProductPositive
<1>15. minted.balanceOf[Zero] >= MINIMUM_LIQUIDITY
  <2> DEFINE z0 == old.balanceOf[Zero]  z1 == r.balanceOf[Zero]  z2 == minted.balanceOf[Zero]
  <2>1. z0 \in Nat /\ z1 \in Nat /\ z1 >= z0
    BY <1>2, <1>4, <1>6, <1>7
  <2>2. full => z0 >= MINIMUM_LIQUIDITY
    BY <1>2 DEF SharesOK
  <2>3. ~full => minimum = MINIMUM_LIQUIDITY
    BY <1>2, <1>6 DEF minimum
  <2>4. z2 = z1 + minimum + (IF Zero = to THEN l ELSE 0)
    BY <1>10, <1>11
  <2> HIDE DEF z0, z1, z2, full
  <2>5. z2 >= MINIMUM_LIQUIDITY
    BY <1>7, <1>9, <2>1, <2>2, <2>3, <2>4
  <2> QED BY <2>5 DEF z2
<1>16. ASSUME full
       PROVE  Product(balances) * r.totalSupply * r.totalSupply
                >= Product(old.reserve) * minted.totalSupply * minted.totalSupply
  <2>1. PICK a \in Token, b \in Token : a # b /\ p = {a, b}
    BY <1>2, PairIsTwo
  <2> DEFINE u == old.reserve[a]  v == old.reserve[b]  c == amount[a]  d == amount[b]  n == r.totalSupply
  <2>2. u \in Nat \ {0} /\ v \in Nat \ {0} /\ c \in Nat /\ d \in Nat /\ n \in Nat /\ n # 0
    BY <1>2, <1>3, <1>6, <1>8, <1>16, <2>1
  <2>3. Product(old.reserve) = u * v
    <3> DEFINE f == old.reserve
    <3>1. DOMAIN f = p /\ \A t \in p : f[t] \in Int
      BY <1>2
    <3> HIDE DEF f
    <3>2. Product(f) = f[a] * f[b]
      BY <1>2, <2>1, <3>1, ProductOf
    <3> QED BY <3>2 DEF f
  <2>4. Product(balances) = (u + c) * (v + d)
    <3>1. \A t \in p : balances[t] \in Int
      BY <1>13
    <3> HIDE DEF balances
    <3>2. Product(balances) = balances[a] * balances[b]
      BY <1>2, <1>13, <2>1, <3>1, ProductOf
    <3> QED BY <1>13, <2>1, <3>2
  <2>5. minted.totalSupply = n + l
    <3>1. minimum = 0
      BY <2>2 DEF minimum
    <3>2. minted.totalSupply = n + minimum + l
      BY <1>10, <1>11
    <3> HIDE DEF n
    <3> QED BY <1>9, <2>2, <3>1, <3>2
  <2>6. l <= (c * n) \div u /\ l <= (d * n) \div v
    <3>1. \A t \in p : r.reserve[t] > 0
      BY <1>4, <1>8, <1>16
    <3>2. r.reserve \in [p -> Nat]
      BY <1>2, <1>4
    <3>3. \A t \in p : l <= (amount[t] * r.totalSupply) \div r.reserve[t]
      BY <1>2, <1>3, <1>6, <2>2, <3>1, <3>2, LiquidityProportional DEF l
    <3> QED BY <1>4, <2>1, <3>3
  <2>7. ((u + c) * (v + d)) * n * n >= (u * v) * (n + l) * (n + l)
    <3> HIDE DEF u, v, c, d, n
    <3> QED BY <1>9, <2>2, <2>6, MintArithmetic
  <2> HIDE DEF balances, u, v, c, d
  <2> QED BY <2>3, <2>4, <2>5, <2>7
<1>17. \A q \in DOMAIN s.pool \ {p} : /\ y.pool[q] = s.pool[q]
                                      /\ \A b \in Asset : y.wallet[b][q] >= s.wallet[b][q]
  <2> TAKE q \in DOMAIN s.pool \ {p}
  <2>1. q \in Holder
    BY <1>2, HoldersFinite DEF IsState
  <2>2. \A b \in Asset : s.wallet[b][q] \in Nat
    BY <1>2, <2>1 DEF IsState
  <2> QED BY <1>12, <2>2
<1> HIDE DEF old
<1>18. Moves(s, x) /\ DOMAIN x.pool = DOMAIN s.pool
  <2>1. x \in Finished(y, p)
    BY <1>1 DEF y, minted, first, minimum, r, l, amount, old
  <2>2. /\ SharesAdd(y.pool[p]) /\ (feeTo = Zero => y.pool[p].kLast = 0)
        /\ y.pool[p].balanceOf[Zero] >= MINIMUM_LIQUIDITY /\ Product(Balances(y, p)) > 0
    BY <1>4, <1>11, <1>12, <1>14, <1>15
  <2>3. s.pool[p].totalSupply > 0 =>
          Product(Balances(y, p)) * (s.pool[p].totalSupply + FeeOwed(s.pool[p])) * (s.pool[p].totalSupply + FeeOwed(s.pool[p]))
            >= Product(s.pool[p].reserve) * y.pool[p].totalSupply * y.pool[p].totalSupply
    BY <1>4, <1>12, <1>16 DEF old
  <2> HIDE DEF balances, full
  <2> QED BY <1>12, <1>17, <2>1, <2>2, <2>3, FinishLeads
<1> QED BY <1>18

-----------------------------------------------------------------------------
(* What a burn leaves for each share: of one token, and of the two.        *)
LEMMA BurnLeaves ==
  ASSUME NEW n \in Nat \ {0}, NEW l \in Nat, l <= n, NEW b \in Nat, NEW c \in Nat, NEW r \in Nat, r <= b,
         c >= b - (l * b) \div n
  PROVE  r * (n - l) <= c * n
<1> DEFINE e == l * b
           d == e \div n
<1>1. e \in Nat
  OBVIOUS
<1>2. d \in Nat /\ d * n <= e
  <2> HIDE DEF e
  <2> QED BY <1>1
<1>3. c >= b - d
  OBVIOUS
<1>4. b <= c + d
  <2> HIDE DEF d
  <2> QED BY <1>2, <1>3
<1>5. b * n <= (c + d) * n
  <2> HIDE DEF d
  <2>1. c + d \in Nat /\ n \in Nat /\ n <= n
    BY <1>2
  <2> QED BY <1>4, <2>1, TimesMonotone
<1>6. (c + d) * n = c * n + d * n
  <2> HIDE DEF d
  <2> QED BY <1>2
<1>7. b * (n - l) = b * n - e
  OBVIOUS
<1>8. r * (n - l) <= b * (n - l)
  <2>1. n - l \in Nat /\ n - l <= n - l
    OBVIOUS
  <2> DEFINE k == n - l
  <2> HIDE DEF k
  <2> QED BY <2>1, TimesMonotone DEF k
<1>9. b * n \in Nat /\ c * n \in Nat /\ d * n \in Nat /\ r * (n - l) \in Int /\ b * (n - l) \in Int
  BY <1>2
<1> DEFINE u == b * n  v == c * n  w == d * n  x == r * (n - l)  y == b * (n - l)
<1> HIDE DEF d, e, u, v, w, x, y
<1>10. u \in Nat /\ v \in Nat /\ w \in Nat /\ x \in Int /\ y \in Int /\ w <= e /\ u <= v + w /\ y = u - e /\ x <= y
  BY <1>2, <1>5, <1>6, <1>7, <1>8, <1>9 DEF u, v, w, x, y
<1>11. x <= v
  BY <1>1, <1>10
<1> QED BY <1>11 DEF x, v

(* Shares taken out in proportion, rounded down: what is left per share,   *)
(* squared, is no less.                                                    *)
LEMMA BurnArithmetic ==
  ASSUME NEW n \in Nat, NEW m \in Nat, NEW q \in Nat, NEW r \in Nat, NEW c \in Nat, NEW d \in Nat,
         q * m <= c * n, r * m <= d * n
  PROVE  (c * d) * n * n >= (q * r) * m * m
<1>1. q * m \in Nat /\ r * m \in Nat /\ c * n \in Nat /\ d * n \in Nat
  OBVIOUS
<1>2. (q * m) * (r * m) <= (c * n) * (d * n)
  <2> DEFINE x == q * m  y == r * m  u == c * n  v == d * n
  <2> HIDE DEF x, y, u, v
  <2>1. x * y <= u * v
    BY <1>1, TimesMonotone DEF x, y, u, v
  <2> QED BY <2>1 DEF x, y, u, v
<1>3. (q * m) * (r * m) = (q * r) * m * m
  OBVIOUS
<1>4. (c * n) * (d * n) = (c * d) * n * n
  OBVIOUS
<1> DEFINE x == (q * r) * m * m  y == (c * d) * n * n
<1>5. x \in Int /\ y \in Int
  OBVIOUS
<1>6. x <= y
  BY <1>2, <1>3, <1>4
<1> HIDE DEF x, y
<1>7. y >= x
  BY <1>5, <1>6
<1> QED BY <1>7 DEF x, y

(* Locked shares are not the pair's to burn.                               *)
LEMMA LockedApart ==
  ASSUME NEW p \in Pair, NEW r \in Record(p), SharesAdd(r)
  PROVE  r.balanceOf[p] + r.balanceOf[Zero] <= r.totalSupply
<1> DEFINE v == r.balanceOf  S == Holder \ {p}
<1>1. \A h \in Holder : v[h] \in Nat
  BY DEF Record
<1>2. p \in Holder /\ Zero \in S /\ IsFiniteSet(Holder)
  BY HoldersFinite
<1>3. r.totalSupply = SumFunctionOnSet(v, Holder)
  BY DEF SharesAdd
<1> HIDE DEF v
<1>4. IsFiniteSet(S)
  BY <1>2, FS_RemoveElement
<1>5. \A h \in Holder : v[h] \in Int
  BY <1>1
<1>6. SumFunctionOnSet(v, Holder) = v[p] + SumFunctionOnSet(v, S)
  BY <1>2, <1>5, SumRemove
<1>7. \A h \in S : v[h] \in Nat
  BY <1>1
<1> HIDE DEF S
<1>8. v[Zero] <= SumFunctionOnSet(v, S) /\ SumFunctionOnSet(v, S) \in Nat
  BY <1>2, <1>4, <1>7, SumBound, SumNat
<1>9. v[p] \in Nat /\ v[Zero] \in Nat
  BY <1>1, <1>2, HoldersFinite
<1>10. v[p] + v[Zero] <= SumFunctionOnSet(v, Holder)
  BY <1>6, <1>8, <1>9
<1> QED BY <1>3, <1>10 DEF v

(* The record that a burn leaves.                                          *)
WithoutShares(r, p, l) == [r EXCEPT !.balanceOf[p] = @ - l, !.totalSupply = @ - l]

(* The pair's record when its own shares are burnt. Those locked at Zero   *)
(* are not among them.                                                     *)
LEMMA BurntRecord ==
  ASSUME NEW p \in Pair, NEW r \in Record(p), SharesAdd(r), NEW l \in Nat, l = r.balanceOf[p],
         NEW b, b = WithoutShares(r, p, l)
  PROVE  /\ b \in Record(p) /\ SharesAdd(b) /\ b.reserve = r.reserve /\ b.kLast = r.kLast
         /\ b.totalSupply = r.totalSupply - l /\ l + r.balanceOf[Zero] <= r.totalSupply
         /\ b.balanceOf[Zero] = r.balanceOf[Zero]
<1> DEFINE v == r.balanceOf
           w == [v EXCEPT ![p] = @ - l]
           n == r.totalSupply - l
           q == [r EXCEPT !.balanceOf = w]
<1>1. v \in [Holder -> Nat] /\ r.totalSupply \in Nat /\ p \in Holder /\ Zero \in Holder /\ p # Zero
  BY HoldersFinite DEF Record
<1>2. v[p] - l = 0 /\ v[p] \in Nat
  BY <1>1
<1>3. w \in [Holder -> Nat] /\ \A h \in Holder : w[h] = IF h = p THEN 0 ELSE v[h]
  BY <1>1, <1>2
<1>4. l + v[Zero] <= r.totalSupply
  BY LockedApart
<1>5. n \in Nat
  <2>1. v[Zero] \in Nat
    BY <1>1
  <2> HIDE DEF v
  <2> QED BY <1>1, <1>4, <2>1
<1>6. b = [q EXCEPT !.totalSupply = n]
  <2> HIDE DEF w
  <2>1. b = [[r EXCEPT !.balanceOf = w] EXCEPT !.totalSupply = n]
    BY DEF w, WithoutShares
  <2> QED BY <2>1
<1>7. q \in Record(p) /\ q.balanceOf = w /\ q.reserve = r.reserve /\ q.kLast = r.kLast
  <2> HIDE DEF w, v
  <2> QED BY <1>3 DEF Record
<1> HIDE DEF q
<1>8. b \in Record(p) /\ b.balanceOf = w /\ b.reserve = r.reserve /\ b.kLast = r.kLast /\ b.totalSupply = n
  <2> HIDE DEF n, w, v
  <2> QED BY <1>5, <1>6, <1>7 DEF Record
<1>9. SumFunctionOnSet(w, Holder) = SumFunctionOnSet(v, Holder) - v[p] + w[p]
  <2>1. /\ \A y \in Holder : v[y] \in Int /\ w[y] \in Int
        /\ \A y \in Holder \ {p} : w[y] = v[y]
    BY <1>1, <1>3
  <2> HIDE DEF w, v
  <2> QED BY <1>1, <2>1, HoldersFinite, SumUpdate
<1>10. SharesAdd(b)
  <2>1. SumFunctionOnSet(v, Holder) = r.totalSupply /\ v[p] = l /\ w[p] = 0
    BY <1>1, <1>3 DEF SharesAdd
  <2> HIDE DEF v, w
  <2>2. SumFunctionOnSet(w, Holder) = n
    BY <1>1, <1>9, <2>1
  <2> QED BY <1>8, <2>2 DEF SharesAdd
<1>11. w[Zero] = v[Zero]
  BY <1>1, <1>3
<1> QED BY <1>4, <1>8, <1>10, <1>11

(* burn (SherwoodV2Pair.sol): who leaves takes no more than his            *)
(* proportion, and the protocol's fee is minted before.                    *)
THEOREM BurnLeads ==
  ASSUME NEW s, Good(s), feeTo \in Account, NEW p \in DOMAIN s.pool, NEW to \in Holder, NEW x \in burn(s, p, to)
  PROVE  Moves(s, x) /\ DOMAIN x.pool = DOMAIN s.pool
<1> DEFINE old == s.pool[p]
           l == old.balanceOf[p]
           r == _mintFee(old)
           amount == Redeemed(r, l, Balances(s, p))
           burnt == [r EXCEPT !.balanceOf[p] = @ - l, !.totalSupply = @ - l]
           y == [s EXCEPT !.pool[p] = burnt]
           S == Transfers(y, BothTokens(p, p, to, amount))
<1>1. /\ r.totalSupply > 0 /\ \A t \in p : amount[t] > 0
      /\ x \in Then(Then(S, LAMBDA z : _update(z, p)), LAMBDA z : SetKLast(z, p))
  BY DEF burn
<1>2. /\ IsState(s) /\ p \in Pair /\ old \in Record(p) /\ SharesOK(old)
      /\ old.reserve \in [p -> Nat] /\ Product(old.reserve) \in Nat /\ old.totalSupply \in Nat
      /\ old.balanceOf \in [Holder -> Nat] /\ Covered(s, p)
      /\ \A t \in p : s.wallet[t][p] \in Nat /\ old.reserve[t] \in Nat
  BY PairTypes DEF Good
<1>3. p \in Holder /\ Zero \in Holder
  BY <1>2, HoldersFinite
<1>4. l \in Nat
  BY <1>2, <1>3
<1>5. SharesAdd(old)
  BY <1>2 DEF SharesOK, SharesAdd
<1>6. /\ r \in Record(p) /\ SharesAdd(r) /\ r.reserve = old.reserve
      /\ r.totalSupply = old.totalSupply + FeeOwed(old)
      /\ (feeTo = Zero => r.kLast = 0)
      /\ r.balanceOf[p] = l
      /\ r.balanceOf[Zero] >= old.balanceOf[Zero]
  BY <1>2, <1>5, MintFee
<1>7. FeeOwed(old) \in Nat /\ (old.totalSupply = 0 => FeeOwed(old) = 0)
  BY <1>2, FeeOwedType
<1>8. old.totalSupply > 0
  BY <1>1, <1>2, <1>6, <1>7
<1>9. \A t \in p : old.reserve[t] > 0
  <2>1. DOMAIN old.reserve = p /\ Product(old.reserve) > 0
    BY <1>2, <1>8 DEF SharesOK
  <2> HIDE DEF old
  <2> QED BY <1>2, <2>1, ProductPositive
<1> HIDE DEF l, r
<1>10. /\ burnt \in Record(p) /\ SharesAdd(burnt) /\ burnt.reserve = r.reserve /\ burnt.kLast = r.kLast
       /\ burnt.totalSupply = r.totalSupply - l /\ l + r.balanceOf[Zero] <= r.totalSupply
       /\ burnt.balanceOf[Zero] = r.balanceOf[Zero]
  <2>1. burnt = WithoutShares(r, p, l)
    BY DEF WithoutShares
  <2> HIDE DEF burnt
  <2>2. p \in Pair /\ r \in Record(p) /\ SharesAdd(r) /\ l \in Nat /\ l = r.balanceOf[p]
    BY <1>2, <1>4, <1>6
  <2> QED BY <2>1, <2>2, BurntRecord
<1> HIDE DEF burnt
<1>11. /\ IsState(y) /\ y.wallet = s.wallet /\ DOMAIN y.pool = DOMAIN s.pool /\ y.pool[p] = burnt
       /\ \A q \in DOMAIN s.pool : q # p => y.pool[q] = s.pool[q]
  BY <1>2, <1>10, SetPair
<1> HIDE DEF y, amount
<1>12. PICK z \in S : x \in Finished(z, p)
  <2> HIDE DEF S
  <2> QED BY <1>1 DEF Then, Finished
<1>13. \A t \in p : amount[t] \in Nat /\ z.wallet[t][p] >= y.wallet[t][p] - amount[t]
  BY <1>2, <1>11, BothTokensLeave
<1>14. /\ IsState(z) /\ z.pool = y.pool
       /\ \A q \in Pair \ {p} : \A b \in Asset : z.wallet[b][q] >= y.wallet[b][q]
  <2> DEFINE L == PairLegs(p, p, to, amount)
  <2>1. BothTokens(p, p, to, amount) \in Seq(L) /\ IsLegs(L)
    BY <1>2, <1>3, BothTokensLegs
  <2>2. \A q \in Pair \ {p} : Keeps(L, q)
    BY DEF Keeps, PairLegs
  <2> HIDE DEF L
  <2>3. /\ IsState(z) /\ z.pool = y.pool
        /\ \A h \in Holder : Keeps(L, h) => \A b \in Asset : z.wallet[b][h] >= y.wallet[b][h]
    BY <1>11, <2>1, TransfersLead
  <2> QED BY <2>2, <2>3, HoldersFinite
<1> HIDE DEF S
<1> DEFINE n == r.totalSupply
           m == n - l
           f == old.reserve
           c == Balances(z, p)
<1>15. n \in Nat \ {0} /\ m \in Nat /\ l <= n /\ m >= r.balanceOf[Zero] /\ r.balanceOf[Zero] >= MINIMUM_LIQUIDITY
       /\ MINIMUM_LIQUIDITY \in Nat \ {0} /\ m > 0
  <2>1. n \in Nat /\ n > 0 /\ r.balanceOf[Zero] \in Nat
    BY <1>1, <1>3, <1>6 DEF Record
  <2>2. old.balanceOf[Zero] >= MINIMUM_LIQUIDITY /\ old.balanceOf[Zero] \in Nat
    BY <1>2, <1>3, <1>8 DEF SharesOK
  <2>3. MINIMUM_LIQUIDITY \in Nat \ {0}
    BY PairAssumption
  <2>4. l + r.balanceOf[Zero] <= n /\ r.balanceOf[Zero] >= old.balanceOf[Zero]
    BY <1>6, <1>10
  <2> DEFINE u == r.balanceOf[Zero]  v == old.balanceOf[Zero]
  <2> HIDE DEF n, u, v, old
  <2> QED BY <1>4, <2>1, <2>2, <2>3, <2>4 DEF u, v
<1>16. DOMAIN c = p /\ \A t \in p : c[t] = z.wallet[t][p] /\ c[t] \in Nat
  BY <1>2, <1>11, <1>14, PairTypes DEF Balances
<1>17. ASSUME NEW t \in p PROVE f[t] * m <= c[t] * n /\ c[t] > 0
  <2> DEFINE b == s.wallet[t][p]  e == f[t]  g == c[t]
  <2>1. b \in Nat /\ e \in Nat /\ e <= b /\ g \in Nat /\ e > 0
    BY <1>2, <1>9, <1>16 DEF Covered
  <2>2. amount[t] = (l * b) \div n
    <3>1. DOMAIN Balances(s, p) = p /\ Balances(s, p)[t] = b
      BY DEF Balances
    <3> QED BY <3>1 DEF amount, Redeemed
  <2>3. g >= b - (l * b) \div n
    BY <1>11, <1>13, <1>16, <2>2
  <2> HIDE DEF b, e, g, n
  <2>4. e * (n - l) <= g * n
    BY <1>4, <1>15, <2>1, <2>3, BurnLeaves
  <2>5. g > 0
    <3> SUFFICES ASSUME g = 0 PROVE FALSE
      BY <2>1
    <3>1. e * m <= 0
      BY <1>15, <2>4
    <3> DEFINE k == m
    <3>2. k \in Nat /\ k > 0 /\ e * k <= 0
      BY <1>15, <3>1
    <3> HIDE DEF k
    <3> QED BY <2>1, <3>2
  <2> QED BY <2>4, <2>5 DEF e, g
<1>18. Product(c) > 0
  <2>1. \A t \in p : c[t] \in Nat /\ c[t] > 0
    BY <1>16, <1>17
  <2> HIDE DEF c
  <2> QED BY <1>2, <1>16, <2>1, ProductPositive
<1>19. Product(c) * n * n >= Product(f) * m * m
  <2>1. PICK a \in Token, b \in Token : a # b /\ p = {a, b}
    BY <1>2, PairIsTwo
  <2>2. Product(f) = f[a] * f[b] /\ f[a] \in Nat /\ f[b] \in Nat
    <3>1. DOMAIN f = p /\ \A t \in p : f[t] \in Nat
      BY <1>2
    <3>2. \A t \in p : f[t] \in Int
      BY <3>1
    <3> HIDE DEF f
    <3> QED BY <1>2, <2>1, <3>1, <3>2, ProductOf
  <2>3. Product(c) = c[a] * c[b] /\ c[a] \in Nat /\ c[b] \in Nat
    <3>1. \A t \in p : c[t] \in Int
      BY <1>16
    <3> HIDE DEF c
    <3> QED BY <1>2, <1>16, <2>1, <3>1, ProductOf
  <2>4. f[a] * m <= c[a] * n /\ f[b] * m <= c[b] * n
    BY <1>17, <2>1
  <2> DEFINE fa == f[a]  fb == f[b]  ca == c[a]  cb == c[b]
  <2>5. fa \in Nat /\ fb \in Nat /\ ca \in Nat /\ cb \in Nat /\ fa * m <= ca * n /\ fb * m <= cb * n
    BY <2>2, <2>3, <2>4
  <2>6. Product(f) = fa * fb /\ Product(c) = ca * cb
    BY <2>2, <2>3
  <2>7. n \in Nat /\ m \in Nat
    BY <1>15
  <2> HIDE DEF fa, fb, ca, cb, n, m, f, c
  <2>8. (ca * cb) * n * n >= (fa * fb) * m * m
    BY <2>5, <2>7, BurnArithmetic
  <2> QED BY <2>6, <2>8
<1>20. \A q \in DOMAIN s.pool \ {p} : /\ z.pool[q] = s.pool[q]
                                      /\ \A b \in Asset : z.wallet[b][q] >= s.wallet[b][q]
  BY <1>2, <1>11, <1>14 DEF IsState
<1>21. z.pool[p] = burnt /\ DOMAIN z.pool = DOMAIN s.pool
  BY <1>11, <1>14
<1>22. /\ SharesAdd(z.pool[p]) /\ (feeTo = Zero => z.pool[p].kLast = 0)
       /\ z.pool[p].balanceOf[Zero] >= MINIMUM_LIQUIDITY /\ z.pool[p].totalSupply = m
  BY <1>6, <1>10, <1>15, <1>21
<1>23. Product(c) * (old.totalSupply + FeeOwed(old)) * (old.totalSupply + FeeOwed(old)) >= Product(f) * m * m
  BY <1>6, <1>19
<1> HIDE DEF m, n
<1>24. Product(Balances(z, p)) * (s.pool[p].totalSupply + FeeOwed(s.pool[p])) * (s.pool[p].totalSupply + FeeOwed(s.pool[p]))
         >= Product(s.pool[p].reserve) * z.pool[p].totalSupply * z.pool[p].totalSupply
  BY <1>22, <1>23
<1>25. Product(Balances(z, p)) > 0
  BY <1>18
<1> HIDE DEF old, c, f
<1> QED BY <1>12, <1>14, <1>20, <1>21, <1>22, <1>24, <1>25, FinishLeads

-----------------------------------------------------------------------------
(* Calls that leave every pair's reserves and supply as they are.          *)
LEMMA WalletsGrow ==
  ASSUME NEW s, Good(s), NEW x, IsState(x), x.pool = s.pool,
         \A p \in DOMAIN s.pool : \A t \in p : x.wallet[t][p] >= s.pool[p].reserve[t]
  PROVE  Same(s, x)
<1>1. \A p \in DOMAIN s.pool : Covered(x, p)
  <2> SUFFICES ASSUME NEW p \in DOMAIN s.pool, NEW t \in p PROVE x.pool[p].reserve[t] <= x.wallet[t][p]
    BY DEF Covered
  <2>1. x.wallet[t][p] \in Nat /\ s.pool[p].reserve[t] \in Nat
    BY PairTypes DEF Good
  <2> QED BY <2>1
<1>2. Good(x)
  BY <1>1 DEF Good
<1> QED BY <1>2 DEF Same, Grows

(* A step that writes no pair and takes nothing from any of them.          *)
LEMMA WalletsKept ==
  ASSUME NEW s, Good(s), NEW x, IsState(x), x.pool = s.pool,
         \A q \in Pair : \A b \in Asset : x.wallet[b][q] >= s.wallet[b][q]
  PROVE  Same(s, x)
<1> SUFFICES ASSUME NEW p \in DOMAIN s.pool, NEW t \in p PROVE x.wallet[t][p] >= s.pool[p].reserve[t]
  BY WalletsGrow
<1>1. IsState(s) /\ p \in Pair /\ s.pool[p].reserve[t] \in Nat /\ s.wallet[t][p] \in Nat /\ x.wallet[t][p] \in Nat
  BY PairTypes DEF Good
<1>2. t \in Asset
  BY <1>1, PairIsTwo, PairAssumption
<1>3. s.pool[p].reserve[t] <= s.wallet[t][p] /\ x.wallet[t][p] >= s.wallet[t][p]
  BY <1>1, <1>2 DEF Good, Covered
<1> QED BY <1>1, <1>3

(* Transfers from accounts: no pair loses anything.                        *)
AccountLegs(A) == Asset \X Account \X Holder \X A

(* Transfers out of accounts that are no pairs.                            *)
LEMMA AccountsPay ==
  ASSUME NEW s, Good(s), NEW A, NEW legs \in Seq(AccountLegs(A)), NEW x \in Transfers(s, legs)
  PROVE  Same(s, x)
<1> DEFINE L == AccountLegs(A)
<1>1. IsLegs(L) /\ \A l \in L : l[2] \in Account
  BY DEF IsLegs, AccountLegs, Holder
<1>2. \A q \in Pair : Keeps(L, q)
  BY <1>1, PairAssumption DEF Keeps, Pair
<1> HIDE DEF L
<1>3. legs \in Seq(L)
  BY DEF L
<1>4. /\ IsState(x) /\ x.pool = s.pool
      /\ \A h \in Holder : Keeps(L, h) => \A b \in Asset : x.wallet[b][h] >= s.wallet[b][h]
  BY <1>1, <1>3, TransfersLead DEF Good
<1> QED BY <1>2, <1>4, WalletsKept, HoldersFinite

(* Nothing done keeps everything.                                          *)
LEMMA SelfSame == ASSUME NEW s, Good(s) PROVE Same(s, s)
BY DEF Same, Grows

(* One transfer of a token.                                                *)
LEMMA TransferLeads ==
  ASSUME NEW s, Good(s), NEW a \in Asset, NEW u \in Account, NEW to \in Holder, NEW amount, NEW x \in Transfer(s, a, u, to, amount)
  PROVE  Same(s, x)
<1>1. u \in Holder /\ u \notin Pair /\ IsState(s)
  BY PairAssumption DEF Holder, Pair, Good
<1>2. /\ IsState(x) /\ x.pool = s.pool
      /\ \A b \in Asset, h \in Holder : x.wallet[b][h] >= s.wallet[b][h] - (IF b = a /\ h = u THEN amount ELSE 0)
  BY <1>1, TransferOne
<1>3. ASSUME NEW q \in Pair, NEW b \in Asset PROVE x.wallet[b][q] >= s.wallet[b][q]
  <2>1. q \in Holder /\ q # u
    BY <1>1, HoldersFinite
  <2>2. x.wallet[b][q] >= s.wallet[b][q] - 0
    BY <1>2, <2>1
  <2>3. s.wallet[b][q] \in Nat
    BY <1>1, <2>1 DEF IsState
  <2> QED BY <2>2, <2>3
<1> QED BY <1>2, <1>3, WalletsKept

(* skim sends out what is over the reserves.                               *)
LEMMA SkimLeads ==
  ASSUME NEW s, Good(s), NEW p \in DOMAIN s.pool, NEW to \in Holder, NEW x \in skim(s, p, to)
  PROVE  Same(s, x)
<1> DEFINE amount == [t \in p |-> s.wallet[t][p] - s.pool[p].reserve[t]]
           L == PairLegs(p, p, to, amount)
<1>1. x \in Transfers(s, BothTokens(p, p, to, amount))
  BY DEF skim
<1>2. IsState(s) /\ p \in Pair /\ \A t \in p : s.wallet[t][p] \in Nat /\ s.pool[p].reserve[t] \in Nat
  BY PairTypes DEF Good
<1>3. \A t \in p : amount[t] = s.wallet[t][p] - s.pool[p].reserve[t]
  OBVIOUS
<1> HIDE DEF amount
<1>4. \A t \in p : amount[t] \in Nat /\ x.wallet[t][p] >= s.wallet[t][p] - amount[t]
  BY <1>1, <1>2, BothTokensLeave
<1>5. BothTokens(p, p, to, amount) \in Seq(L) /\ IsLegs(L)
  BY <1>2, HoldersFinite, BothTokensLegs
<1>6. \A q \in Pair \ {p} : Keeps(L, q)
  BY DEF Keeps, PairLegs
<1> HIDE DEF L
<1>7. /\ IsState(x) /\ x.pool = s.pool
      /\ \A h \in Holder : Keeps(L, h) => \A b \in Asset : x.wallet[b][h] >= s.wallet[b][h]
  BY <1>1, <1>2, <1>5, TransfersLead
<1>8. ASSUME NEW q \in DOMAIN s.pool, NEW t \in q PROVE x.wallet[t][q] >= s.pool[q].reserve[t]
  <2>1. q \in Pair /\ s.wallet[t][q] \in Nat /\ s.pool[q].reserve[t] \in Nat /\ x.wallet[t][q] \in Nat
    BY <1>2, <1>7, PairTypes
  <2>2. CASE q = p
    <3> DEFINE w == s.wallet[t][q]  r == s.pool[q].reserve[t]  a == amount[t]  v == x.wallet[t][q]
    <3>1. w \in Nat /\ r \in Nat /\ v \in Nat /\ a \in Nat /\ a = w - r /\ v >= w - a
      BY <1>3, <1>4, <2>1, <2>2
    <3> HIDE DEF w, r, a, v
    <3>2. v >= r
      BY <3>1
    <3> QED BY <3>2 DEF v, r
  <2>3. CASE q # p
    <3>1. t \in Asset /\ q \in Holder
      BY <2>1, PairIsTwo, PairAssumption, HoldersFinite
    <3>2. x.wallet[t][q] >= s.wallet[t][q] /\ s.pool[q].reserve[t] <= s.wallet[t][q]
      BY <1>6, <1>7, <2>1, <2>3, <3>1 DEF Good, Covered
    <3> QED BY <2>1, <3>2
  <2> QED BY <2>2, <2>3
<1> QED BY <1>7, <1>8, WalletsGrow

(* sync, which is _update: reserves only rise to what the pair holds.      *)
LEMMA UpdateQuiet ==
  ASSUME NEW s, Good(s), NEW p \in DOMAIN s.pool, NEW x \in _update(s, p)
  PROVE  Quiet(s, x)
<1>1. /\ IsState(s) /\ p \in Pair /\ s.pool[p].reserve \in [p -> Nat] /\ SharesOK(s.pool[p]) /\ Covered(s, p)
      /\ s.pool[p].kLast \in Nat /\ s.pool[p].totalSupply \in Nat
      /\ \A t \in p : s.wallet[t][p] \in Nat /\ s.pool[p].reserve[t] \in Nat
  BY PairTypes DEF Good
<1>2. /\ IsState(x) /\ x.wallet = s.wallet /\ DOMAIN x.pool = DOMAIN s.pool
      /\ x.pool[p].reserve = Balances(s, p) /\ x.pool[p].kLast = s.pool[p].kLast
      /\ x.pool[p].totalSupply = s.pool[p].totalSupply /\ x.pool[p].balanceOf = s.pool[p].balanceOf
      /\ \A q \in DOMAIN s.pool : q # p => x.pool[q] = s.pool[q]
  BY <1>1, UpdateLeads
<1>3. \A q \in DOMAIN x.pool : Covered(x, q) /\ (q # p => SharesOK(x.pool[q]))
  <2>1. \A q \in DOMAIN s.pool \ {p} : s.pool[q] = s.pool[q] /\ \A b \in Asset : s.wallet[b][q] >= s.wallet[b][q]
    <3> SUFFICES ASSUME NEW q \in DOMAIN s.pool, NEW b \in Asset PROVE s.wallet[b][q] >= s.wallet[b][q]
      OBVIOUS
    <3>1. s.wallet[b][q] \in Nat
      BY <1>1, HoldersFinite DEF IsState
    <3> QED BY <3>1
  <2> QED BY <1>1, <2>1, CoveredAfter
<1>4. Product(s.pool[p].reserve) \in Nat /\ Product(Balances(s, p)) \in Nat
      /\ Product(s.pool[p].reserve) <= Product(Balances(s, p))
  <2> DEFINE f == s.pool[p].reserve  g == Balances(s, p)
  <2>1. DOMAIN f = p /\ DOMAIN g = p /\ \A t \in p : f[t] \in Nat /\ g[t] \in Nat /\ f[t] <= g[t]
    BY <1>1 DEF Balances, Covered
  <2> HIDE DEF f, g
  <2>2. Product(f) \in Nat /\ Product(g) \in Nat /\ Product(f) <= Product(g)
    BY <1>1, <2>1, ProductMonotone
  <2> QED BY <2>2 DEF f, g
<1>5. SharesOK(x.pool[p])
  BY <1>1, <1>2, <1>4 DEF SharesOK
<1>6. Good(x)
  BY <1>2, <1>3, <1>5 DEF Good
<1>7. \A q \in DOMAIN s.pool : Product(x.pool[q].reserve) >= Product(s.pool[q].reserve)
  <2> TAKE q \in DOMAIN s.pool
  <2>1. Product(s.pool[q].reserve) \in Nat
    BY <1>1, PairTypes
  <2> QED BY <1>2, <1>4, <2>1
<1> QED BY <1>2, <1>6, <1>7 DEF Quiet, Grows

(* Shares that change hands.                                               *)
SharesAt(r, h, v) == [r EXCEPT !.balanceOf[h] = v]

(* One holder's balance of shares is written.                              *)
LEMMA SharesAtLeads ==
  ASSUME NEW p \in Pair, NEW r \in Record(p), NEW h \in Holder, NEW v \in Nat
  PROVE  /\ SharesAt(r, h, v) \in Record(p) /\ SharesAt(r, h, v).reserve = r.reserve
         /\ SharesAt(r, h, v).kLast = r.kLast /\ SharesAt(r, h, v).totalSupply = r.totalSupply
         /\ \A g \in Holder : SharesAt(r, h, v).balanceOf[g] = IF g = h THEN v ELSE r.balanceOf[g]
         /\ SumFunctionOnSet(SharesAt(r, h, v).balanceOf, Holder) = SumFunctionOnSet(r.balanceOf, Holder) - r.balanceOf[h] + v
<1> DEFINE f == r.balanceOf
           w == [f EXCEPT ![h] = v]
           m == [r EXCEPT !.balanceOf = w]
<1>1. SharesAt(r, h, v) = m
  BY DEF SharesAt
<1>2. f \in [Holder -> Nat]
  BY DEF Record
<1>3. w \in [Holder -> Nat] /\ w[h] = v /\ \A g \in Holder : w[g] = IF g = h THEN v ELSE f[g]
  BY <1>2
<1>4. m \in Record(p) /\ m.reserve = r.reserve /\ m.kLast = r.kLast /\ m.totalSupply = r.totalSupply /\ m.balanceOf = w
  <2> HIDE DEF w
  <2> QED BY <1>3 DEF Record
<1>5. SumFunctionOnSet(w, Holder) = SumFunctionOnSet(f, Holder) - f[h] + w[h]
  <2>1. /\ \A y \in Holder : f[y] \in Int /\ w[y] \in Int
        /\ \A y \in Holder \ {h} : w[y] = f[y]
    BY <1>2, <1>3
  <2> HIDE DEF w, f
  <2> QED BY <2>1, HoldersFinite, SumUpdate
<1> HIDE DEF m, w
<1> QED BY <1>1, <1>3, <1>4, <1>5

(* A transfer of shares keeps their sum, and those of Zero stay.           *)
LEMMA TransferSharesLeads ==
  ASSUME NEW s, Good(s), NEW p \in DOMAIN s.pool, NEW from \in Holder \ {Zero}, NEW to \in Holder, NEW value \in Nat,
         NEW x \in TransferShares(s, p, from, to, value)
  PROVE  Same(s, x) /\ DOMAIN x.pool = DOMAIN s.pool /\ x.wallet = s.wallet
<1> DEFINE r == s.pool[p]
           v1 == r.balanceOf[from] - value
           r1 == SharesAt(r, from, v1)
           y == [s EXCEPT !.pool[p] = r1]
           v2 == r1.balanceOf[to] + value
           r2 == SharesAt(r1, to, v2)
<1>1. value <= r.balanceOf[from]
      /\ x = [[s EXCEPT !.pool[p].balanceOf[from] = @ - value] EXCEPT !.pool[p].balanceOf[to] = @ + value]
  BY DEF TransferShares
<1>2. IsState(s) /\ p \in Pair /\ r \in Record(p) /\ SharesOK(r) /\ r.balanceOf \in [Holder -> Nat] /\ Zero \in Holder
  BY PairTypes, HoldersFinite DEF Good
<1>3. v1 \in Nat
  <2> DEFINE b == r.balanceOf[from]
  <2>1. b \in Nat /\ value <= b
    BY <1>1, <1>2
  <2> HIDE DEF b
  <2>2. b - value \in Nat
    BY <2>1
  <2> QED BY <2>2 DEF b
<1>4. [s EXCEPT !.pool[p].balanceOf[from] = @ - value] = y
  BY DEF SharesAt
<1> HIDE DEF r, v1
<1>5. /\ r1 \in Record(p) /\ r1.reserve = r.reserve /\ r1.kLast = r.kLast /\ r1.totalSupply = r.totalSupply
      /\ (\A g \in Holder : r1.balanceOf[g] = IF g = from THEN v1 ELSE r.balanceOf[g])
      /\ SumFunctionOnSet(r1.balanceOf, Holder) = SumFunctionOnSet(r.balanceOf, Holder) - r.balanceOf[from] + v1
  <2>1. p \in Pair /\ r \in Record(p) /\ from \in Holder /\ v1 \in Nat
    BY <1>2, <1>3
  <2> QED BY <2>1, SharesAtLeads
<1> HIDE DEF r1
<1>6. /\ IsState(y) /\ y.wallet = s.wallet /\ DOMAIN y.pool = DOMAIN s.pool /\ y.pool[p] = r1
      /\ \A q \in DOMAIN s.pool : q # p => y.pool[q] = s.pool[q]
  BY <1>2, <1>5, SetPair
<1>7. v2 \in Nat
  <2>1. r1.balanceOf \in [Holder -> Nat]
    BY <1>5 DEF Record
  <2>2. r1.balanceOf[to] \in Nat
    BY <2>1
  <2> QED BY <2>2
<1> HIDE DEF y
<1>8. x = [y EXCEPT !.pool[p] = r2]
  BY <1>1, <1>4, <1>6 DEF SharesAt
<1> HIDE DEF v2
<1>9. /\ r2 \in Record(p) /\ r2.reserve = r1.reserve /\ r2.kLast = r1.kLast /\ r2.totalSupply = r1.totalSupply
      /\ (\A g \in Holder : r2.balanceOf[g] = IF g = to THEN v2 ELSE r1.balanceOf[g])
      /\ SumFunctionOnSet(r2.balanceOf, Holder) = SumFunctionOnSet(r1.balanceOf, Holder) - r1.balanceOf[to] + v2
  <2>1. p \in Pair /\ r1 \in Record(p) /\ v2 \in Nat
    BY <1>2, <1>5, <1>7
  <2> QED BY <2>1, SharesAtLeads
<1> HIDE DEF r2
<1>10. /\ IsState(x) /\ x.wallet = y.wallet /\ DOMAIN x.pool = DOMAIN y.pool /\ x.pool[p] = r2
       /\ \A q \in DOMAIN y.pool : q # p => x.pool[q] = y.pool[q]
  <2>1. p \in DOMAIN y.pool
    BY <1>6
  <2> QED BY <1>6, <1>8, <1>9, <2>1, SetPair
<1>11. r2.balanceOf[Zero] >= r.balanceOf[Zero]
  <2>1. r1.balanceOf[Zero] = r.balanceOf[Zero] /\ r.balanceOf[Zero] \in Nat
    BY <1>2, <1>5
  <2>2. r2.balanceOf[Zero] = IF Zero = to THEN r1.balanceOf[to] + value ELSE r1.balanceOf[Zero]
    BY <1>2, <1>9 DEF v2
  <2> DEFINE u == r.balanceOf[Zero]  w == r2.balanceOf[Zero]
  <2>3. u \in Nat /\ (w = u + value \/ w = u)
    BY <2>1, <2>2
  <2> HIDE DEF u, w
  <2>4. w >= u
    BY <2>3
  <2> QED BY <2>4 DEF u, w
<1>12. SumFunctionOnSet(r2.balanceOf, Holder) = r.totalSupply
  <2> DEFINE m == SumFunctionOnSet(r2.balanceOf, Holder)  n == SumFunctionOnSet(r1.balanceOf, Holder)
             b == r.balanceOf[from]  c == r1.balanceOf[to]
  <2>1. SumFunctionOnSet(r.balanceOf, Holder) = r.totalSupply /\ r.totalSupply \in Nat
    BY <1>2 DEF SharesOK, Record
  <2>2. b \in Nat
    BY <1>2
  <2>3. r1.balanceOf \in [Holder -> Nat]
    BY <1>5 DEF Record
  <2>4. c \in Nat
    BY <2>3
  <2>5. n = r.totalSupply - b + (b - value) /\ m = n - c + (c + value)
    BY <1>5, <1>9, <2>1 DEF v1, v2
  <2> HIDE DEF m, n, b, c
  <2>6. m = r.totalSupply
    BY <2>1, <2>2, <2>4, <2>5
  <2> QED BY <2>6 DEF m
<1>13. SharesOK(r2)
  <2>1. r.balanceOf[Zero] \in Nat /\ r2.balanceOf[Zero] \in Nat /\ MINIMUM_LIQUIDITY \in Nat
    <3>1. r2.balanceOf \in [Holder -> Nat]
      BY <1>9 DEF Record
    <3> QED BY <1>2, <3>1, PairAssumption
  <2>2. /\ r.kLast <= Product(r.reserve)
        /\ (r.totalSupply > 0 => r.balanceOf[Zero] >= MINIMUM_LIQUIDITY /\ Product(r.reserve) > 0)
    BY <1>2 DEF SharesOK
  <2> QED BY <1>5, <1>9, <1>11, <1>12, <2>1, <2>2 DEF SharesOK
<1>14. r2.reserve = r.reserve /\ r2.kLast = r.kLast /\ r2.totalSupply = r.totalSupply
  BY <1>5, <1>9
<1>15. \A q \in DOMAIN s.pool : x.pool[q].reserve = s.pool[q].reserve /\ x.pool[q].kLast = s.pool[q].kLast
                                /\ x.pool[q].totalSupply = s.pool[q].totalSupply
  BY <1>6, <1>10, <1>14 DEF r
<1>16. \A q \in DOMAIN x.pool : SharesOK(x.pool[q]) /\ Covered(x, q)
  <2> TAKE q \in DOMAIN x.pool
  <2>1. q \in DOMAIN s.pool /\ x.wallet = s.wallet
    BY <1>6, <1>10
  <2>2. Covered(x, q)
    BY <1>15, <2>1 DEF Covered, Good
  <2>3. SharesOK(x.pool[q])
    BY <1>6, <1>10, <1>13, <2>1 DEF Good
  <2> QED BY <2>2, <2>3
<1>17. Good(x)
  BY <1>10, <1>16 DEF Good
<1> QED BY <1>6, <1>10, <1>15, <1>17 DEF Same, Grows

(* A new pair is empty.                                                    *)
LEMMA CreatePairLeads ==
  ASSUME NEW s, Good(s), NEW p, NEW x \in createPair(s, p)
  PROVE  Same(s, x) /\ p \in DOMAIN x.pool /\ p \in Pair
         /\ \A q \in DOMAIN s.pool : x.pool[q] = s.pool[q]
<1> DEFINE f == s.pool  w == s.wallet
           g == [q \in DOMAIN f \cup {p} |-> IF q = p THEN NewPair(p) ELSE f[q]]
           n == NewPair(p)
<1>1. p \in Pair \ DOMAIN f /\ x = [s EXCEPT !.pool = g]
  BY DEF createPair
<1>2. s = [wallet |-> w, pool |-> f] /\ w \in [Asset -> [Holder -> Nat]]
      /\ DOMAIN f \subseteq Pair /\ (\A q \in DOMAIN f : f[q] \in Record(q))
  BY DEF Good, IsState
<1> HIDE DEF w, f
<1>3. /\ DOMAIN g = DOMAIN f \cup {p} /\ g[p] = n /\ (\A q \in DOMAIN f : g[q] = f[q])
      /\ g = [q \in DOMAIN g |-> g[q]]
  BY <1>1
<1> HIDE DEF g
<1>4. x = [wallet |-> w, pool |-> g]
  BY <1>1, <1>2
<1>5. x.wallet = w /\ x.pool = g
  BY <1>4
<1>6. /\ n \in Record(p) /\ n.totalSupply = 0 /\ n.kLast = 0 /\ n.reserve = [t \in p |-> 0]
      /\ n.balanceOf = [h \in Holder |-> 0]
  BY DEF NewPair, Record
<1> HIDE DEF n
<1>7. \A q \in DOMAIN g : g[q] \in Record(q)
  BY <1>2, <1>3, <1>6
<1>8. IsState(x)
  BY <1>1, <1>2, <1>3, <1>4, <1>7, StateOf
<1>9. SharesOK(n) /\ \A t \in p : n.reserve[t] = 0
  <2> DEFINE v == n.balanceOf  e == n.reserve
  <2>1. (\A h \in Holder : v[h] = 0) /\ DOMAIN e = p /\ \A t \in p : e[t] = 0 /\ e[t] \in Nat /\ e[t] <= e[t]
    BY <1>6
  <2> HIDE DEF v, e
  <2>2. SumFunctionOnSet(v, Holder) = 0
    BY <2>1, HoldersFinite, SumZero
  <2>3. Product(e) \in Nat
    BY <1>1, <2>1, ProductMonotone
  <2> QED BY <1>6, <2>1, <2>2, <2>3 DEF SharesOK, v, e
<1>10. ASSUME NEW q \in DOMAIN x.pool PROVE SharesOK(x.pool[q]) /\ Covered(x, q)
  <2>1. CASE q = p
    <3>1. \A t \in p : x.wallet[t][p] \in Nat
      BY <1>5, <1>8, <2>1, PairTypes
    <3>2. Covered(x, p)
      BY <1>3, <1>5, <1>9, <3>1 DEF Covered
    <3> QED BY <1>3, <1>5, <1>9, <2>1, <3>2
  <2>2. CASE q # p
    <3>1. q \in DOMAIN s.pool /\ x.pool[q] = s.pool[q] /\ x.wallet = s.wallet
      BY <1>3, <1>5, <2>2 DEF f, w
    <3> QED BY <3>1 DEF Good, Covered
  <2> QED BY <2>1, <2>2
<1>11. Good(x)
  BY <1>8, <1>10 DEF Good
<1>12. \A q \in DOMAIN s.pool : q \in DOMAIN x.pool /\ x.pool[q] = s.pool[q]
  BY <1>3, <1>5 DEF f
<1> QED BY <1>1, <1>3, <1>5, <1>11, <1>12 DEF Same, Grows

-----------------------------------------------------------------------------
(* Calls one after another stay where each of them stays.                  *)
AnyRecord == UNION {Record(p) : p \in Pair}
States == [wallet : [Asset -> [Holder -> Nat]], pool : UNION {[D -> AnyRecord] : D \in SUBSET Pair}]

(* The states are a set.                                                   *)
LEMMA StateIn == ASSUME NEW s, IsState(s) PROVE s \in States
<1> DEFINE w == s.wallet  f == s.pool  D == DOMAIN f
<1>1. s = [wallet |-> w, pool |-> f] /\ w \in [Asset -> [Holder -> Nat]] /\ f = [p \in D |-> f[p]] /\ D \subseteq Pair
      /\ \A p \in D : f[p] \in Record(p)
  BY DEF IsState
<1>2. \A p \in D : f[p] \in AnyRecord
  BY <1>1 DEF AnyRecord
<1> HIDE DEF w, f, D
<1>3. f \in [D -> AnyRecord]
  BY <1>1, <1>2
<1> DEFINE All == UNION {[E -> AnyRecord] : E \in SUBSET Pair}
<1>4. f \in All
  BY <1>1, <1>3
<1> HIDE DEF All
<1>5. s \in [wallet : [Asset -> [Holder -> Nat]], pool : All]
  BY <1>1, <1>4
<1> QED BY <1>5 DEF All, States

IsRun(f, U, n, S, g) == f \in [0 .. n -> U] /\ f[0] = S /\ \A i \in 1 .. n : f[i] = g[<<f[i - 1], i>>]

(* A run of a function over n steps exists.                                *)
LEMMA RunsExist ==
  ASSUME NEW U, NEW n \in Nat, NEW S \in U, NEW g \in [U \X (1 .. n) -> U]
  PROVE  \E f : IsRun(f, U, n, S, g)
<1> DEFINE Runs(f, k) == f \in [0 .. k -> U] /\ f[0] = S /\ \A i \in 1 .. k : f[i] = g[<<f[i - 1], i>>]
           Done == {k \in Nat : k <= n => \E f : Runs(f, k)}
<1>1. 0 \in Done
  <2> DEFINE f == [i \in 0 .. 0 |-> S]
  <2>1. Runs(f, 0)
    OBVIOUS
  <2> QED BY <2>1
<1>2. ASSUME NEW k \in Done PROVE k + 1 \in Done
  <2> SUFFICES ASSUME k + 1 <= n PROVE \E f : Runs(f, k + 1)
    OBVIOUS
  <2>1. k \in Nat /\ k <= n /\ k + 1 \in 1 .. n
    OBVIOUS
  <2>2. PICK f : Runs(f, k)
    BY <2>1
  <2> DEFINE v == g[<<f[k], k + 1>>]
             h == [i \in 0 .. k + 1 |-> IF i = k + 1 THEN v ELSE f[i]]
  <2>3. f[k] \in U
    BY <2>1, <2>2
  <2>4. v \in U
    BY <2>1, <2>3
  <2> HIDE DEF v
  <2>5. h \in [0 .. k + 1 -> U]
    BY <2>1, <2>2, <2>4
  <2>6. h[0] = S
    <3>1. 0 \in 0 .. k + 1 /\ 0 # k + 1
      BY <2>1
    <3> QED BY <2>2, <3>1
  <2>7. ASSUME NEW i \in 1 .. k + 1 PROVE h[i] = g[<<h[i - 1], i>>]
    <3>1. i - 1 \in 0 .. k + 1 /\ i - 1 # k + 1 /\ i \in 0 .. k + 1
      BY <2>1
    <3>2. h[i - 1] = f[i - 1]
      BY <3>1
    <3>3. CASE i = k + 1
      <4>1. h[i] = v /\ i - 1 = k
        BY <2>1, <3>1, <3>3
      <4> HIDE DEF h
      <4> QED BY <3>2, <3>3, <4>1 DEF v
    <3>4. CASE i # k + 1
      <4>1. h[i] = f[i] /\ i \in 1 .. k
        BY <2>1, <3>1, <3>4
      <4>2. f[i] = g[<<f[i - 1], i>>]
        BY <2>2, <4>1
      <4> HIDE DEF h
      <4> QED BY <3>2, <4>1, <4>2
    <3> QED BY <3>3, <3>4
  <2> HIDE DEF h
  <2>8. Runs(h, k + 1)
    BY <2>5, <2>6, <2>7
  <2> QED BY <2>8
<1>3. Done = Nat
  <2> HIDE DEF Done
  <2>1. Done \subseteq Nat
    BY DEF Done
  <2> QED BY <1>1, <1>2, <2>1, NaturalsBySteps
<1>4. \E f : Runs(f, n)
  <2> HIDE DEF Runs
  <2>1. n \in Done /\ n <= n
    BY <1>3
  <2> QED BY <2>1
<1> QED BY <1>4 DEF IsRun

(* A run stays in a set that every step stays in.                          *)
LEMMA RunsStay ==
  ASSUME NEW U, NEW n \in Nat, NEW f, f[0] \in SUBSET U,
         \A i \in 1 .. n : f[i - 1] \in SUBSET U => f[i] \in SUBSET U
  PROVE  f[n] \in SUBSET U
<1> DEFINE Done == {k \in Nat : k <= n => f[k] \in SUBSET U}
<1>1. 0 \in Done
  OBVIOUS
<1>2. ASSUME NEW k \in Done PROVE k + 1 \in Done
  <2>1. k + 1 <= n => k + 1 \in 1 .. n /\ (k + 1) - 1 = k
    OBVIOUS
  <2> QED BY <2>1
<1>3. Done = Nat
  <2> HIDE DEF Done
  <2>1. Done \subseteq Nat
    BY DEF Done
  <2> QED BY <1>1, <1>2, <2>1, NaturalsBySteps
<1> QED BY <1>3

(* A path whose pairs there are.                                           *)
Ways(s, path) ==
  /\ Len(path) \in Nat \ {0}
  /\ \A i \in 1 .. (Len(path) - 1) : {path[i], path[i + 1]} \in DOMAIN s.pool

(* One hop of a path is a swap of its pair.                                *)
LEMMA HopLeads ==
  ASSUME NEW s, Good(s), NEW path, Ways(s, path), NEW i \in 1 .. (Len(path) - 1), NEW out, NEW receiver \in Account,
         NEW y, Quiet(s, y), NEW x \in Hop(y, path, i, out, receiver)
  PROVE  Quiet(s, x)
<1> DEFINE p == {path[i], path[i + 1]}
           to == IF i + 1 < Len(path) THEN {path[i + 1], path[i + 2]} ELSE receiver
           o == [t \in p |-> IF t = path[i + 1] THEN out ELSE 0]
           zero == [t \in p |-> 0]
<1>1. x \in swap(y, p, o, to, zero)
  BY DEF Hop
<1>2. Good(y) /\ DOMAIN s.pool \subseteq DOMAIN y.pool /\ DOMAIN s.pool \subseteq Pair
  BY DEF Quiet, Grows, Good, IsState
<1>3. p \in DOMAIN y.pool
  BY <1>2 DEF Ways
<1>4. to \in Holder
  <2>1. CASE i + 1 < Len(path)
    <3>1. Len(path) \in Nat
      BY DEF Ways
    <3>2. i + 1 \in 1 .. (Len(path) - 1) /\ (i + 1) + 1 = i + 2
      BY <2>1, <3>1
    <3>3. {path[i + 1], path[(i + 1) + 1]} \in DOMAIN s.pool
      BY <3>2 DEF Ways
    <3>4. {path[i + 1], path[i + 2]} \in Pair
      BY <1>2, <3>2, <3>3
    <3> QED BY <2>1, <3>4, HoldersFinite
  <2>2. CASE ~(i + 1 < Len(path))
    BY <2>2 DEF Holder
  <2> QED BY <2>1, <2>2
<1>5. \A t \in p : zero[t] = 0
  OBVIOUS
<1> HIDE DEF p, to, o, zero
<1>6. Quiet(y, x)
  BY <1>1, <1>2, <1>3, <1>4, <1>5, SwapLeads
<1> QED BY <1>6, QuietQuiet

(* What has become of s after each hop of a path.                          *)
Hops(after, s, amounts, path, receiver) ==
  /\ after[0] = {s} /\ _swap(s, amounts, path, receiver) = after[Len(path) - 1]
  /\ \A i \in 1 .. (Len(path) - 1) :
       after[i] = UNION {Hop(y, path, i, amounts[i + 1], receiver) : y \in after[i - 1]}
  /\ \A i \in 0 .. (Len(path) - 1) : \A y \in after[i] : Quiet(s, y)

(* _swap (SherwoodV2Router.sol): all the hops of a path.                   *)
LEMMA SwapStages ==
  ASSUME NEW s, Good(s), NEW path, Ways(s, path), NEW amounts, NEW receiver \in Account
  PROVE  \E after : Hops(after, s, amounts, path, receiver)
<1> DEFINE n == Len(path) - 1
           U == {y \in States : Quiet(s, y)}
           On(S, i) == UNION {Hop(y, path, i, amounts[i + 1], receiver) : y \in S}
           Runs(f) == f = [i \in 0 .. n |-> IF i = 0 THEN {s} ELSE On(f[i - 1], i)]
           after == CHOOSE f : Runs(f)
           g == [q \in (SUBSET U) \X (1 .. n) |-> On(q[1], q[2])]
<1>1. _swap(s, amounts, path, receiver) = after[n]
  BY DEF _swap, InTurn
<1>2. n \in Nat
  BY DEF Ways
<1>3. {s} \in SUBSET U
  BY SelfSame, SameIsQuiet, StateIn DEF Good
<1>4. ASSUME NEW S \in SUBSET U, NEW i \in 1 .. n PROVE On(S, i) \in SUBSET U
  <2> SUFFICES ASSUME NEW y \in U, NEW z \in Hop(y, path, i, amounts[i + 1], receiver) PROVE z \in U
    OBVIOUS
  <2>1. Quiet(s, z)
    BY HopLeads
  <2> QED BY <2>1, StateIn DEF Quiet, Grows, Good
<1> HIDE DEF On, U, n
<1>5. g \in [(SUBSET U) \X (1 .. n) -> SUBSET U]
  BY <1>4
<1>6. \A S \in SUBSET U : \A i \in 1 .. n : g[<<S, i>>] = On(S, i)
  OBVIOUS
<1> HIDE DEF g
<1>7. PICK f : IsRun(f, SUBSET U, n, {s}, g)
  BY <1>2, <1>3, <1>5, RunsExist
<1>8. Runs(f)
  <2> DEFINE h == [i \in 0 .. n |-> IF i = 0 THEN {s} ELSE On(f[i - 1], i)]
  <2>1. ASSUME NEW i \in 0 .. n PROVE h[i] = f[i]
    <3>1. CASE i = 0
      BY <1>7, <3>1 DEF IsRun
    <3>2. CASE i # 0
      <4>1. i \in 1 .. n /\ i - 1 \in 0 .. n
        BY <1>2, <3>2
      <4>2. f[i - 1] \in SUBSET U
        BY <1>7, <4>1 DEF IsRun
      <4>3. f[i] = On(f[i - 1], i)
        BY <1>6, <1>7, <4>1, <4>2 DEF IsRun
      <4> QED BY <3>2, <4>3
    <3> QED BY <3>1, <3>2
  <2>2. f = [i \in 0 .. n |-> f[i]]
    BY <1>7 DEF IsRun
  <2>3. h = [i \in 0 .. n |-> f[i]]
    BY <2>1
  <2> QED BY <2>2, <2>3
<1>9. Runs(after)
  <2> HIDE DEF Runs
  <2> QED BY <1>8
<1> HIDE DEF after
<1>10. after[0] = {s} /\ \A i \in 1 .. n : after[i] = On(after[i - 1], i)
  <2>1. \A i \in 0 .. n : after[i] = IF i = 0 THEN {s} ELSE On(after[i - 1], i)
    BY <1>9
  <2> QED BY <1>2, <2>1
<1>11. ASSUME NEW k \in 0 .. n PROVE after[k] \in SUBSET U
  <2>1. \A i \in 1 .. k : after[i - 1] \in SUBSET U => after[i] \in SUBSET U
    BY <1>2, <1>4, <1>10
  <2>2. after[0] \in SUBSET U /\ k \in Nat
    BY <1>2, <1>3, <1>10
  <2> HIDE DEF Runs
  <2> QED BY <2>1, <2>2, RunsStay
<1>12. \A k \in 0 .. n : \A y \in after[k] : Quiet(s, y)
  BY <1>11 DEF U
<1> HIDE DEF Runs
<1> QED BY <1>1, <1>10, <1>12 DEF Hops, On, n

(* Its steps keep the pairs' shares what they are worth.                   *)
LEMMA SwapPath ==
  ASSUME NEW s, Good(s), NEW path, Ways(s, path), NEW amounts, NEW receiver \in Account,
         NEW x \in _swap(s, amounts, path, receiver)
  PROVE  Quiet(s, x)
<1>1. PICK after : Hops(after, s, amounts, path, receiver)
  BY SwapStages
<1>2. Len(path) - 1 \in 0 .. (Len(path) - 1)
  BY DEF Ways
<1> QED BY <1>1, <1>2 DEF Hops

(* The same of a swap of taxed tokens, which takes what has arrived.       *)
HopTaxed(y, path, i, receiver) ==
  LET out == getAmountOut(y.wallet[path[i]][{path[i], path[i + 1]}] - ReserveOf(y, path[i], path[i + 1]),
                          ReserveOf(y, path[i], path[i + 1]), ReserveOf(y, path[i + 1], path[i]))
  IN IF out > 0 THEN Hop(y, path, i, out, receiver) ELSE {}
HopsTaxed(after, s, path, receiver) ==
  /\ after[0] = {s} /\ _swapTaxed(s, path, receiver) = after[Len(path) - 1]
  /\ \A i \in 1 .. (Len(path) - 1) : after[i] = UNION {HopTaxed(y, path, i, receiver) : y \in after[i - 1]}
  /\ \A i \in 0 .. (Len(path) - 1) : \A y \in after[i] : Quiet(s, y)

(* _swapSupportingFeeOnTransferTokens: the same, with amounts measured at  *)
(* each pair.                                                              *)
LEMMA SwapTaxedStages ==
  ASSUME NEW s, Good(s), NEW path, Ways(s, path), NEW receiver \in Account
  PROVE  \E after : HopsTaxed(after, s, path, receiver)
<1> DEFINE n == Len(path) - 1
           U == {y \in States : Quiet(s, y)}
           Out(y, i) == getAmountOut(y.wallet[path[i]][{path[i], path[i + 1]}] - ReserveOf(y, path[i], path[i + 1]),
                                     ReserveOf(y, path[i], path[i + 1]), ReserveOf(y, path[i + 1], path[i]))
           Paid(y, i) == IF Out(y, i) > 0 THEN Hop(y, path, i, Out(y, i), receiver) ELSE {}
           On(S, i) == UNION {Paid(y, i) : y \in S}
           Runs(f) == f = [i \in 0 .. n |-> IF i = 0 THEN {s} ELSE On(f[i - 1], i)]
           after == CHOOSE f : Runs(f)
           g == [q \in (SUBSET U) \X (1 .. n) |-> On(q[1], q[2])]
<1>1. _swapTaxed(s, path, receiver) = after[n]
  BY DEF _swapTaxed, InTurn
<1>2. n \in Nat
  BY DEF Ways
<1>3. {s} \in SUBSET U
  BY SelfSame, SameIsQuiet, StateIn DEF Good
<1>4. ASSUME NEW S \in SUBSET U, NEW i \in 1 .. n PROVE On(S, i) \in SUBSET U
  <2> SUFFICES ASSUME NEW y \in U, NEW z \in Paid(y, i) PROVE z \in U
    OBVIOUS
  <2>1. z \in Hop(y, path, i, Out(y, i), receiver)
    OBVIOUS
  <2> HIDE DEF Out, Paid
  <2>2. Quiet(s, z)
    BY <2>1, HopLeads
  <2> QED BY <2>2, StateIn DEF Quiet, Grows, Good
<1> HIDE DEF On, U, n
<1>5. g \in [(SUBSET U) \X (1 .. n) -> SUBSET U]
  BY <1>4
<1>6. \A S \in SUBSET U : \A i \in 1 .. n : g[<<S, i>>] = On(S, i)
  OBVIOUS
<1> HIDE DEF g
<1>7. PICK f : IsRun(f, SUBSET U, n, {s}, g)
  BY <1>2, <1>3, <1>5, RunsExist
<1>8. Runs(f)
  <2> DEFINE h == [i \in 0 .. n |-> IF i = 0 THEN {s} ELSE On(f[i - 1], i)]
  <2>1. ASSUME NEW i \in 0 .. n PROVE h[i] = f[i]
    <3>1. CASE i = 0
      BY <1>7, <3>1 DEF IsRun
    <3>2. CASE i # 0
      <4>1. i \in 1 .. n /\ i - 1 \in 0 .. n
        BY <1>2, <3>2
      <4>2. f[i - 1] \in SUBSET U
        BY <1>7, <4>1 DEF IsRun
      <4>3. f[i] = On(f[i - 1], i)
        BY <1>6, <1>7, <4>1, <4>2 DEF IsRun
      <4> QED BY <3>2, <4>3
    <3> QED BY <3>1, <3>2
  <2>2. f = [i \in 0 .. n |-> f[i]]
    BY <1>7 DEF IsRun
  <2>3. h = [i \in 0 .. n |-> f[i]]
    BY <2>1
  <2> QED BY <2>2, <2>3
<1>9. Runs(after)
  <2> HIDE DEF Runs
  <2> QED BY <1>8
<1> HIDE DEF after
<1>10. after[0] = {s} /\ \A i \in 1 .. n : after[i] = On(after[i - 1], i)
  <2>1. \A i \in 0 .. n : after[i] = IF i = 0 THEN {s} ELSE On(after[i - 1], i)
    BY <1>9
  <2> QED BY <1>2, <2>1
<1>11. ASSUME NEW k \in 0 .. n PROVE after[k] \in SUBSET U
  <2>1. \A i \in 1 .. k : after[i - 1] \in SUBSET U => after[i] \in SUBSET U
    BY <1>2, <1>4, <1>10
  <2>2. after[0] \in SUBSET U /\ k \in Nat
    BY <1>2, <1>3, <1>10
  <2> HIDE DEF Runs
  <2> QED BY <2>1, <2>2, RunsStay
<1>12. \A k \in 0 .. n : \A y \in after[k] : Quiet(s, y)
  BY <1>11 DEF U
<1>13. \A S, i : On(S, i) = UNION {HopTaxed(y, path, i, receiver) : y \in S}
  BY DEF HopTaxed, On
<1> HIDE DEF Runs
<1>14. HopsTaxed(after, s, path, receiver)
  BY <1>1, <1>10, <1>12, <1>13 DEF HopsTaxed, n
<1> QED BY <1>14

(* Its steps keep the pairs' shares what they are worth.                   *)
LEMMA SwapPathTaxed ==
  ASSUME NEW s, Good(s), NEW path, Ways(s, path), NEW receiver \in Account,
         NEW x \in _swapTaxed(s, path, receiver)
  PROVE  Quiet(s, x)
<1>1. PICK after : HopsTaxed(after, s, path, receiver)
  BY SwapTaxedStages
<1>2. Len(path) - 1 \in 0 .. (Len(path) - 1)
  BY DEF Ways
<1> QED BY <1>1, <1>2 DEF HopsTaxed

-----------------------------------------------------------------------------
(* The router. What accounts send, as sequences of legs.                   *)
LEMMA Legs ==
  ASSUME NEW A, NEW a \in Asset, NEW b \in Asset, NEW h \in Account, NEW to \in Holder, NEW to2 \in Holder, NEW g \in Account,
         NEW m \in A, NEW n \in A
  PROVE  /\ <<<<a, h, to, m>>>> \in Seq(AccountLegs(A))
         /\ <<<<a, h, to, m>>, <<b, g, to2, n>>>> \in Seq(AccountLegs(A))
<1>1. <<a, h, to, m>> \in AccountLegs(A) /\ <<b, g, to2, n>> \in AccountLegs(A)
  BY DEF AccountLegs
<1> QED BY <1>1

(* Lists of legs, put together of those of the router's calls.             *)
LEMMA JoinLegs ==
  ASSUME NEW S, NEW x \in Seq(S), NEW y \in Seq(S)
  PROVE  x \o y \in Seq(S)
OBVIOUS

(* Wrapping and unwrapping ether.                                          *)
LEMMA WrapLegs ==
  ASSUME NEW A, NEW h \in Account, NEW m \in A
  PROVE  Wrap(h, m) \in Seq(AccountLegs(A)) /\ Unwrap(h, m) \in Seq(AccountLegs(A))
<1>1. ETH \in Asset /\ WETH \in Asset /\ WETH9 \in Account
  BY RouterAssumption
<1>2. h \in Holder /\ WETH9 \in Holder
  BY <1>1 DEF Holder
<1> QED BY <1>1, <1>2, Legs DEF Wrap, Unwrap

(* What the user sends to the first pair.                                  *)
LEMMA EnterLegs ==
  ASSUME NEW u \in Account, NEW path \in Seq(Token), Len(path) >= 2, {path[1], path[2]} \in Holder,
         NEW amount, NEW value, NEW ether
  PROVE  Enter(u, path, amount, value, ether) \in Seq(AccountLegs({amount, value}))
<1> DEFINE A == {amount, value}
           S == Seq(AccountLegs(A))
<1>1. ETH \in Asset /\ WETH \in Asset /\ Router \in Account /\ Router \in Holder
  BY RouterAssumption DEF Holder
<1>2. path[1] \in Asset
  BY RouterAssumption
<1>3. Wrap(Router, amount) \in S
  BY <1>1, WrapLegs
<1>4. <<<<ETH, u, Router, value>>>> \in S
  BY <1>1, Legs
<1>5. <<<<WETH, Router, {path[1], path[2]}, amount>>>> \in S
  BY <1>1, Legs
<1>6. <<<<path[1], u, {path[1], path[2]}, amount>>>> \in S
  BY <1>2, Legs
<1>7. (<<<<ETH, u, Router, value>>>> \o Wrap(Router, amount)) \o <<<<WETH, Router, {path[1], path[2]}, amount>>>> \in S
  BY <1>3, <1>4, <1>5, JoinLegs
<1> QED BY <1>6, <1>7 DEF Enter

(* What the router hands on.                                               *)
LEMMA LeaveLegs ==
  ASSUME NEW u \in Account, NEW amount, NEW ether
  PROVE  Leave(u, amount, ether) \in Seq(AccountLegs({amount}))
<1> DEFINE S == Seq(AccountLegs({amount}))
<1>1. ETH \in Asset /\ Router \in Account /\ u \in Holder
  BY RouterAssumption DEF Holder
<1>2. Unwrap(Router, amount) \in S
  BY <1>1, WrapLegs
<1>3. <<<<ETH, Router, u, amount>>>> \in S
  BY <1>1, Legs
<1>4. Unwrap(Router, amount) \o <<<<ETH, Router, u, amount>>>> \in S
  BY <1>2, <1>3, JoinLegs
<1>5. << >> \in S
  OBVIOUS
<1> QED BY <1>4, <1>5 DEF Leave

(* What is refunded of the ether sent.                                     *)
LEMMA RefundLegs ==
  ASSUME NEW u \in Account, NEW value, NEW used
  PROVE  DustRefund(u, value, used) \in Seq(AccountLegs({value - used}))
<1> DEFINE S == Seq(AccountLegs({value - used}))
<1>1. ETH \in Asset /\ Router \in Account /\ u \in Holder
  BY RouterAssumption DEF Holder
<1>2. <<<<ETH, Router, u, value - used>>>> \in S
  BY <1>1, Legs
<1>3. << >> \in S
  OBVIOUS
<1> QED BY <1>2, <1>3 DEF DustRefund

(* Swaps through the router keep supplies, and the products of reserves.   *)
LEMMA PathWays ==
  ASSUME NEW s, Good(s), NEW path \in Seq(Token), Len(path) >= 2, NEW ether, PathOK(s, path, ether)
  PROVE  Ways(s, path) /\ {path[1], path[2]} \in Holder
<1>1. Len(path) \in Nat \ {0}
  OBVIOUS
<1>2. Ways(s, path)
  BY <1>1 DEF PathOK, Ways
<1>3. {path[1], path[1 + 1]} \in DOMAIN s.pool /\ 1 + 1 = 2
  BY <1>1 DEF PathOK
<1>4. DOMAIN s.pool \subseteq Pair
  BY DEF Good, IsState
<1> QED BY <1>2, <1>3, <1>4, HoldersFinite

(* A path stays one of pairs when pairs only trade.                        *)
LEMMA WaysStay == ASSUME NEW s, NEW y, NEW path, Ways(s, path), Quiet(s, y) PROVE Ways(y, path)
BY DEF Ways, Quiet, Grows

(* The router's swaps of given amounts: in, along the path, out, refund.   *)
LEMMA ExchangeLeads ==
  ASSUME NEW s, Good(s), NEW u \in Account, NEW path \in Seq(Token), Len(path) >= 2, NEW ether, PathOK(s, path, ether),
         NEW amounts, NEW value, NEW x \in Exchange(s, u, path, amounts, value, ether)
  PROVE  Quiet(s, x)
<1> DEFINE T0 == Transfers(s, Enter(u, path, amounts[1], value, ether))
           T1(y) == _swap(y, amounts, path, Receiver(u, ether))
           T2(y) == Transfers(y, Leave(u, Last(amounts), ether))
           T3(y) == Transfers(y, IF ether = "in" THEN DustRefund(u, value, amounts[1]) ELSE <<>>)
<1>1. x \in Then(Then(Then(T0, T1), T2), T3)
  BY DEF Exchange
<1>2. Ways(s, path) /\ {path[1], path[2]} \in Holder
  BY PathWays
<1>3. Receiver(u, ether) \in Account
  BY RouterAssumption DEF Receiver
<1>4. \A y \in T0 : Quiet(s, y)
  BY <1>2, EnterLegs, AccountsPay, SameIsQuiet
<1>5. ASSUME NEW y, Quiet(s, y), NEW z \in T1(y) PROVE Quiet(s, z)
  <2>1. Good(y) /\ Ways(y, path)
    BY <1>2, <1>5, WaysStay DEF Quiet, Grows
  <2>2. Quiet(y, z)
    BY <1>3, <1>5, <2>1, SwapPath
  <2> QED BY <1>5, <2>2, QuietQuiet
<1>6. ASSUME NEW y, Quiet(s, y), NEW z \in T2(y) PROVE Quiet(s, z)
  <2>1. Good(y)
    BY <1>6 DEF Quiet, Grows
  <2>2. Quiet(y, z)
    BY <1>6, <2>1, LeaveLegs, AccountsPay, SameIsQuiet
  <2> QED BY <1>6, <2>2, QuietQuiet
<1>7. ASSUME NEW y, Quiet(s, y), NEW z \in T3(y) PROVE Quiet(s, z)
  <2>1. Good(y)
    BY <1>7 DEF Quiet, Grows
  <2> DEFINE legs == IF ether = "in" THEN DustRefund(u, value, amounts[1]) ELSE <<>>
             A == {value - amounts[1]}
  <2>2. DustRefund(u, value, amounts[1]) \in Seq(AccountLegs(A))
    BY RefundLegs
  <2> HIDE DEF A
  <2>3. legs \in Seq(AccountLegs(A))
    BY <2>2
  <2>4. z \in Transfers(y, legs)
    BY <1>7
  <2> HIDE DEF legs
  <2>5. Quiet(y, z)
    BY <2>1, <2>3, <2>4, AccountsPay, SameIsQuiet
  <2> QED BY <1>7, <2>5, QuietQuiet
<1> HIDE DEF T0, T1, T2, T3
<1> QED BY <1>1, <1>4, <1>5, <1>6, <1>7 DEF Then

(* The router's exact swaps are such.                                      *)
LEMMA SwapExactLeads ==
  ASSUME NEW s, Good(s), NEW u \in Account, NEW path \in Seq(Token), Len(path) >= 2, NEW ether,
         NEW amount, NEW limit,
         NEW x, x \in swapExactIn(s, u, path, amount, limit, ether) \/ x \in swapExactOut(s, u, path, amount, limit, ether)
  PROVE  Quiet(s, x)
<1>1. CASE x \in swapExactIn(s, u, path, amount, limit, ether)
  <2> DEFINE amounts == getAmountsOut(Reserves(s, path), amount, path)
  <2>1. PathOK(s, path, ether) /\ x \in Exchange(s, u, path, amounts, amount, ether)
    BY <1>1 DEF swapExactIn
  <2> HIDE DEF amounts
  <2> QED BY <2>1, ExchangeLeads
<1>2. CASE x \in swapExactOut(s, u, path, amount, limit, ether)
  <2> DEFINE amounts == getAmountsIn(Reserves(s, path), amount, path)
  <2>1. PathOK(s, path, ether) /\ x \in Exchange(s, u, path, amounts, limit, ether)
    BY <1>2 DEF swapExactOut
  <2> HIDE DEF amounts
  <2> QED BY <2>1, ExchangeLeads
<1> QED BY <1>1, <1>2

(* And those for tokens that tax transfers.                                *)
LEMMA SwapTaxedLeads ==
  ASSUME NEW s, Good(s), NEW u \in Account, NEW path \in Seq(Token), Len(path) >= 2, NEW ether,
         NEW amount, NEW limit, NEW x \in swapExactInTaxed(s, u, path, amount, limit, ether)
  PROVE  Quiet(s, x)
<1> DEFINE Before == IF ether = "out" THEN 0 ELSE s.wallet[Last(path)][u]
           Out(y) == y.wallet[Last(path)][Receiver(u, ether)]
           T0 == Transfers(s, Enter(u, path, amount, amount, ether))
           T1(y) == _swapTaxed(y, path, Receiver(u, ether))
           Swapped == {y \in Then(T0, T1) : Out(y) - Before >= limit}
           T2(y) == Transfers(y, Leave(u, Out(y), ether))
<1>1. PathOK(s, path, ether) /\ x \in Then(Swapped, T2)
  BY DEF swapExactInTaxed
<1>2. Ways(s, path) /\ {path[1], path[2]} \in Holder
  BY <1>1, PathWays
<1>3. Receiver(u, ether) \in Account
  BY RouterAssumption DEF Receiver
<1>4. \A y \in T0 : Quiet(s, y)
  BY <1>2, EnterLegs, AccountsPay, SameIsQuiet
<1>5. ASSUME NEW y, Quiet(s, y), NEW z \in T1(y) PROVE Quiet(s, z)
  <2>1. Good(y) /\ Ways(y, path)
    BY <1>2, <1>5, WaysStay DEF Quiet, Grows
  <2>2. Quiet(y, z)
    BY <1>3, <1>5, <2>1, SwapPathTaxed
  <2> QED BY <1>5, <2>2, QuietQuiet
<1>6. ASSUME NEW y, Quiet(s, y), NEW z \in T2(y) PROVE Quiet(s, z)
  <2>1. Good(y)
    BY <1>6 DEF Quiet, Grows
  <2>2. Leave(u, Out(y), ether) \in Seq(AccountLegs({Out(y)}))
    BY LeaveLegs
  <2> HIDE DEF Out
  <2>3. Quiet(y, z)
    BY <1>6, <2>1, <2>2, AccountsPay, SameIsQuiet
  <2> QED BY <1>6, <2>3, QuietQuiet
<1>7. \A y \in Swapped : Quiet(s, y)
  <2> HIDE DEF T0, T1, Out, Before
  <2> QED BY <1>4, <1>5 DEF Then
<1> HIDE DEF T0, T1, T2, Swapped
<1> QED BY <1>1, <1>6, <1>7 DEF Then

-----------------------------------------------------------------------------
(* Liquidity through the router.                                           *)
LEMMA AddedLeads ==
  ASSUME NEW s, Good(s), feeTo \in Account, NEW u \in Account, NEW a \in Token, NEW b \in Token, NEW desired, NEW min,
         NEW A, NEW legs, {a, b} \in Pair => legs \in Seq(AccountLegs(A)),
         NEW x \in Added(s, u, a, b, desired, min, legs)
  PROVE  Moves(s, x) /\ {a, b} \in Pair /\ {a, b} \in DOMAIN x.pool
<1> DEFINE p == {a, b}
           there == IF p \in DOMAIN s.pool THEN {s} ELSE createPair(s, p)
           T(y) == Transfers(y, legs)
           M(y) == mint(y, p, u)
<1>1. x \in Then(Then(there, T), M)
  BY DEF Added
<1> HIDE DEF p
<1>2. \A y \in there : Same(s, y) /\ p \in DOMAIN y.pool /\ p \in Pair
  <2>1. CASE p \in DOMAIN s.pool
    <3>1. DOMAIN s.pool \subseteq Pair
      BY DEF Good, IsState
    <3> QED BY <2>1, <3>1, SelfSame
  <2>2. CASE p \notin DOMAIN s.pool
    BY <2>2, CreatePairLeads
  <2> QED BY <2>1, <2>2
<1>3. ASSUME NEW y, Same(s, y), p \in DOMAIN y.pool, p \in Pair, NEW z \in T(y) PROVE Same(s, z) /\ p \in DOMAIN z.pool
  <2>1. Good(y)
    BY <1>3 DEF Same, Grows
  <2>2. legs \in Seq(AccountLegs(A))
    BY <1>3 DEF p
  <2>3. Same(y, z)
    BY <1>3, <2>1, <2>2, AccountsPay
  <2>4. p \in DOMAIN z.pool
    BY <1>3, <2>3 DEF Same, Grows
  <2> QED BY <1>3, <2>3, <2>4, SameSame
<1>4. ASSUME NEW y, Same(s, y), p \in DOMAIN y.pool, NEW z \in M(y) PROVE Moves(s, z) /\ p \in DOMAIN z.pool
  <2>1. Good(y) /\ u \in Holder
    BY <1>4 DEF Same, Grows, Holder
  <2>2. Moves(y, z) /\ DOMAIN z.pool = DOMAIN y.pool
    BY <1>4, <2>1, MintLeads
  <2> QED BY <1>4, <2>2, SameMoves
<1> HIDE DEF there, T, M
<1>5. \A y \in Then(there, T) : Same(s, y) /\ p \in DOMAIN y.pool /\ p \in Pair
  BY <1>2, <1>3 DEF Then
<1>6. Moves(s, x) /\ p \in DOMAIN x.pool /\ p \in Pair
  BY <1>1, <1>4, <1>5 DEF Then
<1> QED BY <1>6 DEF p

(* Liquidity that is added brings its pair, and moves the pairs as a mint  *)
(* does.                                                                   *)
LEMMA AddLiquidityLeads ==
  ASSUME NEW s, Good(s), feeTo \in Account, NEW u \in Account, NEW a \in Token, NEW b \in Token, NEW desired, NEW min,
         NEW x \in addLiquidity(s, u, a, b, desired, min)
  PROVE  Moves(s, x)
<1> DEFINE amounts == Amounts(s, a, b, desired)
           A == {amounts[1], amounts[2]}
           legs == <<<<a, u, {a, b}, amounts[1]>>, <<b, u, {a, b}, amounts[2]>>>>
<1>1. x \in Added(s, u, a, b, desired, min, legs)
  BY DEF addLiquidity
<1>2. ASSUME {a, b} \in Pair PROVE legs \in Seq(AccountLegs(A))
  <2>1. a \in Asset /\ b \in Asset /\ {a, b} \in Holder /\ amounts[1] \in A /\ amounts[2] \in A
    BY <1>2, PairAssumption, HoldersFinite
  <2> HIDE DEF amounts, A
  <2> QED BY <2>1, Legs
<1> HIDE DEF amounts, A, legs
<1> QED BY <1>1, <1>2, AddedLeads

(* The same with ether, of which the rest is refunded.                     *)
LEMMA AddLiquidityEthLeads ==
  ASSUME NEW s, Good(s), feeTo \in Account, NEW u \in Account, NEW token \in Token, NEW desired, NEW min,
         NEW x \in addLiquidityETH(s, u, token, desired, min)
  PROVE  Moves(s, x)
<1> DEFINE p == {token, WETH}
           amounts == Amounts(s, token, WETH, desired)
           one == amounts[1]  two == amounts[2]  sent == desired[2]
           A == {one, two, sent}
           first == <<<<ETH, u, Router, sent>>, <<token, u, p, one>>>>
           wrap == Wrap(Router, two)
           last == <<<<WETH, Router, p, two>>>>
           legs == first \o wrap \o last
           T0 == Added(s, u, token, WETH, desired, min, legs)
           T1(y) == Transfers(y, DustRefund(u, sent, two))
<1>1. x \in Then(T0, T1)
  BY DEF addLiquidityETH
<1>2. ETH \in Asset /\ WETH \in Token /\ WETH \in Asset /\ token \in Asset /\ Router \in Account /\ Router \in Holder
  BY RouterAssumption DEF Holder
<1>3. ASSUME p \in Pair PROVE legs \in Seq(AccountLegs(A))
  <2>1. p \in Holder /\ one \in A /\ two \in A /\ sent \in A
    BY <1>3, HoldersFinite
  <2> HIDE DEF p, one, two, sent, A
  <2>2. first \in Seq(AccountLegs(A)) /\ last \in Seq(AccountLegs(A))
    BY <1>2, <2>1, Legs
  <2>3. wrap \in Seq(AccountLegs(A))
    BY <1>2, <2>1, WrapLegs
  <2> HIDE DEF first, wrap, last
  <2>4. first \o wrap \in Seq(AccountLegs(A))
    BY <2>2, <2>3, JoinLegs
  <2> QED BY <2>2, <2>4, JoinLegs
<1>4. \A y \in T0 : Moves(s, y)
  <2> HIDE DEF one, two, sent, A, legs
  <2> QED BY <1>2, <1>3, AddedLeads
<1>5. ASSUME NEW y, Moves(s, y), NEW z \in T1(y) PROVE Moves(s, z)
  <2>1. Good(y)
    BY <1>5 DEF Moves, Grows
  <2> HIDE DEF two, sent
  <2>2. DustRefund(u, sent, two) \in Seq(AccountLegs({sent - two}))
    BY RefundLegs
  <2>3. Same(y, z)
    BY <1>5, <2>1, <2>2, AccountsPay
  <2> QED BY <1>5, <2>3, MovesSame
<1> HIDE DEF T0, T1
<1> QED BY <1>1, <1>4, <1>5 DEF Then

(* Liquidity that is taken out.                                            *)
LEMMA BurntLeads ==
  ASSUME NEW s, Good(s), feeTo \in Account, NEW u \in Account \ {Zero}, NEW p, NEW liquidity \in Nat, NEW min, NEW to \in Account,
         NEW x \in Burnt(s, u, p, liquidity, min, to)
  PROVE  Moves(s, x)
<1> DEFINE T0 == TransferShares(s, p, u, p, liquidity)
           B(y) == burn(y, p, to)
<1>1. p \in DOMAIN s.pool /\ x \in Then(T0, B)
  BY DEF Burnt
<1>2. p \in Holder /\ u \in Holder \ {Zero} /\ to \in Holder
  BY <1>1, HoldersFinite DEF Good, IsState, Holder
<1>3. \A y \in T0 : Same(s, y) /\ DOMAIN y.pool = DOMAIN s.pool
  BY <1>1, <1>2, TransferSharesLeads
<1>4. ASSUME NEW y, Same(s, y), DOMAIN y.pool = DOMAIN s.pool, NEW z \in B(y) PROVE Moves(s, z)
  <2>1. Good(y) /\ p \in DOMAIN y.pool
    BY <1>1, <1>4 DEF Same, Grows
  <2>2. Moves(y, z)
    BY <1>2, <1>4, <2>1, BurnLeads
  <2> QED BY <1>4, <2>2, SameMoves
<1> HIDE DEF T0, B
<1> QED BY <1>1, <1>3, <1>4 DEF Then

(* removeLiquidity: shares to the pair, burn.                              *)
LEMMA RemoveLiquidityLeads ==
  ASSUME NEW s, Good(s), feeTo \in Account, NEW u \in Account \ {Zero}, NEW p, NEW liquidity \in Nat, NEW min,
         NEW x \in removeLiquidity(s, u, p, liquidity, min)
  PROVE  Moves(s, x)
BY BurntLeads DEF removeLiquidity

(* The same with ether, unwrapped for the user.                            *)
LEMMA RemoveLiquidityEthLeads ==
  ASSUME NEW s, Good(s), feeTo \in Account, NEW u \in Account \ {Zero}, NEW token \in Token, NEW liquidity \in Nat, NEW min, NEW taxed,
         NEW x \in removeLiquidityETH(s, u, token, liquidity, min, taxed)
  PROVE  Moves(s, x)
<1> DEFINE p == {token, WETH}
           Got(y) == IF taxed THEN y.wallet[token][Router] ELSE Sent(s, y, p)[token]
           Ether(y) == Sent(s, y, p)[WETH]
           First(y) == <<<<token, Router, u, Got(y)>>>>
           Mid(y) == Unwrap(Router, Ether(y))
           End(y) == <<<<ETH, Router, u, Ether(y)>>>>
           T0 == Burnt(s, u, p, liquidity, min, Router)
           T1(y) == Transfers(y, First(y) \o Mid(y) \o End(y))
<1>1. x \in Then(T0, T1)
  BY DEF removeLiquidityETH
<1>2. ETH \in Asset /\ token \in Asset /\ Router \in Account /\ u \in Account /\ u \in Holder
  BY RouterAssumption, PairAssumption DEF Holder
<1>3. \A y \in T0 : Moves(s, y)
  <2> HIDE DEF p
  <2> QED BY <1>2, BurntLeads
<1>4. ASSUME NEW y, Moves(s, y), NEW z \in T1(y) PROVE Moves(s, z)
  <2>1. Good(y)
    BY <1>4 DEF Moves, Grows
  <2> DEFINE got == Got(y)  ether == Ether(y)  A == {got, ether}
  <2>2. got \in A /\ ether \in A
    OBVIOUS
  <2> HIDE DEF got, ether, A
  <2> DEFINE f == <<<<token, Router, u, got>>>>
             m == Unwrap(Router, ether)
             e == <<<<ETH, Router, u, ether>>>>
             S == Seq(AccountLegs(A))
  <2>3. f \in S /\ e \in S
    BY <1>2, <2>2, Legs
  <2>4. m \in S
    BY <1>2, <2>2, WrapLegs
  <2>5. z \in Transfers(y, f \o m \o e)
    BY <1>4 DEF got, ether
  <2> HIDE DEF f, m, e
  <2>6. f \o m \in S
    BY <2>3, <2>4, JoinLegs
  <2>7. f \o m \o e \in S
    BY <2>3, <2>6, JoinLegs
  <2>8. Same(y, z)
    BY <2>1, <2>5, <2>7, AccountsPay
  <2> QED BY <1>4, <2>8, MovesSame
<1> HIDE DEF T0, T1
<1> QED BY <1>1, <1>3, <1>4 DEF Then

-----------------------------------------------------------------------------
(* The contracts that trade for others: every leg of theirs keeps supplies *)
(* and the products of reserves.                                           *)
QuietLegs(s, L) == \A l \in L : Quiet(s, l.s)

(* Legs whose outcome is measured.                                         *)
LEMMA MeasuredLegs ==
  ASSUME NEW s, NEW b, NEW c, NEW a, NEW S, \A x \in S : Quiet(s, x)
  PROVE  QuietLegs(s, Measured(b, c, a, S))
BY DEF QuietLegs, Measured

(* Legs that are transfers between accounts.                               *)
LEMMA ConvertedLegs ==
  ASSUME NEW s, Good(s), NEW A, NEW legs \in Seq(AccountLegs(A)), NEW out
  PROVE  QuietLegs(s, Converted(s, out, legs))
<1>1. \A x \in Transfers(s, legs) : Quiet(s, x)
  BY AccountsPay, SameIsQuiet
<1> QED BY <1>1 DEF QuietLegs, Converted

(* No leg at all.                                                          *)
LEMMA SelfLegs == ASSUME NEW s, Good(s), NEW out PROVE QuietLegs(s, {[s |-> s, out |-> out]})
BY SelfSame, SameIsQuiet DEF QuietLegs

(* Wrapping and unwrapping as legs.                                        *)
LEMMA WrapConverted ==
  ASSUME NEW s, Good(s), NEW h \in Account, NEW m, NEW out
  PROVE  QuietLegs(s, Converted(s, out, Wrap(h, m))) /\ QuietLegs(s, Converted(s, out, Unwrap(h, m)))
<1>1. m \in {m}
  OBVIOUS
<1>2. Wrap(h, m) \in Seq(AccountLegs({m})) /\ Unwrap(h, m) \in Seq(AccountLegs({m}))
  BY <1>1, WrapLegs
<1> QED BY <1>2, ConvertedLegs

(* The outside market: transfers between accounts.                         *)
LEMMA TradeLegs ==
  ASSUME NEW s, Good(s), NEW c \in Account, NEW from \in Asset, NEW to \in Asset, NEW amount
  PROVE  QuietLegs(s, Trade(s, c, from, to, amount))
<1> DEFINE S == UNION {Transfers(s, <<<<from, c, Venue, amount>>, <<to, Venue, c, o>>>>) : o \in Outcome}
<1>1. ASSUME NEW o \in Outcome, NEW x \in Transfers(s, <<<<from, c, Venue, amount>>, <<to, Venue, c, o>>>>)
      PROVE  Quiet(s, x)
  <2> DEFINE A == {amount, o}
             legs == <<<<from, c, Venue, amount>>, <<to, Venue, c, o>>>>
  <2>1. Venue \in Account /\ Venue \in Holder /\ c \in Holder /\ amount \in A /\ o \in A
    BY SwapAssumption DEF Holder
  <2> HIDE DEF A
  <2>2. legs \in Seq(AccountLegs(A))
    BY <2>1, Legs
  <2>3. x \in Transfers(s, legs)
    BY <1>1
  <2> HIDE DEF legs
  <2> QED BY <2>2, <2>3, AccountsPay, SameIsQuiet
<1>2. \A x \in S : Quiet(s, x)
  BY <1>1
<1> HIDE DEF S
<1>3. QuietLegs(s, Measured(s, c, to, S))
  BY <1>2, MeasuredLegs
<1> QED BY <1>3 DEF Trade, S

(* A swap through the router, fees kept or not.                            *)
LEMMA V2Legs ==
  ASSUME NEW s, Good(s), NEW c \in Account, NEW from \in Asset, NEW to \in Asset, NEW amount, NEW kept
  PROVE  QuietLegs(s, _v2(s, c, from, to, amount, kept))
<1> DEFINE p == {from, to}
           in == amount * kept
           amountOut == (in * ReserveOf(s, to, from)) \div (ReserveOf(s, from, to) * FEE_BASE + in)
           out == [t \in p |-> IF t = to THEN amountOut ELSE 0]
           zero == [t \in p |-> 0]
           T0 == Transfers(s, <<<<from, c, p, amount>>>>)
           T1(x) == swap(x, p, out, c, zero)
<1>1. CASE p \in DOMAIN s.pool
  <2>1. p \in Holder /\ c \in Holder
    BY <1>1, HoldersFinite DEF Good, IsState, Holder
  <2>2. \A x \in T0 : Same(s, x)
    <3> DEFINE A == {amount}
    <3>1. amount \in A
      OBVIOUS
    <3> HIDE DEF A, p
    <3>2. <<<<from, c, p, amount>>>> \in Seq(AccountLegs(A))
      BY <2>1, <3>1, Legs
    <3> QED BY <3>2, AccountsPay
  <2> HIDE DEF out
  <2>3. ASSUME NEW x, Same(s, x), NEW z \in T1(x) PROVE Quiet(s, z)
    <3>1. Good(x) /\ p \in DOMAIN x.pool
      BY <1>1, <2>3 DEF Same, Grows
    <3> HIDE DEF p, zero
    <3>2. Quiet(x, z)
      BY <2>1, <2>3, <3>1, SwapLeads
    <3> QED BY <2>3, <3>2, SameIsQuiet, QuietQuiet
  <2> DEFINE S == Then(T0, T1)
  <2>4. \A x \in S : Quiet(s, x)
    <3> HIDE DEF T0, T1
    <3> QED BY <2>2, <2>3 DEF Then
  <2>5. QuietLegs(s, {})
    BY DEF QuietLegs
  <2>6. _v2(s, c, from, to, amount, kept) = IF p \in DOMAIN s.pool /\ amount > 0 THEN Measured(s, c, to, S) ELSE {}
    BY DEF _v2, out
  <2> HIDE DEF S
  <2>7. QuietLegs(s, Measured(s, c, to, S))
    BY <2>4, MeasuredLegs
  <2> QED BY <2>5, <2>6, <2>7
<1>2. CASE p \notin DOMAIN s.pool
  BY <1>2 DEF _v2, QuietLegs
<1> QED BY <1>1, <1>2

(* A second leg that begins where a first one ends.                        *)
LEMMA LegsAfter ==
  ASSUME NEW s, NEW x, Good(s), Quiet(s, x), NEW L, QuietLegs(x, L)
  PROVE  QuietLegs(s, L)
BY QuietQuiet DEF QuietLegs

(* A leg from or to WETH, of any kind of spoke.                            *)
LEMMA WethLegs ==
  ASSUME NEW s, Good(s), NEW c \in Account, NEW from \in Asset, NEW to \in Asset, NEW amount, NEW kept,
         from # to, from = WETH \/ to = WETH, NEW kind \in {"v2", "v3", "via"}
  PROVE  QuietLegs(s, WethLeg(s, c, from, to, amount, kind, kept))
<1>1. CASE kind = "v3"
  BY <1>1, TradeLegs DEF WethLeg, _v3
<1>2. CASE kind = "v2"
  BY <1>2, V2Legs DEF WethLeg
<1>3. VIRTUAL \in Asset /\ WETH \in Asset
  BY SwapAssumption, RouterAssumption, PairAssumption
<1>4. CASE kind = "via" /\ to = WETH
  <2> DEFINE L == _v2(s, c, from, VIRTUAL, amount, kept)
             Leg(y, out) == _v2(y, c, VIRTUAL, WETH, out, FEE_BASE - FEE)
  <2>1. WethLeg(s, c, from, to, amount, kind, kept) = Chain(L, Leg)
    BY <1>4 DEF WethLeg
  <2>2. QuietLegs(s, L)
    BY <1>3, V2Legs
  <2>3. ASSUME NEW y, Quiet(s, y), NEW out PROVE QuietLegs(s, Leg(y, out))
    <3>1. Good(y)
      BY <2>3 DEF Quiet, Grows
    <3>2. QuietLegs(y, Leg(y, out))
      BY <1>3, <3>1, V2Legs
    <3> QED BY <2>3, <3>2, LegsAfter
  <2> HIDE DEF L, Leg
  <2> QED BY <2>1, <2>2, <2>3 DEF Chain, QuietLegs
<1>5. CASE kind = "via" /\ to # WETH
  <2> DEFINE L == _v2(s, c, WETH, VIRTUAL, amount, FEE_BASE - FEE)
             Leg(y, out) == _v2(y, c, VIRTUAL, to, out, kept)
  <2>1. WethLeg(s, c, from, to, amount, kind, kept) = Chain(L, Leg)
    BY <1>5 DEF WethLeg
  <2>2. QuietLegs(s, L)
    BY <1>3, V2Legs
  <2>3. ASSUME NEW y, Quiet(s, y), NEW out PROVE QuietLegs(s, Leg(y, out))
    <3>1. Good(y)
      BY <2>3 DEF Quiet, Grows
    <3>2. QuietLegs(y, Leg(y, out))
      BY <1>3, <3>1, V2Legs
    <3> QED BY <2>3, <3>2, LegsAfter
  <2> HIDE DEF L, Leg
  <2> QED BY <2>1, <2>2, <2>3 DEF Chain, QuietLegs
<1> QED BY <1>1, <1>2, <1>4, <1>5

(* To ETH and from it, for AggRouter and PublicRouter.                     *)
LEMMA PulledLegs ==
  ASSUME NEW s, Good(s), NEW c \in Account, NEW u \in Account, NEW a \in Asset, NEW amount
  PROVE  QuietLegs(s, Pulled(s, c, u, a, amount))
<1> DEFINE A == {amount}  S == Transfers(s, <<<<a, u, c, amount>>>>)
<1>1. amount \in A /\ c \in Holder
  BY DEF Holder
<1> HIDE DEF A
<1>2. <<<<a, u, c, amount>>>> \in Seq(AccountLegs(A))
  BY <1>1, Legs
<1>3. \A x \in S : Quiet(s, x)
  BY <1>2, AccountsPay, SameIsQuiet
<1> HIDE DEF S
<1>4. QuietLegs(s, Measured(s, c, a, S))
  BY <1>3, MeasuredLegs
<1> QED BY <1>4 DEF Pulled, S

(* SwapAggregator's way in, any spoke.                                     *)
LEMMA ToEthLegs ==
  ASSUME NEW s, Good(s), NEW c \in Account, NEW u \in Account, NEW token \in Asset, NEW spoke, IsSpoke(spoke), NEW amount
  PROVE  QuietLegs(s, _toEth(s, c, u, token, spoke, amount))
<1> DEFINE Swapped(x, got) ==
             IF token = WETH THEN Converted(x, amount, Unwrap(c, amount))
             ELSE IF spoke.kind = "v4" THEN _v4(x, c, token, ETH, amount)
             ELSE Chain(WethLeg(x, c, token, WETH, amount, spoke.kind, _v2Fee(spoke.fee)),
                        LAMBDA y, out : Converted(y, out, Unwrap(c, out)))
<1>1. WETH \in Asset /\ ETH \in Asset
  BY RouterAssumption, PairAssumption
<1>2. CASE token = ETH
  BY <1>1, <1>2, PulledLegs DEF _toEth
<1>3. CASE token # ETH
  <2> DEFINE P == Pulled(s, c, u, token, amount)
  <2>1. _toEth(s, c, u, token, spoke, amount) = Chain(P, Swapped)
    BY <1>3 DEF _toEth
  <2>2. QuietLegs(s, P)
    BY PulledLegs
  <2>3. ASSUME NEW x, Quiet(s, x), NEW got PROVE QuietLegs(s, Swapped(x, got))
    <3>1. Good(x)
      BY <2>3 DEF Quiet, Grows
    <3>2. CASE token = WETH
      <4>1. QuietLegs(x, Converted(x, amount, Unwrap(c, amount)))
        BY <3>1, WrapConverted
      <4>2. QuietLegs(s, Converted(x, amount, Unwrap(c, amount)))
        BY <2>3, <4>1, LegsAfter
      <4> QED BY <3>2, <4>2
    <3>3. CASE token # WETH /\ spoke.kind = "v4"
      <4>1. QuietLegs(x, _v4(x, c, token, ETH, amount))
        BY <1>1, <3>1, TradeLegs DEF _v4
      <4>2. QuietLegs(s, _v4(x, c, token, ETH, amount))
        BY <2>3, <4>1, LegsAfter
      <4> QED BY <3>3, <4>2
    <3>4. CASE token # WETH /\ spoke.kind # "v4"
      <4> DEFINE kind == spoke.kind  kept == _v2Fee(spoke.fee)
                 L == WethLeg(x, c, token, WETH, amount, kind, kept)
                 Out(y, out) == Converted(y, out, Unwrap(c, out))
      <4>1. Swapped(x, got) = Chain(L, Out)
        BY <3>4
      <4>2. kind \in {"v2", "v3", "via"}
        BY <3>4 DEF IsSpoke
      <4> HIDE DEF kind, kept
      <4>3. QuietLegs(x, L)
        BY <1>1, <3>1, <3>4, <4>2, WethLegs
      <4>4. QuietLegs(s, L)
        BY <2>3, <4>3, LegsAfter
      <4>5. ASSUME NEW y, Quiet(s, y), NEW out PROVE QuietLegs(s, Out(y, out))
        <5>1. Good(y)
          BY <4>5 DEF Quiet, Grows
        <5>2. QuietLegs(y, Out(y, out))
          BY <5>1, WrapConverted
        <5> QED BY <4>5, <5>2, LegsAfter
      <4> HIDE DEF L, Out, Swapped
      <4> QED BY <4>1, <4>4, <4>5 DEF Chain, QuietLegs
    <3> QED BY <3>2, <3>3, <3>4
  <2> HIDE DEF P, Swapped
  <2> QED BY <2>1, <2>2, <2>3 DEF Chain, QuietLegs
<1> QED BY <1>2, <1>3

(* SwapAggregator's way out.                                               *)
LEMMA FromEthLegs ==
  ASSUME NEW s, Good(s), NEW c \in Account, NEW token \in Asset, NEW spoke, IsSpoke(spoke), NEW amount
  PROVE  QuietLegs(s, _fromEth(s, c, token, spoke, amount))
<1>1. WETH \in Asset /\ ETH \in Asset
  BY RouterAssumption, PairAssumption
<1>2. CASE token = ETH
  BY <1>2, SelfLegs DEF _fromEth
<1>3. CASE token # ETH /\ token = WETH
  BY <1>3, WrapConverted DEF _fromEth
<1>4. CASE token # ETH /\ token # WETH /\ spoke.kind = "v4"
  BY <1>1, <1>4, TradeLegs DEF _fromEth, _v4
<1>5. CASE token # ETH /\ token # WETH /\ spoke.kind # "v4"
  <2> DEFINE kind == spoke.kind  kept == _v2Fee(spoke.fee)
             L == Converted(s, amount, Wrap(c, amount))
             Leg(x, out) == WethLeg(x, c, WETH, token, out, kind, kept)
  <2>1. _fromEth(s, c, token, spoke, amount) = Chain(L, Leg)
    BY <1>5 DEF _fromEth
  <2>2. kind \in {"v2", "v3", "via"}
    BY <1>5 DEF IsSpoke
  <2> HIDE DEF kind, kept
  <2>3. QuietLegs(s, L)
    BY WrapConverted
  <2>4. ASSUME NEW x, Quiet(s, x), NEW out PROVE QuietLegs(s, Leg(x, out))
    <3>1. Good(x)
      BY <2>4 DEF Quiet, Grows
    <3>2. QuietLegs(x, Leg(x, out))
      BY <1>1, <1>5, <2>2, <3>1, WethLegs
    <3> QED BY <2>4, <3>2, LegsAfter
  <2> HIDE DEF L, Leg
  <2> QED BY <2>1, <2>3, <2>4 DEF Chain, QuietLegs
<1> QED BY <1>2, <1>3, <1>4, <1>5

(* Both, whatever is traded for what.                                      *)
LEMMA TradedLegs ==
  ASSUME NEW s, Good(s), NEW c \in Account, NEW u \in Account, NEW in \in Asset, NEW out \in Asset,
         NEW spokeIn, IsSpoke(spokeIn), NEW spokeOut, IsSpoke(spokeOut), NEW amount
  PROVE  QuietLegs(s, Traded(s, c, u, in, out, spokeIn, spokeOut, amount))
<1> DEFINE L == _toEth(s, c, u, in, spokeIn, amount)
           Leg(x, eth) == _fromEth(x, c, out, spokeOut, eth)
<1>1. CASE in = out
  BY <1>1 DEF Traded, QuietLegs
<1>2. CASE in # out
  <2>1. Traded(s, c, u, in, out, spokeIn, spokeOut, amount) = Chain(L, Leg)
    BY <1>2 DEF Traded
  <2>2. QuietLegs(s, L)
    BY ToEthLegs
  <2>3. ASSUME NEW x, Quiet(s, x), NEW eth PROVE QuietLegs(s, Leg(x, eth))
    <3>1. Good(x)
      BY <2>3 DEF Quiet, Grows
    <3>2. QuietLegs(x, Leg(x, eth))
      BY <3>1, FromEthLegs
    <3> QED BY <2>3, <3>2, LegsAfter
  <2> HIDE DEF L, Leg
  <2> QED BY <2>1, <2>2, <2>3 DEF Chain, QuietLegs
<1> QED BY <1>1, <1>2

(* The fee and the payment to the user.                                    *)
LEMMA PayoutLeads ==
  ASSUME NEW s, Good(s), NEW c \in Account, NEW u \in Account, NEW out \in Asset, NEW gross, NEW bps, NEW least,
         NEW x \in Payout(s, c, u, out, gross, bps, least)
  PROVE  Quiet(s, x)
<1> DEFINE fee == (gross * bps) \div BPS
           rest == gross - fee
           A == {fee, rest}
           legs == <<<<out, c, Treasury, fee>>, <<out, c, u, rest>>>>
<1>1. x \in Transfers(s, legs)
  BY DEF Payout
<1>2. Treasury \in Holder /\ u \in Holder /\ fee \in A /\ rest \in A
  BY SwapAssumption DEF Holder
<1> HIDE DEF fee, rest, A
<1>3. legs \in Seq(AccountLegs(A))
  BY <1>2, Legs
<1> HIDE DEF legs
<1> QED BY <1>1, <1>3, AccountsPay, SameIsQuiet

(* So do their trades.                                                     *)
LEMMA AggSwapLeads ==
  ASSUME NEW s, Good(s), NEW u \in Account, NEW in \in Asset, NEW out \in Asset,
         NEW spokeIn, IsSpoke(spokeIn), NEW spokeOut, IsSpoke(spokeOut), NEW amount, NEW least,
         NEW x \in aggSwap(s, u, in, spokeIn, out, spokeOut, amount, least)
  PROVE  Quiet(s, x)
<1> DEFINE L == Traded(s, AggRouter, u, in, out, spokeIn, spokeOut, amount)
<1>1. AggRouter \in Account
  BY SwapAssumption
<1>2. PICK l \in L : x \in Payout(l.s, AggRouter, u, out, l.out, _feeBps(l.s, u), least)
  BY DEF aggSwap
<1>3. QuietLegs(s, L)
  BY <1>1, TradedLegs
<1>4. Quiet(s, l.s) /\ Good(l.s)
  BY <1>3 DEF QuietLegs, Quiet, Grows
<1>5. Quiet(l.s, x)
  BY <1>1, <1>2, <1>4, PayoutLeads
<1> QED BY <1>4, <1>5, QuietQuiet

(* publicSwap of the aggregator.                                           *)
LEMMA PublicSwapLeads ==
  ASSUME NEW s, Good(s), NEW u \in Account, NEW in \in Asset, NEW out \in Asset, NEW amount, NEW least,
         NEW x \in publicSwap(s, u, in, out, amount, least)
  PROVE  Quiet(s, x)
<1> DEFINE v4 == [kind |-> "v4", fee |-> 0]
           L == Traded(s, PublicRouter, u, in, out, v4, v4, amount)
<1>1. PublicRouter \in Account /\ IsSpoke(v4)
  BY SwapAssumption DEF IsSpoke
<1>2. PICK l \in L : x \in Payout(l.s, PublicRouter, u, out, l.out, 0, least)
  BY DEF publicSwap
<1> HIDE DEF v4
<1>3. QuietLegs(s, L)
  BY <1>1, TradedLegs
<1>4. Quiet(s, l.s) /\ Good(l.s)
  BY <1>3 DEF QuietLegs, Quiet, Grows
<1>5. Quiet(l.s, x)
  BY <1>1, <1>2, <1>4, PayoutLeads
<1> QED BY <1>4, <1>5, QuietQuiet

(* SwapExecutor's way to WETH ...                                          *)
LEMMA ToWethLegs ==
  ASSUME NEW s, Good(s), NEW token \in Token, NEW amount
  PROVE  QuietLegs(s, _toWeth(s, token, amount))
<1>1. SwapExecutor \in Account /\ ETH \in Asset /\ WETH \in Asset /\ token \in Asset
  BY SwapAssumption, RouterAssumption, PairAssumption
<1>2. CASE Way(token) = "weth"
  BY <1>2, SelfLegs DEF _toWeth
<1>3. CASE Way(token) = "v4"
  <2> DEFINE L == _v4Single(s, token, ETH, amount)
             Leg(x, out) == Converted(x, out, Wrap(SwapExecutor, out))
  <2>1. _toWeth(s, token, amount) = Chain(L, Leg)
    BY <1>3 DEF _toWeth, _stockToWeth
  <2>2. QuietLegs(s, L)
    BY <1>1, TradeLegs DEF _v4Single
  <2>3. ASSUME NEW x, Quiet(s, x), NEW out PROVE QuietLegs(s, Leg(x, out))
    <3>1. Good(x)
      BY <2>3 DEF Quiet, Grows
    <3>2. QuietLegs(x, Leg(x, out))
      BY <1>1, <3>1, WrapConverted
    <3> QED BY <2>3, <3>2, LegsAfter
  <2> HIDE DEF L, Leg
  <2> QED BY <2>1, <2>2, <2>3 DEF Chain, QuietLegs
<1>4. CASE Way(token) # "weth" /\ Way(token) # "v4"
  <2> DEFINE kind == Way(token)  kept == KeptOf(token)
  <2>1. _toWeth(s, token, amount) = WethLeg(s, SwapExecutor, token, WETH, amount, kind, kept)
    BY <1>4 DEF _toWeth
  <2>2. kind \in {"v2", "v3", "via"} /\ token # WETH
    BY <1>4, SwapAssumption DEF Way
  <2> HIDE DEF kind, kept
  <2> QED BY <1>1, <2>1, <2>2, WethLegs
<1> QED BY <1>2, <1>3, <1>4

(* ... and from it.                                                        *)
LEMMA FromWethLegs ==
  ASSUME NEW s, Good(s), NEW token \in Token, NEW amount
  PROVE  QuietLegs(s, _fromWeth(s, token, amount))
<1>1. SwapExecutor \in Account /\ ETH \in Asset /\ WETH \in Asset /\ token \in Asset
  BY SwapAssumption, RouterAssumption, PairAssumption
<1>2. CASE Way(token) = "weth"
  BY <1>2, SelfLegs DEF _fromWeth
<1>3. CASE Way(token) = "v4"
  <2> DEFINE L == Converted(s, amount, Unwrap(SwapExecutor, amount))
             Leg(x, out) == _v4Single(x, ETH, token, out)
  <2>1. _fromWeth(s, token, amount) = Chain(L, Leg)
    BY <1>3 DEF _fromWeth, _wethToStock
  <2>2. QuietLegs(s, L)
    BY <1>1, WrapConverted
  <2>3. ASSUME NEW x, Quiet(s, x), NEW out PROVE QuietLegs(s, Leg(x, out))
    <3>1. Good(x)
      BY <2>3 DEF Quiet, Grows
    <3>2. QuietLegs(x, Leg(x, out))
      BY <1>1, <3>1, TradeLegs DEF _v4Single
    <3> QED BY <2>3, <3>2, LegsAfter
  <2> HIDE DEF L, Leg
  <2> QED BY <2>1, <2>2, <2>3 DEF Chain, QuietLegs
<1>4. CASE Way(token) # "weth" /\ Way(token) # "v4"
  <2> DEFINE kind == Way(token)  kept == KeptOf(token)
  <2>1. _fromWeth(s, token, amount) = WethLeg(s, SwapExecutor, WETH, token, amount, kind, kept)
    BY <1>4 DEF _fromWeth
  <2>2. kind \in {"v2", "v3", "via"} /\ token # WETH
    BY <1>4, SwapAssumption DEF Way
  <2> HIDE DEF kind, kept
  <2> QED BY <1>1, <2>1, <2>2, WethLegs
<1> QED BY <1>2, <1>3, <1>4

(* The swap that the executor runs for the shielded pool.                  *)
LEMMA ExecutorSwapLeads ==
  ASSUME NEW s, Good(s), NEW in \in Token, NEW out \in Token, NEW amount, NEW least,
         NEW x \in executorSwap(s, in, out, amount, least)
  PROVE  Quiet(s, x)
<1> DEFINE funded == Transfers(s, <<<<in, Pool, SwapExecutor, amount>>>>)
           Way2(y) == Chain(_toWeth(y, in, amount), LAMBDA z, weth : _fromWeth(z, out, weth))
           legs == UNION {Way2(y) : y \in funded}
<1>1. Pool \in Account /\ SwapExecutor \in Account /\ Pool \in Holder /\ SwapExecutor \in Holder /\ in \in Asset /\ out \in Asset
  BY SwapAssumption, PairAssumption DEF Holder
<1>2. ASSUME NEW y \in funded PROVE Quiet(s, y)
  <2> DEFINE A == {amount}
  <2>1. amount \in A
    OBVIOUS
  <2> HIDE DEF A
  <2>2. <<<<in, Pool, SwapExecutor, amount>>>> \in Seq(AccountLegs(A))
    BY <1>1, <2>1, Legs
  <2> QED BY <2>2, AccountsPay, SameIsQuiet
<1>3. ASSUME NEW y, Quiet(s, y) PROVE QuietLegs(s, Way2(y))
  <2> DEFINE L == _toWeth(y, in, amount)
             Leg(z, weth) == _fromWeth(z, out, weth)
  <2>1. Good(y)
    BY <1>3 DEF Quiet, Grows
  <2>2. QuietLegs(y, L)
    BY <2>1, ToWethLegs
  <2>3. QuietLegs(s, L)
    BY <1>3, <2>2, LegsAfter
  <2>4. ASSUME NEW z, Quiet(s, z), NEW weth PROVE QuietLegs(s, Leg(z, weth))
    <3>1. Good(z)
      BY <2>4 DEF Quiet, Grows
    <3>2. QuietLegs(z, Leg(z, weth))
      BY <3>1, FromWethLegs
    <3> QED BY <2>4, <3>2, LegsAfter
  <2>5. Way2(y) = Chain(L, Leg)
    OBVIOUS
  <2> HIDE DEF L, Leg, Way2
  <2> QED BY <2>3, <2>4, <2>5 DEF Chain, QuietLegs
<1>4. PICK l \in legs : x \in Transfers(l.s, <<<<out, SwapExecutor, Pool, l.out>>>>)
  BY DEF executorSwap
<1>5. Quiet(s, l.s)
  <2> HIDE DEF funded, Way2
  <2> QED BY <1>2, <1>3, <1>4 DEF QuietLegs
<1>6. Good(l.s)
  BY <1>5 DEF Quiet, Grows
<1>7. Quiet(l.s, x)
  <2> DEFINE m == l.out  A == {m}
  <2>1. m \in A
    OBVIOUS
  <2> HIDE DEF A, m
  <2>2. <<<<out, SwapExecutor, Pool, m>>>> \in Seq(AccountLegs(A))
    BY <1>1, <2>1, Legs
  <2>3. x \in Transfers(l.s, <<<<out, SwapExecutor, Pool, m>>>>)
    BY <1>4 DEF m
  <2> QED BY <1>6, <2>2, <2>3, AccountsPay, SameIsQuiet
<1> QED BY <1>5, <1>7, QuietQuiet

-----------------------------------------------------------------------------
(* The AMM as a whole. It starts with liquidity that was added, in a good  *)
(* state.                                                                  *)
LEMMA EmptyGood ==
  ASSUME NEW w \in [Asset -> [Holder -> Nat]]
  PROVE  Good([wallet |-> w, pool |-> <<>>])
<1>1. DOMAIN <<>> = {} /\ <<>> = [p \in {} |-> 0]
  OBVIOUS
<1>2. <<>> = [q \in DOMAIN <<>> |-> <<>>[q]]
  BY <1>1
<1>3. IsState([wallet |-> w, pool |-> <<>>])
  BY <1>1, <1>2, StateOf
<1> QED BY <1>1, <1>3 DEF Good

(* A deposit of a seeding, and what all of them keep: a set of states that *)
(* no deposit leaves is not left by seeding.                               *)
Seed(y, l) == addLiquidity(y, Founder, l[1], l[2], <<l[3], l[4]>>, <<0, 0>>)

(* Deposits one after another.                                             *)
LEMMA SeededStays ==
  ASSUME NEW seeding \in Seq(Token \X Token \X Nat \X Nat), NEW U, NEW s \in U,
         \A y \in U, l \in Token \X Token \X Nat \X Nat : Seed(y, l) \subseteq U,
         NEW x \in Seeded(s, seeding)
  PROVE  x \in U
<1> DEFINE n == Len(seeding)
           Add(y, i) == LET l == seeding[i] IN addLiquidity(y, Founder, l[1], l[2], <<l[3], l[4]>>, <<0, 0>>)
           On(S, i) == UNION {Add(y, i) : y \in S}
           Runs(f) == f = [i \in 0 .. n |-> IF i = 0 THEN {s} ELSE On(f[i - 1], i)]
           after == CHOOSE f : Runs(f)
           g == [q \in (SUBSET U) \X (1 .. n) |-> On(q[1], q[2])]
<1>1. Seeded(s, seeding) = after[n]
  BY DEF Seeded, InTurn
<1>2. n \in Nat
  OBVIOUS
<1>3. {s} \in SUBSET U
  OBVIOUS
<1>4. ASSUME NEW S \in SUBSET U, NEW i \in 1 .. n PROVE On(S, i) \in SUBSET U
  <2> SUFFICES ASSUME NEW y \in U, NEW z \in Add(y, i) PROVE z \in U
    OBVIOUS
  <2>1. seeding[i] \in Token \X Token \X Nat \X Nat
    OBVIOUS
  <2>2. z \in Seed(y, seeding[i])
    BY DEF Seed
  <2> HIDE DEF Add
  <2> QED BY <2>1, <2>2
<1> HIDE DEF On, n
<1>5. g \in [(SUBSET U) \X (1 .. n) -> SUBSET U]
  BY <1>4
<1>6. \A S \in SUBSET U : \A i \in 1 .. n : g[<<S, i>>] = On(S, i)
  OBVIOUS
<1> HIDE DEF g
<1>7. PICK f : IsRun(f, SUBSET U, n, {s}, g)
  BY <1>2, <1>3, <1>5, RunsExist
<1>8. Runs(f)
  <2> DEFINE h == [i \in 0 .. n |-> IF i = 0 THEN {s} ELSE On(f[i - 1], i)]
  <2>1. ASSUME NEW i \in 0 .. n PROVE h[i] = f[i]
    <3>1. CASE i = 0
      BY <1>7, <3>1 DEF IsRun
    <3>2. CASE i # 0
      <4>1. i \in 1 .. n /\ i - 1 \in 0 .. n
        BY <1>2, <3>2
      <4>2. f[i - 1] \in SUBSET U
        BY <1>7, <4>1 DEF IsRun
      <4>3. f[i] = On(f[i - 1], i)
        BY <1>6, <1>7, <4>1, <4>2 DEF IsRun
      <4> QED BY <3>2, <4>3
    <3> QED BY <3>1, <3>2
  <2>2. f = [i \in 0 .. n |-> f[i]]
    BY <1>7 DEF IsRun
  <2>3. h = [i \in 0 .. n |-> f[i]]
    BY <2>1
  <2> QED BY <2>2, <2>3
<1>9. Runs(after)
  <2> HIDE DEF Runs
  <2> QED BY <1>8
<1> HIDE DEF after
<1>10. after[0] = {s} /\ \A i \in 1 .. n : after[i] = On(after[i - 1], i)
  <2>1. \A i \in 0 .. n : after[i] = IF i = 0 THEN {s} ELSE On(after[i - 1], i)
    BY <1>9
  <2> QED BY <1>2, <2>1
<1>11. after[n] \in SUBSET U
  <2>1. \A i \in 1 .. n : after[i - 1] \in SUBSET U => after[i] \in SUBSET U
    BY <1>4, <1>10
  <2>2. after[0] \in SUBSET U
    BY <1>3, <1>10
  <2> HIDE DEF Runs
  <2> QED BY <1>2, <2>1, <2>2, RunsStay
<1> QED BY <1>1, <1>11

(* From good pairs it makes good ones.                                     *)
LEMMA SeededGood ==
  ASSUME NEW s, Good(s), feeTo \in Account, NEW seeding \in Seq(Token \X Token \X Nat \X Nat), NEW x \in Seeded(s, seeding)
  PROVE  Good(x)
<1> DEFINE U == {y \in States : Good(y)}
<1>1. s \in U
  BY StateIn DEF Good
<1>2. ASSUME NEW y \in U, NEW l \in Token \X Token \X Nat \X Nat PROVE Seed(y, l) \subseteq U
  <2> SUFFICES ASSUME NEW z \in Seed(y, l) PROVE z \in U
    OBVIOUS
  <2> DEFINE a == l[1]  b == l[2]  desired == <<l[3], l[4]>>  none == <<0, 0>>
  <2>1. a \in Token /\ b \in Token /\ Founder \in Account
    BY AmmAssumption
  <2>2. z \in addLiquidity(y, Founder, a, b, desired, none)
    BY DEF Seed
  <2> HIDE DEF a, b, desired, none
  <2>3. Good(z)
    BY <2>1, <2>2, AddLiquidityLeads DEF Moves, Grows
  <2> QED BY <2>3, StateIn DEF Good
<1> HIDE DEF U
<1>3. x \in U
  BY <1>1, <1>2, SeededStays
<1> QED BY <1>3 DEF U

(* The invariant of the pairs.                                             *)
PairsGood == Good(state) /\ feeTo \in Account

(* The pairs are good at the start.                                        *)
LEMMA InitGood == AmmInit => PairsGood
<1> SUFFICES ASSUME AmmInit PROVE PairsGood
  OBVIOUS
<1> DEFINE w == [a \in Asset |-> [h \in Holder |-> IF h \in Account THEN Supply[a][h] ELSE 0]]
           s == [wallet |-> w, pool |-> <<>>]
<1>1. feeTo \in Account
  BY AmmAssumption DEF AmmInit
<1>2. PICK seeding \in Seedings : \E x \in Seeded(s, seeding) : wallet = x.wallet /\ pool = x.pool
  BY DEF AmmInit
<1>3. w \in [Asset -> [Holder -> Nat]]
  BY PairAssumption
<1> HIDE DEF w
<1>4. Good(s)
  BY <1>3, EmptyGood
<1> HIDE DEF s
<1>5. seeding \in Seq(Token \X Token \X Nat \X Nat)
  BY AmmAssumption
<1>6. PICK x \in Seeded(s, seeding) : wallet = x.wallet /\ pool = x.pool
  BY <1>2
<1>7. Good(x)
  BY <1>1, <1>4, <1>5, SeededGood
<1>8. x = state
  BY <1>6, <1>7 DEF Good, IsState, state
<1> QED BY <1>1, <1>7, <1>8 DEF PairsGood

(* A call that succeeds moves the pairs to a state that it can end in.     *)
LEMMA CallMoves ==
  ASSUME NEW S, \A x \in S : Moves(state, x), \E x \in S : wallet' = x.wallet /\ pool' = x.pool
  PROVE  Moves(state, state')
<1>1. PICK x \in S : wallet' = x.wallet /\ pool' = x.pool
  OBVIOUS
<1>2. Moves(state, x)
  OBVIOUS
<1>3. x = state'
  BY <1>1, <1>2 DEF Moves, Grows, Good, IsState, state
<1> QED BY <1>2, <1>3

(* One step of the AMM: every kind of call.                                *)
LEMMA DirectCallMoves == PairsGood /\ DirectCall => Moves(state, state')
<1> SUFFICES ASSUME PairsGood, DirectCall PROVE Moves(state, state')
  OBVIOUS
<1> DEFINE s == state
<1>1. Good(s) /\ feeTo \in Account /\ s.pool = pool
  BY DEF PairsGood, state
<1>2. PICK p \in DOMAIN pool, u \in User :
        \/ \E t \in p, amount \in Amount : Call(Transfer(s, t, u, p, amount))
        \/ \E amount \in Amount : Call(TransferShares(s, p, u, p, amount))
        \/ Call(mint(s, p, u)) \/ Call(burn(s, p, u))
        \/ Call(skim(s, p, u)) \/ Call(_update(s, p))
        \/ \E t, back \in p, out, paid \in Amount : Call(swap(s, p, One(p, t, out), u, One(p, back, paid)))
  BY DEF DirectCall
<1> HIDE DEF s
<1>3. p \in DOMAIN s.pool /\ p \in Pair /\ p \in Holder /\ u \in Account /\ u \in Holder \ {Zero}
  BY <1>1, <1>2, PairAssumption, HoldersFinite DEF Good, IsState, Holder
<1>4. \A x : Same(s, x) \/ Quiet(s, x) => Moves(s, x)
  BY <1>1, SameIsQuiet, QuietMoves
<1>5. CASE \E t \in p, amount \in Amount : Call(Transfer(s, t, u, p, amount))
  <2>1. PICK t \in p, amount \in Amount : Call(Transfer(s, t, u, p, amount))
    BY <1>5
  <2>2. t \in Asset
    BY <1>3, OtherOf, PairAssumption
  <2> DEFINE S == Transfer(s, t, u, p, amount)
  <2>3. \A x \in S : Moves(s, x)
    BY <1>1, <1>3, <1>4, <2>2, TransferLeads
  <2>4. \E x \in S : wallet' = x.wallet /\ pool' = x.pool
    BY <2>1 DEF Call
  <2> HIDE DEF S
  <2> QED BY <2>3, <2>4, CallMoves DEF s
<1>6. CASE \E amount \in Amount : Call(TransferShares(s, p, u, p, amount))
  <2>1. PICK amount \in Amount : Call(TransferShares(s, p, u, p, amount))
    BY <1>6
  <2>2. amount \in Nat
    BY AmmAssumption
  <2> DEFINE S == TransferShares(s, p, u, p, amount)
  <2>3. \A x \in S : Moves(s, x)
    BY <1>1, <1>3, <1>4, <2>2, TransferSharesLeads
  <2>4. \E x \in S : wallet' = x.wallet /\ pool' = x.pool
    BY <2>1 DEF Call
  <2> HIDE DEF S
  <2> QED BY <2>3, <2>4, CallMoves DEF s
<1>7. CASE Call(mint(s, p, u))
  <2> DEFINE S == mint(s, p, u)
  <2>1. \A x \in S : Moves(s, x)
    BY <1>1, <1>3, MintLeads
  <2>2. \E x \in S : wallet' = x.wallet /\ pool' = x.pool
    BY <1>7 DEF Call
  <2> HIDE DEF S
  <2> QED BY <2>1, <2>2, CallMoves DEF s
<1>8. CASE Call(burn(s, p, u))
  <2> DEFINE S == burn(s, p, u)
  <2>1. \A x \in S : Moves(s, x)
    BY <1>1, <1>3, BurnLeads
  <2>2. \E x \in S : wallet' = x.wallet /\ pool' = x.pool
    BY <1>8 DEF Call
  <2> HIDE DEF S
  <2> QED BY <2>1, <2>2, CallMoves DEF s
<1>9. CASE Call(skim(s, p, u))
  <2> DEFINE S == skim(s, p, u)
  <2>1. \A x \in S : Moves(s, x)
    BY <1>1, <1>3, <1>4, SkimLeads
  <2>2. \E x \in S : wallet' = x.wallet /\ pool' = x.pool
    BY <1>9 DEF Call
  <2> HIDE DEF S
  <2> QED BY <2>1, <2>2, CallMoves DEF s
<1>10. CASE Call(_update(s, p))
  <2> DEFINE S == _update(s, p)
  <2>1. \A x \in S : Moves(s, x)
    BY <1>1, <1>3, <1>4, UpdateQuiet
  <2>2. \E x \in S : wallet' = x.wallet /\ pool' = x.pool
    BY <1>10 DEF Call
  <2> HIDE DEF S
  <2> QED BY <2>1, <2>2, CallMoves DEF s
<1>11. CASE \E t, back \in p, out, paid \in Amount : Call(swap(s, p, One(p, t, out), u, One(p, back, paid)))
  <2>1. PICK t \in p, back \in p, out \in Amount, paid \in Amount : Call(swap(s, p, One(p, t, out), u, One(p, back, paid)))
    BY <1>11
  <2> DEFINE o == One(p, t, out)  b == One(p, back, paid)  S == swap(s, p, o, u, b)
  <2>2. \E x \in S : wallet' = x.wallet /\ pool' = x.pool
    BY <2>1 DEF Call
  <2> HIDE DEF o, b
  <2>3. \A x \in S : Moves(s, x)
    BY <1>1, <1>3, <1>4, SwapLeads
  <2> HIDE DEF S
  <2> QED BY <2>2, <2>3, CallMoves DEF s
<1> QED BY <1>2, <1>5, <1>6, <1>7, <1>8, <1>9, <1>10, <1>11

(* Calls that add and remove liquidity.                                    *)
LEMMA LiquidityCallMoves == PairsGood /\ LiquidityCall => Moves(state, state')
<1> SUFFICES ASSUME PairsGood, LiquidityCall PROVE Moves(state, state')
  OBVIOUS
<1> DEFINE s == state
<1>1. Good(s) /\ feeTo \in Account
  BY DEF PairsGood
<1>2. PICK u \in User, ab \in Provided, m \in Minimum :
        \/ \E d \in Desired :
             \/ Call(addLiquidity(s, u, ab[1], ab[2], d, <<m, m>>))
             \/ ab[2] = WETH /\ Call(addLiquidityETH(s, u, ab[1], d, <<m, m>>))
        \/ \E x \in Amount :
             \/ Call(removeLiquidity(s, u, {ab[1], ab[2]}, x, [t \in {ab[1], ab[2]} |-> m]))
             \/ \E taxed \in BOOLEAN :
                  ab[2] = WETH /\ Call(removeLiquidityETH(s, u, ab[1], x, [t \in {ab[1], ab[2]} |-> m], taxed))
  BY DEF LiquidityCall
<1> HIDE DEF s
<1> DEFINE a == ab[1]  b == ab[2]  p == {a, b}  low == <<m, m>>  least == [t \in p |-> m]
<1>3. a \in Token /\ b \in Token /\ u \in Account /\ u \in Account \ {Zero} /\ Amount \subseteq Nat
  BY AmmAssumption, PairAssumption
<1>4. \/ \E d \in Desired : Call(addLiquidity(s, u, a, b, d, low))
      \/ \E d \in Desired : Call(addLiquidityETH(s, u, a, d, low))
      \/ \E x \in Amount : Call(removeLiquidity(s, u, p, x, least))
      \/ \E x \in Amount, taxed \in BOOLEAN : Call(removeLiquidityETH(s, u, a, x, least, taxed))
  BY <1>2
<1> HIDE DEF a, b, p, low, least
<1>5. CASE \E d \in Desired : Call(addLiquidity(s, u, a, b, d, low))
  <2>1. PICK d \in Desired : Call(addLiquidity(s, u, a, b, d, low))
    BY <1>5
  <2> DEFINE S == addLiquidity(s, u, a, b, d, low)
  <2>2. \A x \in S : Moves(s, x)
    BY <1>1, <1>3, AddLiquidityLeads
  <2>3. \E x \in S : wallet' = x.wallet /\ pool' = x.pool
    BY <2>1 DEF Call
  <2> HIDE DEF S
  <2> QED BY <2>2, <2>3, CallMoves DEF s
<1>6. CASE \E d \in Desired : Call(addLiquidityETH(s, u, a, d, low))
  <2>1. PICK d \in Desired : Call(addLiquidityETH(s, u, a, d, low))
    BY <1>6
  <2> DEFINE S == addLiquidityETH(s, u, a, d, low)
  <2>2. \A x \in S : Moves(s, x)
    BY <1>1, <1>3, AddLiquidityEthLeads
  <2>3. \E x \in S : wallet' = x.wallet /\ pool' = x.pool
    BY <2>1 DEF Call
  <2> HIDE DEF S
  <2> QED BY <2>2, <2>3, CallMoves DEF s
<1>7. CASE \E x \in Amount : Call(removeLiquidity(s, u, p, x, least))
  <2>1. PICK x \in Amount : Call(removeLiquidity(s, u, p, x, least))
    BY <1>7
  <2> DEFINE S == removeLiquidity(s, u, p, x, least)
  <2>2. x \in Nat
    BY <1>3
  <2>3. \A y \in S : Moves(s, y)
    BY <1>1, <1>3, <2>2, RemoveLiquidityLeads
  <2>4. \E y \in S : wallet' = y.wallet /\ pool' = y.pool
    BY <2>1 DEF Call
  <2> HIDE DEF S
  <2> QED BY <2>3, <2>4, CallMoves DEF s
<1>8. CASE \E x \in Amount, taxed \in BOOLEAN : Call(removeLiquidityETH(s, u, a, x, least, taxed))
  <2>1. PICK x \in Amount, taxed \in BOOLEAN : Call(removeLiquidityETH(s, u, a, x, least, taxed))
    BY <1>8
  <2> DEFINE S == removeLiquidityETH(s, u, a, x, least, taxed)
  <2>2. x \in Nat
    BY <1>3
  <2>3. \A y \in S : Moves(s, y)
    BY <1>1, <1>3, <2>2, RemoveLiquidityEthLeads
  <2>4. \E y \in S : wallet' = y.wallet /\ pool' = y.pool
    BY <2>1 DEF Call
  <2> HIDE DEF S
  <2> QED BY <2>3, <2>4, CallMoves DEF s
<1> QED BY <1>4, <1>5, <1>6, <1>7, <1>8

(* Calls of the router that swap.                                          *)
LEMMA SwapCallMoves == PairsGood /\ SwapCall => Moves(state, state')
<1> SUFFICES ASSUME PairsGood, SwapCall PROVE Moves(state, state')
  OBVIOUS
<1> DEFINE s == state
<1>1. Good(s)
  BY DEF PairsGood
<1>2. PICK u \in User, way \in Path, x \in Amount, m \in Minimum :
        \/ Call(swapExactIn(s, u, way.path, x, m, way.ether))
        \/ Call(swapExactOut(s, u, way.path, m, x, way.ether))
        \/ Call(swapExactInTaxed(s, u, way.path, x, m, way.ether))
  BY DEF SwapCall
<1> HIDE DEF s
<1> DEFINE path == way.path  ether == way.ether
           In == swapExactIn(s, u, path, x, m, ether)
           Out == swapExactOut(s, u, path, m, x, ether)
           Tax == swapExactInTaxed(s, u, path, x, m, ether)
<1>3. path \in Seq(Token) /\ Len(path) >= 2 /\ u \in Account
  BY AmmAssumption, PairAssumption
<1>4. (\E y \in In \cup Out \cup Tax : wallet' = y.wallet /\ pool' = y.pool)
  BY <1>2 DEF Call
<1> HIDE DEF path, ether
<1>5. \A y \in In \cup Out \cup Tax : Quiet(s, y)
  BY <1>1, <1>3, SwapExactLeads, SwapTaxedLeads
<1>6. \A y \in In \cup Out \cup Tax : Moves(s, y)
  BY <1>1, <1>5, QuietMoves
<1> DEFINE S == In \cup Out \cup Tax
<1> HIDE DEF S
<1> QED BY <1>4, <1>6, CallMoves DEF S, s

(* Calls of the aggregator and of the executor.                            *)
LEMMA AggregatorCallMoves == PairsGood /\ AggregatorCall => Moves(state, state')
<1> SUFFICES ASSUME PairsGood, AggregatorCall PROVE Moves(state, state')
  OBVIOUS
<1> DEFINE s == state
<1>1. Good(s)
  BY DEF PairsGood
<1>2. PICK u \in User, d \in Deal, x \in Amount, m \in Minimum :
        \/ Call(aggSwap(s, u, d.in, d.spokeIn, d.out, d.spokeOut, x, m))
        \/ Call(publicSwap(s, u, d.in, d.out, x, m))
        \/ {d.in, d.out} \subseteq Token /\ Call(executorSwap(s, d.in, d.out, x, m))
  BY DEF AggregatorCall
<1> HIDE DEF s
<1> DEFINE in == d.in  out == d.out  spokeIn == d.spokeIn  spokeOut == d.spokeOut
           A == aggSwap(s, u, in, spokeIn, out, spokeOut, x, m)
           P == publicSwap(s, u, in, out, x, m)
           E == IF {in, out} \subseteq Token THEN executorSwap(s, in, out, x, m) ELSE {}
           S == A \cup P \cup E
<1>3. in \in Asset /\ out \in Asset /\ IsSpoke(spokeIn) /\ IsSpoke(spokeOut) /\ u \in Account
  BY AmmAssumption, PairAssumption
<1>4. \E y \in S : wallet' = y.wallet /\ pool' = y.pool
  BY <1>2 DEF Call
<1> HIDE DEF in, out, spokeIn, spokeOut
<1>5. \A y \in S : Quiet(s, y)
  BY <1>1, <1>3, AggSwapLeads, PublicSwapLeads, ExecutorSwapLeads
<1> HIDE DEF S
<1>6. \A y \in S : Moves(s, y)
  BY <1>1, <1>5, QuietMoves
<1> QED BY <1>4, <1>6, CallMoves DEF s

(* Every call on the AMM.                                                  *)
LEMMA NextMoves == PairsGood /\ Next => Moves(state, state') /\ PairsGood'
<1> SUFFICES ASSUME PairsGood, Next PROVE Moves(state, state') /\ feeTo' \in Account
  BY DEF Moves, Grows, PairsGood
<1>1. CASE DirectCall
  <2>1. feeTo' = feeTo
    BY <1>1 DEF DirectCall, Call
  <2> QED BY <1>1, <2>1, DirectCallMoves DEF PairsGood
<1>2. CASE LiquidityCall
  <2>1. feeTo' = feeTo
    BY <1>2 DEF LiquidityCall, Call
  <2> QED BY <1>2, <2>1, LiquidityCallMoves DEF PairsGood
<1>3. CASE SwapCall
  <2>1. feeTo' = feeTo
    BY <1>3 DEF SwapCall, Call
  <2> QED BY <1>3, <2>1, SwapCallMoves DEF PairsGood
<1>4. CASE AggregatorCall
  <2>1. feeTo' = feeTo
    BY <1>4 DEF AggregatorCall, Call
  <2> QED BY <1>4, <2>1, AggregatorCallMoves DEF PairsGood
<1>5. Moves(state, state)
  BY SelfSame, SameIsQuiet, QuietMoves DEF PairsGood
<1>6. CASE \E account \in FeeAccount : setFeeTo(account)
  <2>1. state' = state /\ feeTo' \in Account
    BY <1>6, AmmAssumption DEF setFeeTo, state
  <2> QED BY <1>5, <2>1
<1>7. CASE \E token \in Stock : setStockRoute(token)
  <2>1. state' = state /\ feeTo' = feeTo
    BY <1>7 DEF setStockRoute, state
  <2> QED BY <1>5, <2>1 DEF PairsGood
<1> QED BY <1>1, <1>2, <1>3, <1>4, <1>6, <1>7 DEF Next

-----------------------------------------------------------------------------
(* The trades of the app. What is asked for is of assets, over spokes that *)
(* there are.                                                              *)
Fits(t) ==
  /\ t = [f \in DOMAIN t |-> t[f]] /\ {"at", "kind"} \subseteq DOMAIN t
  /\ t.kind \in {"page", "panel", "agent", "private", "add", "remove"}
  /\ t.kind \in {"page", "panel", "agent"} =>
       /\ {"in", "out", "spokeIn", "spokeOut"} \subseteq DOMAIN t
       /\ t.in \in Asset /\ t.out \in Asset /\ IsSpoke(t.spokeIn) /\ IsSpoke(t.spokeOut)
  /\ t.kind = "private" => {"in", "out"} \subseteq DOMAIN t /\ t.in \in Token /\ t.out \in Token
  /\ t.kind = "remove" => "amount" \in DOMAIN t /\ t.amount \in Nat
TaskFits == task.at \in {"asked", "sent"} => Fits(task)

(* It stays so when other fields are written.                              *)
LEMMA FitsStill ==
  ASSUME NEW t, Fits(t), NEW g, g = [f \in DOMAIN g |-> g[f]], DOMAIN g = DOMAIN t,
         \A f \in DOMAIN t \ {"at", "floor", "moved", "mined"} : g[f] = t[f]
  PROVE  Fits(g)
BY DEF Fits

(* What is asked for fits if its parts do.                                 *)
LEMMA AskFits ==
  ASSUME NEW t, Ask(t), "kind" \in DOMAIN t, t.kind \in {"page", "panel", "agent", "private", "add", "remove"},
         t.kind \in {"page", "panel", "agent"} =>
           /\ {"in", "out", "spokeIn", "spokeOut"} \subseteq DOMAIN t
           /\ t.in \in Asset /\ t.out \in Asset /\ IsSpoke(t.spokeIn) /\ IsSpoke(t.spokeOut),
         t.kind = "private" => {"in", "out"} \subseteq DOMAIN t /\ t.in \in Token /\ t.out \in Token,
         t.kind = "remove" => "amount" \in DOMAIN t /\ t.amount \in Nat
  PROVE  Fits(task') /\ UNCHANGED vars
<1> DEFINE D == DOMAIN t \cup DOMAIN Fresh
           j == [f \in D |-> IF f \in DOMAIN t THEN t[f] ELSE Fresh[f]]
<1>1. task' = j /\ UNCHANGED vars
  BY DEF Ask
<1>2. "at" \in DOMAIN Fresh
  BY DEF Fresh
<1>3. DOMAIN t \subseteq D /\ "at" \in D
  BY <1>2
<1>4. DOMAIN j = D /\ j = [f \in DOMAIN j |-> j[f]] /\ \A f \in DOMAIN t : j[f] = t[f]
  BY <1>3
<1> HIDE DEF j, D
<1> QED BY <1>1, <1>3, <1>4 DEF Fits

(* A swap that is asked for.                                               *)
LEMMA AskSwapFits ==
  ASSUME NEW kind, NEW in \in Asset, NEW out \in Asset, NEW spokeIn, IsSpoke(spokeIn), NEW spokeOut, IsSpoke(spokeOut),
         NEW amount, NEW expected, NEW fee, kind \in {"page", "panel", "agent", "private"}, kind = "private" => {in, out} \subseteq Token,
         AskSwap(kind, in, out, spokeIn, spokeOut, amount, expected, fee)
  PROVE  Fits(task') /\ UNCHANGED vars
<1> DEFINE t == [kind |-> kind, in |-> in, out |-> out, spokeIn |-> spokeIn, spokeOut |-> spokeOut,
                 amount |-> amount, expected |-> expected, fee |-> fee]
<1>1. Ask(t)
  BY DEF AskSwap
<1>2. DOMAIN t = {"kind", "in", "out", "spokeIn", "spokeOut", "amount", "expected", "fee"}
  OBVIOUS
<1>3. t.kind = kind /\ t.in = in /\ t.out = out /\ t.spokeIn = spokeIn /\ t.spokeOut = spokeOut
  OBVIOUS
<1> HIDE DEF t
<1> QED BY <1>1, <1>2, <1>3, AskFits

(* The spokes that are picked.                                             *)
LEMMA RoutesPicked ==
  ASSUME NEW s, NEW token, NEW C, \A c \in C : IsSpoke(c), NEW spoke \in resolveRoutes(s, token, C)
  PROVE  IsSpoke(spoke)
<1>1. IsSpoke(NoSpoke)
  BY DEF IsSpoke, NoSpoke
<1> QED BY <1>1 DEF resolveRoutes

(* The spokes that the app picks for a token are spokes.                   *)
LEMMA SpokesPicked ==
  ASSUME NEW token \in Asset,
         NEW spoke, spoke \in Selected(token) \/ spoke \in toAggToken(token) \/ spoke \in resolveToken(token)
  PROVE  IsSpoke(spoke)
<1>1. \A c \in Routes[token] : IsSpoke(c)
  BY TradesAssumption
<1>2. token \in DOMAIN Preset => IsSpoke(Preset[token])
  BY TradesAssumption
<1>3. CASE spoke \in Selected(token)
  BY <1>1, <1>2, <1>3, RoutesPicked DEF Selected
<1>4. CASE spoke \in toAggToken(token)
  BY <1>1, <1>4, RoutesPicked DEF toAggToken
<1>5. CASE spoke \in resolveToken(token)
  <2> DEFINE C == {c \in Routes[token] : c.kind # "via"}
  <2>1. \A c \in C : IsSpoke(c)
    BY <1>1
  <2>2. spoke \in IF token \in DOMAIN Preset THEN {Preset[token]} ELSE resolveRoutes(state, token, C)
    BY <1>5 DEF resolveToken
  <2> HIDE DEF C
  <2> QED BY <1>2, <2>1, <2>2, RoutesPicked
<1> QED BY <1>3, <1>4, <1>5

(* The invariant of the trades, and what each step of theirs does.         *)
TradesGood == PairsGood /\ TaskFits

(* Asking moves no pair.                                                   *)
LEMMA AskedGood ==
  ASSUME TradesGood, Fits(task'), UNCHANGED vars
  PROVE  Moves(state, state') /\ TradesGood'
<1>1. state' = state /\ feeTo' = feeTo
  BY DEF vars, state
<1>2. Moves(state, state)
  BY SelfSame, SameIsQuiet, QuietMoves DEF TradesGood, PairsGood
<1> QED BY <1>1, <1>2 DEF TradesGood, PairsGood, TaskFits

(* The app's four ways to ask for a swap.                                  *)
LEMMA QuotedMoves ==
  ASSUME TradesGood, NEW u, doSwap(u) \/ executePublicSwap(u) \/ executeSwap(u) \/ doTrade
  PROVE  Moves(state, state') /\ TradesGood'
<1>1. CASE doSwap(u)
  <2>1. PICK w \in Wanted, amount \in Amount :
          \E spokeIn \in Selected(w[1]), spokeOut \in Selected(w[2]), fee \in {_feeBps(state, u), FEE_BPS} :
            \E expected \in quotePublic(state, w[1], spokeIn, w[2], spokeOut, amount) \cup {NoQuote} :
              AskSwap("page", w[1], w[2], spokeIn, spokeOut, amount, expected, fee)
    BY <1>1 DEF doSwap
  <2> DEFINE in == w[1]  out == w[2]
  <2>2. in \in Asset /\ out \in Asset
    BY TradesAssumption
  <2>3. \E spokeIn \in Selected(in), spokeOut \in Selected(out) : \E expected, fee :
          AskSwap("page", in, out, spokeIn, spokeOut, amount, expected, fee)
    BY <2>1
  <2> HIDE DEF in, out
  <2>4. Fits(task') /\ UNCHANGED vars
    BY <2>2, <2>3, SpokesPicked, AskSwapFits
  <2> QED BY <2>4, AskedGood
<1>2. CASE executePublicSwap(u)
  <2>1. PICK w \in Wanted, amount \in Amount :
          \E spokeIn \in toAggToken(w[1]), spokeOut \in toAggToken(w[2]) :
            \E expected \in quotePublic(state, w[1], spokeIn, w[2], spokeOut, amount) \ {0} :
              AskSwap("panel", w[1], w[2], spokeIn, spokeOut, amount, expected, 0)
    BY <1>2 DEF executePublicSwap
  <2> DEFINE in == w[1]  out == w[2]
  <2>2. in \in Asset /\ out \in Asset
    BY TradesAssumption
  <2>3. \E spokeIn \in toAggToken(in), spokeOut \in toAggToken(out) : \E expected :
          AskSwap("panel", in, out, spokeIn, spokeOut, amount, expected, 0)
    BY <2>1
  <2> HIDE DEF in, out
  <2>4. Fits(task') /\ UNCHANGED vars
    BY <2>2, <2>3, SpokesPicked, AskSwapFits
  <2> QED BY <2>4, AskedGood
<1>3. CASE executeSwap(u)
  <2>1. PICK w \in Wanted, amount \in Amount :
          \E spokeIn \in resolveToken(w[1]), spokeOut \in resolveToken(w[2]) :
            \E expected \in agentQuote(state, w[1], spokeIn, w[2], spokeOut, amount) \ {0} :
              AskSwap("agent", w[1], w[2], spokeIn, spokeOut, amount, expected, 0)
    BY <1>3 DEF executeSwap
  <2> DEFINE in == w[1]  out == w[2]
  <2>2. in \in Asset /\ out \in Asset
    BY TradesAssumption
  <2>3. \E spokeIn \in resolveToken(in), spokeOut \in resolveToken(out) : \E expected :
          AskSwap("agent", in, out, spokeIn, spokeOut, amount, expected, 0)
    BY <2>1
  <2> HIDE DEF in, out
  <2>4. Fits(task') /\ UNCHANGED vars
    BY <2>2, <2>3, SpokesPicked, AskSwapFits
  <2> QED BY <2>4, AskedGood
<1>4. CASE doTrade
  <2> DEFINE hub(a) == IF a = ETH THEN WETH ELSE a
  <2>1. PICK w \in Wanted, amount \in Amount : \E expected :
          AskSwap("private", hub(w[1]), hub(w[2]), NoSpoke, NoSpoke, amount, expected, 0)
    BY <1>4 DEF doTrade
  <2> DEFINE in == hub(w[1])  out == hub(w[2])
  <2>2. in \in Token /\ out \in Token /\ IsSpoke(NoSpoke)
    BY TradesAssumption, RouterAssumption DEF IsSpoke, NoSpoke
  <2>3. \E expected : AskSwap("private", in, out, NoSpoke, NoSpoke, amount, expected, 0)
    BY <2>1
  <2> HIDE DEF in, out
  <2>4. in \in Asset /\ out \in Asset
    BY <2>2, PairAssumption
  <2>5. Fits(task') /\ UNCHANGED vars
    BY <2>2, <2>3, <2>4, AskSwapFits
  <2> QED BY <2>5, AskedGood
<1> QED BY <1>1, <1>2, <1>3, <1>4

(* Its ways to ask for liquidity.                                          *)
LEMMA LiquidityAskedMoves ==
  ASSUME TradesGood, NEW u \in User, addLiq(u) \/ removeLiq(u)
  PROVE  Moves(state, state') /\ TradesGood'
<1>1. CASE addLiq(u)
  <2>1. PICK a, b : Ask([kind |-> "add", in |-> PoolToken, amount |-> <<a, b>>])
    BY <1>1 DEF addLiq
  <2> DEFINE t == [kind |-> "add", in |-> PoolToken, amount |-> <<a, b>>]
  <2>2. "kind" \in DOMAIN t /\ t.kind = "add"
    OBVIOUS
  <2> HIDE DEF t
  <2>3. Fits(task') /\ UNCHANGED vars
    BY <2>1, <2>2, AskFits DEF t
  <2> QED BY <2>3, AskedGood
<1>2. CASE removeLiq(u)
  <2>1. PICK percent \in Percent :
          LET r == pool[PoolPair]
              liquidity == Share(r, u, percent)
          IN Ask([kind |-> "remove", in |-> PoolPair, amount |-> liquidity,
                  expected |-> [t \in PoolPair |-> (r.reserve[t] * liquidity) \div r.totalSupply]])
    BY <1>2 DEF removeLiq
  <2> DEFINE r == pool[PoolPair]  held == r.balanceOf[u]
             liquidity == Share(r, u, percent)
             expected == [t \in PoolPair |-> (r.reserve[t] * liquidity) \div r.totalSupply]
             t == [kind |-> "remove", in |-> PoolPair, amount |-> liquidity, expected |-> expected]
  <2>2. Ask(t)
    BY <2>1
  <2>3. held \in Nat
    <3>1. PoolPair \in DOMAIN state.pool /\ r = state.pool[PoolPair]
      BY <1>2 DEF removeLiq, state
    <3>2. IsState(state) /\ u \in Holder
      BY PairAssumption DEF TradesGood, PairsGood, Good, Holder
    <3>3. r.balanceOf \in [Holder -> Nat]
      BY <3>1, <3>2, PairTypes
    <3> QED BY <3>2, <3>3
  <2>4. liquidity \in Nat
    <3>1. percent \in Nat
      BY TradesAssumption
    <3>2. held * percent \in Nat
      BY <2>3, <3>1, TimesMonotone
    <3> DEFINE y == held * percent
    <3> HIDE DEF held
    <3>3. liquidity = y \div 100
      BY DEF Share, held
    <3> HIDE DEF y, liquidity
    <3> QED BY <3>2, <3>3 DEF y
  <2> HIDE DEF liquidity, expected
  <2>5. {"kind", "amount"} \subseteq DOMAIN t /\ t.kind = "remove" /\ t.amount = liquidity
    OBVIOUS
  <2> HIDE DEF t
  <2>6. Fits(task') /\ UNCHANGED vars
    BY <2>2, <2>4, <2>5, AskFits
  <2> QED BY <2>6, AskedGood
<1> QED BY <1>1, <1>2

(* Approving, and sending a transaction.                                   *)
LEMMA SentMoves ==
  ASSUME TradesGood, NEW u, approve \/ send(u)
  PROVE  Moves(state, state') /\ TradesGood'
<1>1. CASE approve
  <2>1. task' = task /\ task.at = "asked" /\ UNCHANGED vars
    BY <1>1 DEF approve
  <2>2. Fits(task')
    BY <2>1 DEF TradesGood, TaskFits
  <2> QED BY <2>1, <2>2, AskedGood
<1>2. CASE send(u)
  <2>1. PICK floor : task' = [task EXCEPT !.at = "sent", !.floor = floor]
    BY <1>2 DEF send
  <2>2. UNCHANGED vars /\ Fits(task)
    BY <1>2 DEF send, TradesGood, TaskFits
  <2> DEFINE t == task  g == [t EXCEPT !.at = "sent", !.floor = floor]
  <2>3. t = [f \in DOMAIN t |-> t[f]]
    BY <2>2 DEF Fits
  <2>4. task' = g
    BY <2>1
  <2> HIDE DEF t
  <2>5. /\ g = [f \in DOMAIN g |-> g[f]] /\ DOMAIN g = DOMAIN t
        /\ \A f \in DOMAIN t \ {"at", "floor", "moved", "mined"} : g[f] = t[f]
    BY <2>3
  <2> HIDE DEF g
  <2>6. Fits(g)
    BY <2>2, <2>5, FitsStill DEF t
  <2> QED BY <2>2, <2>4, <2>6, AskedGood
<1> QED BY <1>1, <1>2

(* What the app sends is a call like anybody's.                            *)
LEMMA SentCallMoves ==
  ASSUME TradesGood, NEW u \in User, task.at = "sent", NEW x \in CallSent(task, u)
  PROVE  Moves(state, x)
<1> DEFINE s == state  t == task
<1>1. Good(s) /\ feeTo \in Account /\ Fits(t)
  BY DEF TradesGood, PairsGood, TaskFits
<1>2. u \in Account /\ u \in Account \ {Zero} /\ PoolToken \in Token
  BY PairAssumption, TradesAssumption
<1>3. x \in CallSent(t, u)
  OBVIOUS
<1>4. CASE t.kind \in {"page", "panel", "agent"}
  <2> DEFINE in == t.in  out == t.out  spokeIn == t.spokeIn  spokeOut == t.spokeOut  amount == t.amount  floor == t.floor
  <2>1. x \in aggSwap(s, u, in, spokeIn, out, spokeOut, amount, floor)
    BY <1>3, <1>4 DEF CallSent
  <2>2. in \in Asset /\ out \in Asset /\ IsSpoke(spokeIn) /\ IsSpoke(spokeOut)
    BY <1>1, <1>4 DEF Fits
  <2> HIDE DEF s, in, out, spokeIn, spokeOut, amount, floor
  <2>3. Quiet(s, x)
    BY <1>1, <1>2, <2>1, <2>2, AggSwapLeads
  <2>4. Moves(s, x)
    BY <1>1, <2>3, QuietMoves
  <2> QED BY <2>4 DEF s
<1>5. CASE t.kind = "private"
  <2> DEFINE in == t.in  out == t.out  amount == t.amount  floor == t.floor
  <2>1. x \in executorSwap(s, in, out, amount, floor)
    BY <1>3, <1>5 DEF CallSent
  <2>2. in \in Token /\ out \in Token
    BY <1>1, <1>5 DEF Fits
  <2> HIDE DEF s, in, out, amount, floor
  <2>3. Quiet(s, x)
    BY <1>1, <2>1, <2>2, ExecutorSwapLeads
  <2>4. Moves(s, x)
    BY <1>1, <2>3, QuietMoves
  <2> QED BY <2>4 DEF s
<1>6. CASE t.kind = "add"
  <2> DEFINE amount == t.amount  floor == t.floor
  <2>1. x \in addLiquidityETH(s, u, PoolToken, amount, floor)
    BY <1>3, <1>6 DEF CallSent
  <2> HIDE DEF s, amount, floor
  <2>2. Moves(s, x)
    BY <1>1, <1>2, <2>1, AddLiquidityEthLeads
  <2> QED BY <2>2 DEF s
<1>7. CASE t.kind = "remove"
  <2> DEFINE amount == t.amount  floor == t.floor
  <2>1. x \in removeLiquidityETH(s, u, PoolToken, amount, floor, FALSE)
    BY <1>3, <1>7 DEF CallSent
  <2>2. amount \in Nat
    BY <1>1, <1>7 DEF Fits
  <2> HIDE DEF s, amount, floor
  <2>3. Moves(s, x)
    BY <1>1, <1>2, <2>1, <2>2, RemoveLiquidityEthLeads
  <2> QED BY <2>3 DEF s
<1>8. t.kind \in {"page", "panel", "agent", "private", "add", "remove"}
  BY <1>1 DEF Fits
<1> QED BY <1>4, <1>5, <1>6, <1>7, <1>8

(* A transaction that is mined: the call that was asked for, or a revert.  *)
LEMMA MinedMoves ==
  ASSUME TradesGood, NEW u \in User, mine(u)
  PROVE  Moves(state, state') /\ TradesGood'
<1>1. task.at = "sent" /\ Fits(task) /\ feeTo' = feeTo
  BY DEF mine, TradesGood, TaskFits
<1>2. task'.at = "done"
  BY <1>1 DEF mine, Fits
<1>3. Moves(state, state')
  <2>1. CASE \E x \in CallSent(task, u) : wallet' = x.wallet /\ pool' = x.pool
    <3> DEFINE S == CallSent(task, u)
    <3>1. \A x \in S : Moves(state, x)
      BY <1>1, SentCallMoves
    <3>2. \E x \in S : wallet' = x.wallet /\ pool' = x.pool
      BY <2>1
    <3> HIDE DEF S
    <3> QED BY <3>1, <3>2, CallMoves
  <2>2. CASE UNCHANGED <<wallet, pool>>
    <3>1. state' = state
      BY <2>2 DEF state
    <3>2. Moves(state, state)
      BY SelfSame, SameIsQuiet, QuietMoves DEF TradesGood, PairsGood
    <3> QED BY <3>1, <3>2
  <2> QED BY <2>1, <2>2 DEF mine
<1>4. PairsGood'
  BY <1>1, <1>3 DEF Moves, Grows, TradesGood, PairsGood
<1> QED BY <1>2, <1>3, <1>4 DEF TradesGood, TaskFits

(* What anybody else calls meanwhile.                                      *)
LEMMA OthersMove ==
  ASSUME TradesGood, Others
  PROVE  Moves(state, state') /\ TradesGood'
<1>1. Moves(state, state') /\ PairsGood'
  BY NextMoves DEF Others, TradesGood
<1>2. TaskFits'
  <2>1. CASE task.at \in {"asked", "sent"}
    <3> DEFINE t == task  g == [t EXCEPT !.moved = TRUE]
    <3>1. task' = g /\ Fits(t)
      BY <2>1 DEF Others, TradesGood, TaskFits
    <3>2. t = [f \in DOMAIN t |-> t[f]]
      BY <3>1 DEF Fits
    <3> HIDE DEF t
    <3>3. /\ g = [f \in DOMAIN g |-> g[f]] /\ DOMAIN g = DOMAIN t
          /\ \A f \in DOMAIN t \ {"at", "floor", "moved", "mined"} : g[f] = t[f]
      BY <3>2
    <3> HIDE DEF g
    <3>4. Fits(g)
      BY <3>1, <3>3, FitsStill
    <3> QED BY <3>1, <3>4 DEF TaskFits
  <2>2. CASE task.at \notin {"asked", "sent"}
    BY <2>2 DEF Others, TaskFits
  <2> QED BY <2>1, <2>2
<1> QED BY <1>1, <1>2 DEF TradesGood

(* Every step of the trades, the AMM's among them, moves the pairs so and  *)
(* keeps the invariant.                                                    *)
LEMMA TradesMove ==
  ASSUME TradesGood, [TradesNext]_tradeVars
  PROVE  Moves(state, state') /\ TradesGood'
<1>1. CASE TradesNext
  <2>1. CASE Others
    BY <2>1, OthersMove
  <2>2. CASE approve
    BY <2>2, SentMoves
  <2>3. CASE doTrade
    BY <2>3, QuotedMoves
  <2>4. ASSUME NEW u \in User, doSwap(u) \/ executePublicSwap(u) \/ executeSwap(u)
        PROVE  Moves(state, state') /\ TradesGood'
    BY <2>4, QuotedMoves
  <2>5. ASSUME NEW u \in User, addLiq(u) \/ removeLiq(u) PROVE Moves(state, state') /\ TradesGood'
    BY <2>5, LiquidityAskedMoves
  <2>6. ASSUME NEW u \in User, send(u) PROVE Moves(state, state') /\ TradesGood'
    BY <2>6, SentMoves
  <2>7. ASSUME NEW u \in User, mine(u) PROVE Moves(state, state') /\ TradesGood'
    BY <2>7, MinedMoves
  <2> QED BY <1>1, <2>1, <2>2, <2>3, <2>4, <2>5, <2>6, <2>7 DEF TradesNext
<1>2. CASE UNCHANGED tradeVars
  <2>1. state' = state /\ feeTo' = feeTo /\ task' = task
    BY <1>2 DEF tradeVars, vars, state
  <2>2. Moves(state, state)
    BY SelfSame, SameIsQuiet, QuietMoves DEF TradesGood, PairsGood
  <2> QED BY <2>1, <2>2 DEF TradesGood, PairsGood, TaskFits
<1> QED BY <1>1, <1>2

(* The trades start with good pairs and nothing asked for.                 *)
LEMMA TradesStart == TradesInit => TradesGood
BY InitGood DEF TradesInit, TradesGood, TaskFits, Idle

(* In every state of the trades the pairs are good: shares add up, some    *)
(* are locked for ever, and reserves are covered by what the pair holds.   *)
THEOREM PairsStayGood == TradesSpec => []PairsGood
<1>1. TradesGood /\ [TradesNext]_tradeVars => TradesGood'
  BY TradesMove
<1>2. TradesGood => PairsGood
  BY DEF TradesGood
<1> QED BY TradesStart, <1>1, <1>2, PTL DEF TradesSpec

(* No share of a pair loses value, whatever the calls and whoever makes    *)
(* them: AMM calls of anybody and those that the app sends.                *)
THEOREM ShareValueCorrect == TradesSpec => ShareValueKept
<1>1. TradesGood /\ [TradesNext]_tradeVars => TradesGood'
  BY TradesMove
<1>2. TradesGood /\ [TradesNext]_tradeVars
        => [\A p \in DOMAIN pool :
              LET shares == pool[p].totalSupply + FeeOwed(pool[p])
              IN pool[p].totalSupply > 0 =>
                   /\ Product(pool'[p].reserve) > 0
                   /\ Product(pool'[p].reserve) * shares * shares
                        >= Product(pool[p].reserve) * pool'[p].totalSupply * pool'[p].totalSupply]_vars
  BY TradesMove DEF Moves, PairStep, state
<1> QED BY TradesStart, <1>1, <1>2, PTL DEF TradesSpec, ShareValueKept

(* The protocol's fee is on the growth of trading, never on liquidity.     *)
THEOREM FeeOnTradingCorrect == TradesSpec => FeeOnTradingOnly
<1>1. TradesGood /\ [TradesNext]_tradeVars => TradesGood'
  BY TradesMove
<1>2. TradesGood /\ [TradesNext]_tradeVars
        => [\A p \in DOMAIN pool :
              LET r == pool'[p]
              IN /\ r.kLast <= Product(r.reserve)
                 /\ r.totalSupply # pool[p].totalSupply => r.kLast \in {0, Product(r.reserve)}]_vars
  <2> SUFFICES ASSUME TradesGood, [TradesNext]_tradeVars, NEW p \in DOMAIN pool
               PROVE  /\ pool'[p].kLast <= Product(pool'[p].reserve)
                      /\ pool'[p].totalSupply # pool[p].totalSupply => pool'[p].kLast \in {0, Product(pool'[p].reserve)}
    OBVIOUS
  <2>1. Moves(state, state')
    BY TradesMove
  <2>2. p \in DOMAIN pool' /\ SharesOK(pool'[p]) /\ PairStep(pool[p], pool'[p])
    BY <2>1 DEF Moves, Grows, Good, state
  <2> QED BY <2>2 DEF SharesOK, PairStep
<1> QED BY TradesStart, <1>1, <1>2, PTL DEF TradesSpec, FeeOnTradingOnly

-----------------------------------------------------------------------------
(* Quotes. What KHolds asks when i of token t comes in and the pair is     *)
(* left with b of t and c of its other token.                              *)
LEMMA KHoldsFor ==
  ASSUME NEW p \in Pair, NEW t \in p, NEW u, u = Other(p, t), NEW r \in [p -> Nat],
         NEW i \in Nat, NEW b \in Nat, NEW c \in Nat, NEW f \in Nat
  PROVE  KHolds(r, [One(p, t, b) EXCEPT ![u] = c], One(p, t, i), f)
           <=> (b * FEE_BASE - i * f) * (c * FEE_BASE) >= (r[t] * r[u]) * FEE_BASE * FEE_BASE
<1> DEFINE balance == [One(p, t, b) EXCEPT ![u] = c]
           in == One(p, t, i)
           g == [y \in p |-> balance[y] * FEE_BASE - in[y] * f]
<1>1. u \in p /\ u # t /\ p = {t, u}
  BY OtherOf
<1>2. balance[t] = b /\ balance[u] = c /\ in[t] = i /\ in[u] = 0
  BY <1>1 DEF One
<1> HIDE DEF balance, in
<1>3. FEE_BASE \in Nat
  BY FeeAssumption
<1>4. g[t] = b * FEE_BASE - i * f /\ g[u] = c * FEE_BASE - 0 * f /\ DOMAIN g = p
  BY <1>1, <1>2
<1> HIDE DEF g
<1>5. b * FEE_BASE \in Int /\ i * f \in Int /\ c * FEE_BASE \in Int
  BY <1>3, TimesMonotone
<1>6. g[t] \in Int /\ g[u] = c * FEE_BASE /\ g[u] \in Int
  BY <1>4, <1>5
<1>7. \A y \in p : g[y] \in Int
  BY <1>1, <1>6
<1>8. Product(g) = g[t] * g[u]
  BY <1>1, <1>4, <1>7, ProductOf
<1>9. Product(r) = r[t] * r[u]
  <2>1. DOMAIN r = p /\ \A y \in p : r[y] \in Int
    OBVIOUS
  <2> QED BY <1>1, <2>1, ProductOf
<1>10. KHolds(r, balance, in, f) <=> Product(g) >= Product(r) * FEE_BASE * FEE_BASE
  <2>1. DOMAIN r = p
    OBVIOUS
  <2> QED BY <2>1 DEF KHolds, g
<1>11. KHolds(r, balance, in, f) <=> (b * FEE_BASE - i * f) * (c * FEE_BASE) >= (r[t] * r[u]) * FEE_BASE * FEE_BASE
  BY <1>4, <1>6, <1>8, <1>9, <1>10
<1> QED BY <1>11 DEF balance, in

(* In numbers: a is what comes in less the fee, k the base of the fee, and *)
(* o what is paid for it.                                                  *)
LEMMA KHoldsNumbers ==
  ASSUME NEW m \in Nat, NEW n \in Nat, NEW i \in Nat, NEW k \in Nat \ {0}, NEW f \in Nat, f < k, NEW o \in Nat, o <= n,
         NEW a, a = i * (k - f)
  PROVE  ((m + i) * k - i * f) * ((n - o) * k) >= (m * n) * k * k <=> o * (m * k + a) <= a * n
<1> DEFINE e == m * k  h == e + a
<1>1. e \in Nat /\ a \in Nat
  BY TimesMonotone
<1>2. (m + i) * k - i * f = h
  OBVIOUS
<1>3. h \in Nat /\ n - o \in Nat
  BY <1>1
<1> DEFINE x == h * (n - o)  y == e * n
<1>4. x \in Nat /\ y \in Nat
  <2> HIDE DEF e, h
  <2> QED BY <1>1, <1>3, TimesMonotone
<1>5. h * ((n - o) * k) = x * k /\ (m * n) * k * k = y * k
  <2>1. (m * n) * k * k = y * k
    OBVIOUS
  <2> HIDE DEF h, e
  <2>2. h * ((n - o) * k) = x * k
    BY <1>3
  <2> QED BY <2>1, <2>2
<1>6. x >= y <=> o * h <= a * n
  <2> HIDE DEF e
  <2>1. x = h * n - h * o /\ h * n = e * n + a * n
    BY <1>1, <1>3
  <2>2. h * n \in Int /\ h * o \in Int /\ a * n \in Int /\ h * o = o * h
    BY <1>1, <1>3, TimesMonotone
  <2> HIDE DEF h, x
  <2> QED BY <2>1, <2>2, <1>4
<1> HIDE DEF e, h, x, y
<1>7. x * k >= y * k <=> x >= y
  <2>1. x * k >= y * k => x >= y
    BY <1>4, TimesPositive
  <2>2. x >= y => x * k >= y * k
    BY <1>4, TimesMonotone
  <2> QED BY <2>1, <2>2
<1> QED BY <1>2, <1>5, <1>6, <1>7 DEF h, e

(* The output that is quoted is the most the pair pays for an input.       *)
LEMMA OutputQuoted ==
  ASSUME NEW p \in Pair, NEW t \in p, NEW u, u = Other(p, t), NEW r \in [p -> Nat], NEW x \in Nat,
         NEW out, out = getAmountOut(x, r[t], r[u]), out # Revert
  PROVE  /\ out < r[u] /\ KHolds(r, [One(p, t, r[t] + x) EXCEPT ![u] = r[u] - out], One(p, t, x), FEE)
         /\ out + 1 < r[u] => ~KHolds(r, [One(p, t, r[t] + x) EXCEPT ![u] = r[u] - (out + 1)], One(p, t, x), FEE)
<1> DEFINE m == r[t]  n == r[u]  k == FEE_BASE  a == x * (k - FEE)  d == m * k + a
<1>1. u \in p /\ k \in Nat \ {0} /\ FEE \in Nat /\ FEE < k /\ k - FEE \in Nat \ {0}
  BY OtherOf, FeeAssumption
<1>2. m \in Nat \ {0} /\ n \in Nat \ {0} /\ x \in Nat \ {0}
  BY <1>1 DEF getAmountOut
<1>3. out = (a * n) \div d
  BY DEF getAmountOut
<1>4. a \in Nat \ {0} /\ m * k \in Nat
  <2> HIDE DEF m, n
  <2> QED BY <1>1, <1>2, TimesMonotone
<1>5. d \in Nat \ {0} /\ a * n \in Nat
  <2> HIDE DEF a, n
  <2> DEFINE e == m * k
  <2> HIDE DEF m
  <2>1. e \in Nat
    BY <1>4
  <2> HIDE DEF e
  <2> QED BY <1>2, <1>4, <2>1, TimesMonotone DEF e
<1> HIDE DEF a, d
<1>6. out \in Nat /\ out * d <= a * n /\ a * n < (out + 1) * d
  <2> DEFINE z == a * n
  <2> HIDE DEF z, n
  <2>1. z \in Nat /\ out = z \div d
    BY <1>3, <1>5 DEF z
  <2> QED BY <1>5, <2>1, DivisionBounds DEF z
<1>7. out < n
  <2>1. a < d
    <3> DEFINE e == m * k
    <3> HIDE DEF m
    <3>1. e \in Nat \ {0}
      BY <1>1, <1>2
    <3>2. d = e + a
      BY DEF d
    <3> HIDE DEF e
    <3> QED BY <1>4, <3>1, <3>2
  <2> HIDE DEF n
  <2>2. a * n < d * n
    BY <1>2, <1>4, <1>5, <2>1
  <2>3. out * d < d * n
    BY <1>6, <1>5, <1>4, <1>2, <2>2, TimesMonotone
  <2> QED BY <1>2, <1>5, <1>6, <2>3
<1> DEFINE Executes(o) == KHolds(r, [One(p, t, m + x) EXCEPT ![u] = n - o], One(p, t, x), FEE)
<1>8. ASSUME NEW o \in Nat, o < n PROVE Executes(o) <=> o * d <= a * n
  <2> DEFINE b == m + x  c == n - o
  <2>1. b \in Nat /\ c \in Nat
    BY <1>2, <1>8
  <2>2. Executes(o) <=> (b * k - x * FEE) * (c * k) >= (m * n) * k * k
    <3> HIDE DEF b, c
    <3>1. KHolds(r, [One(p, t, b) EXCEPT ![u] = c], One(p, t, x), FEE) <=> (b * k - x * FEE) * (c * k) >= (m * n) * k * k
      BY <1>1, <2>1, KHoldsFor
    <3> QED BY <3>1 DEF b, c
  <2> HIDE DEF m, n, k, Executes
  <2>3. ((m + x) * k - x * FEE) * ((n - o) * k) >= (m * n) * k * k <=> o * (m * k + a) <= a * n
    BY <1>1, <1>2, <1>8, KHoldsNumbers DEF a
  <2> QED BY <2>2, <2>3 DEF d
<1>9. Executes(out)
  <2> HIDE DEF Executes, n
  <2> QED BY <1>6, <1>7, <1>8
<1>10. out + 1 < n => ~Executes(out + 1)
  <2> HIDE DEF Executes, n
  <2>1. (out + 1) * d \in Nat
    BY <1>5, <1>6, TimesMonotone
  <2> QED BY <1>5, <1>6, <1>8, <2>1
<1> QED BY <1>7, <1>9, <1>10

(* The input that is quoted for an output buys it.                         *)
LEMMA InputQuoted ==
  ASSUME NEW p \in Pair, NEW t \in p, NEW u, u = Other(p, t), NEW r \in [p -> Nat], NEW x \in Nat,
         NEW in, in = getAmountIn(x, r[t], r[u]), in # Revert
  PROVE  x < r[u] /\ KHolds(r, [One(p, t, r[t] + in) EXCEPT ![u] = r[u] - x], One(p, t, in), FEE)
<1> DEFINE m == r[t]  n == r[u]  k == FEE_BASE  g == k - FEE  l == n - x  a == in * g  z == m * x * k  d == l * g
<1>1. u \in p /\ k \in Nat \ {0} /\ FEE \in Nat /\ FEE < k /\ g \in Nat \ {0}
  BY OtherOf, FeeAssumption
<1>2. m \in Nat \ {0} /\ n \in Nat /\ x \in Nat \ {0} /\ x < n /\ l \in Nat \ {0}
  BY <1>1 DEF getAmountIn
<1>3. in = z \div d + 1
  BY DEF getAmountIn
<1>4. z \in Nat
  <2> DEFINE y == m * x
  <2> HIDE DEF m
  <2>1. y \in Nat
    BY <1>2, TimesMonotone
  <2> HIDE DEF y
  <2> QED BY <1>1, <2>1, TimesMonotone DEF y
<1>5. d \in Nat \ {0}
  <2> HIDE DEF l, g
  <2> QED BY <1>1, <1>2
<1> HIDE DEF z, d
<1>6. in \in Nat /\ z < in * d
  <2> DEFINE q == z \div d
  <2>1. q \in Nat /\ z < (q + 1) * d
    BY <1>4, <1>5, DivisionBounds
  <2> HIDE DEF q
  <2> QED BY <1>3, <2>1 DEF q
<1>7. a \in Nat
  <2> HIDE DEF g
  <2> QED BY <1>1, <1>6, TimesMonotone
<1>8. x * (m * k + a) <= a * n
  <2>1. in * d = a * n - a * x
    <3> HIDE DEF g, n
    <3>1. in * d = (in * g) * l
      BY <1>1, <1>2, <1>6 DEF d
    <3>2. l = n - x
      OBVIOUS
    <3> HIDE DEF a, l
    <3>3. in * d = a * l
      BY <3>1 DEF a
    <3> QED BY <1>2, <1>7, <3>2, <3>3
  <2>2. x * (m * k + a) = z + a * x
    <3> HIDE DEF a, m
    <3> QED BY <1>1, <1>2, <1>7 DEF z
  <2> DEFINE ax == a * x  an == a * n  id == in * d
  <2>3. ax \in Nat /\ an \in Nat /\ id \in Nat
    <3> HIDE DEF a, n
    <3> QED BY <1>2, <1>5, <1>6, <1>7, TimesMonotone
  <2> HIDE DEF ax, an, id
  <2>4. id = an - ax /\ x * (m * k + a) = z + ax /\ z < id
    BY <1>6, <2>1, <2>2 DEF id, an, ax
  <2>5. z + ax <= an
    BY <1>4, <2>3, <2>4
  <2> QED BY <2>4, <2>5 DEF an
<1> DEFINE b == m + in  c == n - x
<1>9. b \in Nat /\ c \in Nat
  BY <1>2, <1>6
<1>10. KHolds(r, [One(p, t, b) EXCEPT ![u] = c], One(p, t, in), FEE) <=> (b * k - in * FEE) * (c * k) >= (m * n) * k * k
  <2> HIDE DEF b, c
  <2> QED BY <1>1, <1>6, <1>9, KHoldsFor
<1>11. (b * k - in * FEE) * (c * k) >= (m * n) * k * k
  <2>1. a = in * (k - FEE) /\ x <= n
    BY <1>2
  <2> HIDE DEF m, n, k, a
  <2>2. ((m + in) * k - in * FEE) * ((n - x) * k) >= (m * n) * k * k <=> x * (m * k + a) <= a * n
    BY <1>1, <1>2, <1>6, <2>1, KHoldsNumbers
  <2> QED BY <1>8, <2>2
<1> QED BY <1>2, <1>10, <1>11

(* In good pairs the router's quotes are what swap accepts.                *)
LEMMA QuotesAreExecuted == PairsGood => QuotesExecute
<1> SUFFICES ASSUME PairsGood, NEW p \in DOMAIN pool, NEW t \in UNION DOMAIN pool, NEW x \in Amount, t \in p, PairFee[p] = FEE
             PROVE  LET r == pool[p].reserve
                        u == Other(p, t)
                        Executes(in, out) ==
                          /\ out < r[u]
                          /\ KHolds(r, [One(p, t, r[t] + in) EXCEPT ![u] = r[u] - out], One(p, t, in), FEE)
                        out == getAmountOut(x, r[t], r[u])
                        in == getAmountIn(x, r[t], r[u])
                    IN /\ out # Revert => Executes(x, out) /\ ~Executes(x, out + 1)
                       /\ in # Revert => Executes(in, x)
  BY DEF QuotesExecute
<1> DEFINE r == pool[p].reserve
           u == Other(p, t)
           out == getAmountOut(x, r[t], r[u])
           in == getAmountIn(x, r[t], r[u])
<1>1. p \in Pair /\ r \in [p -> Nat] /\ x \in Nat
  <2>1. IsState(state) /\ p \in DOMAIN state.pool /\ r = state.pool[p].reserve
    BY DEF PairsGood, Good, state
  <2>2. p \in Pair /\ state.pool[p].reserve \in [p -> Nat]
    BY <2>1, PairTypes
  <2> QED BY <2>1, <2>2, AmmAssumption
<1> HIDE DEF r, u, out, in
<1>2. u = Other(p, t) /\ out = getAmountOut(x, r[t], r[u]) /\ in = getAmountIn(x, r[t], r[u])
  BY DEF u, out, in
<1>3. ASSUME out # Revert
      PROVE  /\ out < r[u] /\ KHolds(r, [One(p, t, r[t] + x) EXCEPT ![u] = r[u] - out], One(p, t, x), FEE)
             /\ out + 1 < r[u] => ~KHolds(r, [One(p, t, r[t] + x) EXCEPT ![u] = r[u] - (out + 1)], One(p, t, x), FEE)
  BY <1>1, <1>2, <1>3, OutputQuoted
<1>4. ASSUME in # Revert
      PROVE  x < r[u] /\ KHolds(r, [One(p, t, r[t] + in) EXCEPT ![u] = r[u] - x], One(p, t, in), FEE)
  BY <1>1, <1>2, <1>4, InputQuoted
<1> QED BY <1>3, <1>4 DEF r, u, out, in

(* In every state of the trades, the quotes are those the pairs execute:   *)
(* the output quoted is the most that is paid, the input quoted is enough. *)
THEOREM QuotesCorrect == TradesSpec => []QuotesExecuteBetween
<1>1. TradesGood /\ [TradesNext]_tradeVars => TradesGood'
  BY TradesMove
<1>2. TradesGood => QuotesExecuteBetween
  BY QuotesAreExecuted DEF TradesGood, QuotesExecuteBetween
<1> QED BY TradesStart, <1>1, <1>2, PTL DEF TradesSpec

-----------------------------------------------------------------------------
(* Holdings. What h holds of a; what a transfer <<asset, from, to,         *)
(* amount>> changes in it; and that one has been made.                     *)
Held(s, a, h) == s.wallet[a][h]
Net(l, b, h) ==
  (IF l[1] = b /\ l[3] = h THEN Received(b, l[4]) ELSE 0) - (IF l[1] = b /\ l[2] = h THEN l[4] ELSE 0)
IsLeg(l) == l[1] \in Asset /\ l[2] \in Holder /\ l[3] \in Holder /\ l = <<l[1], l[2], l[3], l[4]>>
Paid(s, x, l) ==
  /\ IsState(x) /\ l[4] \in Nat
  /\ \A b \in Asset, h \in Holder : Held(x, b, h) = Held(s, b, h) + Net(l, b, h)

(* What a state holds are natural numbers.                                 *)
LEMMA HeldType == ASSUME NEW s, IsState(s), NEW a \in Asset, NEW h \in Holder PROVE Held(s, a, h) \in Nat
BY DEF IsState, Held

(* What arrives of an amount.                                              *)
LEMMA ReceivedIs ==
  ASSUME NEW a, NEW m \in Nat
  PROVE  /\ Received(a, m) \in Nat /\ Received(a, m) <= m /\ m - 1 <= Received(a, m)
         /\ a \notin Taxed => Received(a, m) = m
         /\ Received(a, 0) = 0
BY DEF Received

(* WETH and ETH are not taxed.                                             *)
LEMMA EtherUntaxed == WETH \notin Taxed /\ ETH \notin Taxed /\ WETH \in Asset /\ ETH \in Asset /\ WETH # ETH
BY RouterAssumption, PairAssumption

(* What a leg changes for whom is a number.                                *)
LEMMA NetType ==
  ASSUME NEW l, l[4] \in Nat, NEW b, NEW h
  PROVE  /\ Net(l, b, h) \in Int
         /\ l[1] # b \/ (l[2] # h /\ l[3] # h) \/ l[4] = 0 => Net(l, b, h) = 0
         /\ l[1] = b /\ l[2] = h /\ l[3] # h => Net(l, b, h) = -l[4]
         /\ l[1] = b /\ l[2] # h /\ l[3] = h => Net(l, b, h) = Received(b, l[4])
<1>1. Received(b, l[4]) \in Nat /\ Received(b, 0) = 0
  BY ReceivedIs
<1> QED BY <1>1 DEF Net

(* A transfer, exactly.                                                    *)
LEMMA TransferPays ==
  ASSUME NEW s, IsState(s), NEW a \in Asset, NEW from \in Holder, NEW to \in Holder, NEW amount,
         NEW x \in Transfer(s, a, from, to, amount)
  PROVE  Paid(s, x, <<a, from, to, amount>>)
<1> DEFINE w == s.wallet
           got == Received(a, amount)
           taken == [w EXCEPT ![a][from] = @ - amount]
           given == [taken EXCEPT ![a][to] = @ + got]
<1>1. w \in [Asset -> [Holder -> Nat]] /\ s = [wallet |-> w, pool |-> s.pool]
  BY DEF IsState
<1>2. amount \in 0 .. w[a][from]
      /\ x = [[s EXCEPT !.wallet[a][from] = @ - amount] EXCEPT !.wallet[a][to] = @ + got]
  BY DEF Transfer
<1>3. IsState(x) /\ amount \in Nat /\ amount <= w[a][from]
  BY TransferOne
<1>4. w[a][from] \in Nat /\ w[a][from] - amount \in Nat
  BY <1>1, <1>3
<1>5. got \in Nat
  BY <1>3, ReceivedIs
<1>6. x = [wallet |-> given, pool |-> s.pool]
  <2> HIDE DEF w, got
  <2> DEFINE q == s.pool
             y == [wallet |-> taken, pool |-> q]
  <2>1. s = [wallet |-> w, pool |-> q]
    BY <1>1
  <2> HIDE DEF q
  <2>2. s.wallet = w
    BY <2>1
  <2>3. [s EXCEPT !.wallet = taken] = y
    BY <2>1
  <2>4. [s EXCEPT !.wallet[a][from] = @ - amount] = [s EXCEPT !.wallet = taken]
    BY <2>2
  <2>5. x = [y EXCEPT !.wallet[a][to] = @ + got]
    BY <1>2, <2>3, <2>4
  <2> HIDE DEF taken
  <2> QED BY <2>5 DEF q
<1>7. x.wallet = given
  BY <1>6
<1> HIDE DEF w, got
<1>8. taken \in [Asset -> [Holder -> Nat]]
      /\ \A b \in Asset, h \in Holder : taken[b][h] = IF b = a /\ h = from THEN w[b][h] - amount ELSE w[b][h]
  BY <1>1, <1>4
<1> HIDE DEF taken
<1>9. \A b \in Asset, h \in Holder : given[b][h] = IF b = a /\ h = to THEN taken[b][h] + got ELSE taken[b][h]
  BY <1>8
<1> HIDE DEF given
<1>10. PICK l : l = <<a, from, to, amount>>
  OBVIOUS
<1>11. l[1] = a /\ l[2] = from /\ l[3] = to /\ l[4] = amount
  BY <1>10
<1>12. ASSUME NEW b \in Asset, NEW h \in Holder PROVE Held(x, b, h) = Held(s, b, h) + Net(l, b, h)
  <2>1. Held(x, b, h) = given[b][h] /\ Held(s, b, h) = w[b][h] /\ w[b][h] \in Nat
    BY <1>1, <1>7 DEF Held, w
  <2>2. Net(l, b, h) = (IF a = b /\ to = h THEN got ELSE 0) - (IF a = b /\ from = h THEN amount ELSE 0)
    BY <1>11 DEF Net, got
  <2>3. given[b][h] = w[b][h] + ((IF a = b /\ to = h THEN got ELSE 0) - (IF a = b /\ from = h THEN amount ELSE 0))
    <3>1. given[b][h] = IF b = a /\ h = to THEN taken[b][h] + got ELSE taken[b][h]
      BY <1>9
    <3>2. taken[b][h] = IF b = a /\ h = from THEN w[b][h] - amount ELSE w[b][h]
      BY <1>8
    <3>3. taken[b][h] \in Nat
      BY <1>8
    <3> QED BY <1>3, <1>5, <2>1, <3>1, <3>2, <3>3
  <2> QED BY <2>1, <2>2, <2>3
<1> QED BY <1>3, <1>10, <1>11, <1>12 DEF Paid

(* The states f that n transfers lead through, from s to x.                *)
Walk(f, s, legs, n, x) == f[0] = s /\ f[n] = x /\ \A i \in 1 .. n : Paid(f[i - 1], f[i], legs[i])

(* Transfers, one by one: the states they go through.                      *)
LEMMA TransfersPay ==
  ASSUME NEW s, IsState(s), NEW n \in Nat, NEW legs, n = Len(legs), \A i \in 1 .. n : IsLeg(legs[i]),
         NEW x \in Transfers(s, legs)
  PROVE  \E f : Walk(f, s, legs, n, x)
<1>1. PICK after : Stages(after, s, legs, n)
  BY TransfersUnfold
<1> DEFINE Through(f, k, z) == f[0] = s /\ f[k] = z /\ \A i \in 1 .. k : Paid(f[i - 1], f[i], legs[i])
           Done == {k \in Nat : k <= n => \A z \in after[k] : IsState(z) /\ \E f : Through(f, k, z)}
<1>2. 0 \in Done
  <2>1. Through([i \in {0} |-> s], 0, s)
    OBVIOUS
  <2>2. after[0] = {s}
    BY <1>1 DEF Stages
  <2> QED BY <2>1, <2>2
<1>3. ASSUME NEW k \in Done PROVE k + 1 \in Done
  <2> SUFFICES ASSUME k + 1 <= n, NEW z \in after[k + 1] PROVE IsState(z) /\ \E f : Through(f, k + 1, z)
    OBVIOUS
  <2>1. k \in Nat /\ k <= n /\ k + 1 \in 1 .. n /\ (k + 1) - 1 = k
    OBVIOUS
  <2> DEFINE l == legs[k + 1]
  <2>2. PICK y \in after[k] : z \in Transfer(y, l[1], l[2], l[3], l[4])
    BY <1>1, <2>1 DEF Stages, TransferFrom
  <2>3. IsState(y) /\ \E f : Through(f, k, y)
    BY <2>1
  <2>4. Paid(y, z, l)
    <3>1. IsLeg(l)
      BY <2>1
    <3> HIDE DEF l
    <3> QED BY <2>2, <2>3, <3>1, TransferPays DEF IsLeg
  <2>5. PICK f : Through(f, k, y)
    BY <2>3
  <2> DEFINE g == [i \in 0 .. k + 1 |-> IF i = k + 1 THEN z ELSE f[i]]
  <2>6. g[0] = s /\ g[k + 1] = z /\ g[k] = y
    BY <2>1, <2>5
  <2>7. ASSUME NEW i \in 1 .. k + 1 PROVE Paid(g[i - 1], g[i], legs[i])
    <3>1. CASE i = k + 1
      BY <2>1, <2>4, <2>6, <3>1
    <3>2. CASE i # k + 1
      <4>1. i \in 1 .. k /\ i - 1 \in 0 .. k + 1 /\ i - 1 # k + 1 /\ i \in 0 .. k + 1
        BY <2>1, <3>2
      <4>2. g[i] = f[i] /\ g[i - 1] = f[i - 1]
        BY <3>2, <4>1
      <4>3. Paid(f[i - 1], f[i], legs[i])
        BY <2>5, <4>1
      <4> QED BY <4>2, <4>3
    <3> QED BY <3>1, <3>2
  <2> HIDE DEF g
  <2>8. Through(g, k + 1, z)
    BY <2>6, <2>7
  <2> QED BY <2>4, <2>8 DEF Paid
<1>4. Done = Nat
  <2> HIDE DEF Done
  <2>1. Done \subseteq Nat
    BY DEF Done
  <2> QED BY <1>2, <1>3, <2>1, NaturalsBySteps
<1>5. x \in after[n]
  BY <1>1 DEF Stages
<1>6. \E f : Through(f, n, x)
  BY <1>4, <1>5
<1> QED BY <1>6 DEF Walk

(* What one transfer adds up to.                                           *)
LEMMA OnePaid ==
  ASSUME NEW s, IsState(s), NEW j, IsLeg(j), NEW x \in Transfers(s, <<j>>)
  PROVE  /\ IsState(x) /\ j[4] \in Nat
         /\ \A b \in Asset, h \in Holder : Held(x, b, h) = Held(s, b, h) + Net(j, b, h)
<1>1. PICK legs : legs = <<j>>
  OBVIOUS
<1>2. legs[1] = j /\ x \in Transfers(s, legs)
  BY <1>1
<1>3. PICK n \in Nat : n = 1 /\ n = Len(legs)
  BY <1>1
<1>4. \A i \in 1 .. n : IsLeg(legs[i])
  BY <1>2, <1>3
<1>5. PICK f : Walk(f, s, legs, n, x)
  BY <1>2, <1>3, <1>4, TransfersPay
<1>6. Paid(f[0], f[1], j)
  <2>1. Paid(f[1 - 1], f[1], legs[1])
    BY <1>3, <1>5 DEF Walk
  <2> QED BY <1>2, <2>1
<1>7. IsState(x) /\ j[4] \in Nat /\ IsState(f[1])
  BY <1>3, <1>5, <1>6 DEF Paid, Walk
<1>8. ASSUME NEW b \in Asset, NEW h \in Holder
      PROVE  Held(x, b, h) = Held(s, b, h) + Net(j, b, h)
  <2>1. Held(f[1], b, h) = Held(f[0], b, h) + Net(j, b, h)
    BY <1>6 DEF Paid
  <2>2. Net(j, b, h) \in Int /\ Held(s, b, h) \in Nat
    BY <1>7, NetType, HeldType
  <2> QED BY <1>3, <1>5, <2>1, <2>2 DEF Walk
<1> QED BY <1>7, <1>8

(* What two transfers add up to.                                           *)
LEMMA TwoPaid ==
  ASSUME NEW s, IsState(s), NEW j, NEW k, IsLeg(j), IsLeg(k), NEW x \in Transfers(s, <<j, k>>)
  PROVE  /\ IsState(x) /\ j[4] \in Nat /\ k[4] \in Nat
         /\ \A b \in Asset, h \in Holder : Held(x, b, h) = Held(s, b, h) + Net(j, b, h) + Net(k, b, h)
<1>1. PICK legs : legs = <<j, k>>
  OBVIOUS
<1>2. legs[1] = j /\ legs[2] = k /\ x \in Transfers(s, legs)
  BY <1>1
<1>3. PICK n \in Nat : n = 2 /\ n = Len(legs)
  BY <1>1
<1>4. \A i \in 1 .. n : IsLeg(legs[i])
  BY <1>2, <1>3
<1>5. PICK f : Walk(f, s, legs, n, x)
  BY <1>2, <1>3, <1>4, TransfersPay
<1>6. Paid(f[0], f[1], j) /\ Paid(f[1], f[2], k)
  <2>1. Paid(f[1 - 1], f[1], legs[1]) /\ Paid(f[2 - 1], f[2], legs[2])
    BY <1>3, <1>5 DEF Walk
  <2> QED BY <1>2, <2>1
<1>7. IsState(x) /\ j[4] \in Nat /\ k[4] \in Nat /\ IsState(f[1]) /\ IsState(f[2])
  BY <1>3, <1>5, <1>6 DEF Paid, Walk
<1>8. ASSUME NEW b \in Asset, NEW h \in Holder
      PROVE  Held(x, b, h) = Held(s, b, h) + Net(j, b, h) + Net(k, b, h)
  <2>1. Held(f[1], b, h) = Held(f[0], b, h) + Net(j, b, h) /\ Held(f[2], b, h) = Held(f[1], b, h) + Net(k, b, h)
    BY <1>6 DEF Paid
  <2>2. Net(j, b, h) \in Int /\ Net(k, b, h) \in Int /\ Held(s, b, h) \in Nat
    BY <1>7, NetType, HeldType
  <2> QED BY <1>3, <1>5, <2>1, <2>2 DEF Walk
<1> QED BY <1>7, <1>8

(* What three transfers add up to.                                         *)
LEMMA ThreePaid ==
  ASSUME NEW s, IsState(s), NEW j, NEW k, NEW l, IsLeg(j), IsLeg(k), IsLeg(l), NEW x \in Transfers(s, <<j, k, l>>)
  PROVE  /\ IsState(x) /\ j[4] \in Nat /\ k[4] \in Nat /\ l[4] \in Nat
         /\ \A b \in Asset, h \in Holder : Held(x, b, h) = Held(s, b, h) + Net(j, b, h) + Net(k, b, h) + Net(l, b, h)
<1>1. PICK legs : legs = <<j, k, l>>
  OBVIOUS
<1>2. legs[1] = j /\ legs[2] = k /\ legs[3] = l /\ x \in Transfers(s, legs)
  BY <1>1
<1>3. PICK n \in Nat : n = 3 /\ n = Len(legs)
  BY <1>1
<1>4. \A i \in 1 .. n : IsLeg(legs[i])
  BY <1>2, <1>3
<1>5. PICK f : Walk(f, s, legs, n, x)
  BY <1>2, <1>3, <1>4, TransfersPay
<1>6. Paid(f[0], f[1], j) /\ Paid(f[1], f[2], k) /\ Paid(f[2], f[3], l)
  <2>1. Paid(f[1 - 1], f[1], legs[1]) /\ Paid(f[2 - 1], f[2], legs[2]) /\ Paid(f[3 - 1], f[3], legs[3])
    BY <1>3, <1>5 DEF Walk
  <2> QED BY <1>2, <2>1
<1>7. IsState(x) /\ j[4] \in Nat /\ k[4] \in Nat /\ l[4] \in Nat /\ IsState(f[1]) /\ IsState(f[2]) /\ IsState(f[3])
  BY <1>3, <1>5, <1>6 DEF Paid, Walk
<1>8. ASSUME NEW b \in Asset, NEW h \in Holder
      PROVE  Held(x, b, h) = Held(s, b, h) + Net(j, b, h) + Net(k, b, h) + Net(l, b, h)
  <2>1. Held(f[1], b, h) = Held(f[0], b, h) + Net(j, b, h) /\ Held(f[2], b, h) = Held(f[1], b, h) + Net(k, b, h) /\ Held(f[3], b, h) = Held(f[2], b, h) + Net(l, b, h)
    BY <1>6 DEF Paid
  <2>2. Net(j, b, h) \in Int /\ Net(k, b, h) \in Int /\ Net(l, b, h) \in Int /\ Held(s, b, h) \in Nat
    BY <1>7, NetType, HeldType
  <2> QED BY <1>3, <1>5, <2>1, <2>2 DEF Walk
<1> QED BY <1>7, <1>8

(* What four transfers add up to.                                          *)
LEMMA FourPaid ==
  ASSUME NEW s, IsState(s), NEW j, NEW k, NEW l, NEW m, IsLeg(j), IsLeg(k), IsLeg(l), IsLeg(m), NEW x \in Transfers(s, <<j, k, l, m>>)
  PROVE  /\ IsState(x) /\ j[4] \in Nat /\ k[4] \in Nat /\ l[4] \in Nat /\ m[4] \in Nat
         /\ \A b \in Asset, h \in Holder : Held(x, b, h) = Held(s, b, h) + Net(j, b, h) + Net(k, b, h) + Net(l, b, h) + Net(m, b, h)
<1>1. PICK legs : legs = <<j, k, l, m>>
  OBVIOUS
<1>2. legs[1] = j /\ legs[2] = k /\ legs[3] = l /\ legs[4] = m /\ x \in Transfers(s, legs)
  BY <1>1
<1>3. PICK n \in Nat : n = 4 /\ n = Len(legs)
  BY <1>1
<1>4. \A i \in 1 .. n : IsLeg(legs[i])
  BY <1>2, <1>3
<1>5. PICK f : Walk(f, s, legs, n, x)
  BY <1>2, <1>3, <1>4, TransfersPay
<1>6. Paid(f[0], f[1], j) /\ Paid(f[1], f[2], k) /\ Paid(f[2], f[3], l) /\ Paid(f[3], f[4], m)
  <2>1. Paid(f[1 - 1], f[1], legs[1]) /\ Paid(f[2 - 1], f[2], legs[2]) /\ Paid(f[3 - 1], f[3], legs[3]) /\ Paid(f[4 - 1], f[4], legs[4])
    BY <1>3, <1>5 DEF Walk
  <2> QED BY <1>2, <2>1
<1>7. IsState(x) /\ j[4] \in Nat /\ k[4] \in Nat /\ l[4] \in Nat /\ m[4] \in Nat /\ IsState(f[1]) /\ IsState(f[2]) /\ IsState(f[3]) /\ IsState(f[4])
  BY <1>3, <1>5, <1>6 DEF Paid, Walk
<1>8. ASSUME NEW b \in Asset, NEW h \in Holder
      PROVE  Held(x, b, h) = Held(s, b, h) + Net(j, b, h) + Net(k, b, h) + Net(l, b, h) + Net(m, b, h)
  <2>1. Held(f[1], b, h) = Held(f[0], b, h) + Net(j, b, h) /\ Held(f[2], b, h) = Held(f[1], b, h) + Net(k, b, h) /\ Held(f[3], b, h) = Held(f[2], b, h) + Net(l, b, h) /\ Held(f[4], b, h) = Held(f[3], b, h) + Net(m, b, h)
    BY <1>6 DEF Paid
  <2>2. Net(j, b, h) \in Int /\ Net(k, b, h) \in Int /\ Net(l, b, h) \in Int /\ Net(m, b, h) \in Int /\ Held(s, b, h) \in Nat
    BY <1>7, NetType, HeldType
  <2> QED BY <1>3, <1>5, <2>1, <2>2 DEF Walk
<1> QED BY <1>7, <1>8

(* What five transfers add up to.                                          *)
LEMMA FivePaid ==
  ASSUME NEW s, IsState(s), NEW j, NEW k, NEW l, NEW m, NEW o, IsLeg(j), IsLeg(k), IsLeg(l), IsLeg(m), IsLeg(o), NEW x \in Transfers(s, <<j, k, l, m, o>>)
  PROVE  /\ IsState(x) /\ j[4] \in Nat /\ k[4] \in Nat /\ l[4] \in Nat /\ m[4] \in Nat /\ o[4] \in Nat
         /\ \A b \in Asset, h \in Holder : Held(x, b, h) = Held(s, b, h) + Net(j, b, h) + Net(k, b, h) + Net(l, b, h) + Net(m, b, h) + Net(o, b, h)
<1>1. PICK legs : legs = <<j, k, l, m, o>>
  OBVIOUS
<1>2. legs[1] = j /\ legs[2] = k /\ legs[3] = l /\ legs[4] = m /\ legs[5] = o /\ x \in Transfers(s, legs)
  BY <1>1
<1>3. PICK n \in Nat : n = 5 /\ n = Len(legs)
  BY <1>1
<1>4. \A i \in 1 .. n : IsLeg(legs[i])
  BY <1>2, <1>3
<1>5. PICK f : Walk(f, s, legs, n, x)
  BY <1>2, <1>3, <1>4, TransfersPay
<1>6. Paid(f[0], f[1], j) /\ Paid(f[1], f[2], k) /\ Paid(f[2], f[3], l) /\ Paid(f[3], f[4], m) /\ Paid(f[4], f[5], o)
  <2>1. Paid(f[1 - 1], f[1], legs[1]) /\ Paid(f[2 - 1], f[2], legs[2]) /\ Paid(f[3 - 1], f[3], legs[3]) /\ Paid(f[4 - 1], f[4], legs[4]) /\ Paid(f[5 - 1], f[5], legs[5])
    BY <1>3, <1>5 DEF Walk
  <2> QED BY <1>2, <2>1
<1>7. IsState(x) /\ j[4] \in Nat /\ k[4] \in Nat /\ l[4] \in Nat /\ m[4] \in Nat /\ o[4] \in Nat /\ IsState(f[1]) /\ IsState(f[2]) /\ IsState(f[3]) /\ IsState(f[4]) /\ IsState(f[5])
  BY <1>3, <1>5, <1>6 DEF Paid, Walk
<1>8. ASSUME NEW b \in Asset, NEW h \in Holder
      PROVE  Held(x, b, h) = Held(s, b, h) + Net(j, b, h) + Net(k, b, h) + Net(l, b, h) + Net(m, b, h) + Net(o, b, h)
  <2>1. Held(f[1], b, h) = Held(f[0], b, h) + Net(j, b, h) /\ Held(f[2], b, h) = Held(f[1], b, h) + Net(k, b, h) /\ Held(f[3], b, h) = Held(f[2], b, h) + Net(l, b, h) /\ Held(f[4], b, h) = Held(f[3], b, h) + Net(m, b, h) /\ Held(f[5], b, h) = Held(f[4], b, h) + Net(o, b, h)
    BY <1>6 DEF Paid
  <2>2. Net(j, b, h) \in Int /\ Net(k, b, h) \in Int /\ Net(l, b, h) \in Int /\ Net(m, b, h) \in Int /\ Net(o, b, h) \in Int /\ Held(s, b, h) \in Nat
    BY <1>7, NetType, HeldType
  <2> QED BY <1>3, <1>5, <2>1, <2>2 DEF Walk
<1> QED BY <1>7, <1>8

(* Two sequences joined are the sequence that starts with one and ends     *)
(* with the other.                                                         *)
LEMMA JoinSame ==
  ASSUME NEW T, NEW s \in Seq(T), NEW t \in Seq(T), NEW u \in Seq(T), Len(u) = Len(s) + Len(t),
         \A i \in 1 .. Len(s) : u[i] = s[i], \A i \in 1 .. Len(t) : u[Len(s) + i] = t[i]
  PROVE  s \o t = u
<1>1. PICK v : v = s \o t
  OBVIOUS
<1>2. /\ v \in Seq(T) /\ Len(v) = Len(s) + Len(t) /\ Len(s) \in Nat /\ Len(t) \in Nat
      /\ \A i \in 1 .. Len(s) : v[i] = s[i]
      /\ \A i \in 1 .. Len(t) : v[Len(s) + i] = t[i]
  BY <1>1, JoinIs
<1>3. ASSUME NEW i \in 1 .. Len(v) PROVE v[i] = u[i]
  <2>1. CASE i \in 1 .. Len(s)
    BY <1>2, <2>1
  <2>2. CASE i \notin 1 .. Len(s)
    <3>1. i - Len(s) \in 1 .. Len(t) /\ i = Len(s) + (i - Len(s))
      BY <1>2, <2>2
    <3>2. PICK d \in 1 .. Len(t) : i = Len(s) + d
      BY <3>1
    <3> QED BY <1>2, <3>2
  <2> QED BY <2>1, <2>2
<1>4. v = u
  BY <1>2, <1>3, SeqSame
<1> QED BY <1>1, <1>4

(* Two and two elements.                                                   *)
LEMMA TwoAndTwo == ASSUME NEW j, NEW k, NEW l, NEW m PROVE <<j, k>> \o <<l, m>> = <<j, k, l, m>>
<1> DEFINE T == {j, k, l, m}
<1>1. PICK s, t, u : s = <<j, k>> /\ t = <<l, m>> /\ u = <<j, k, l, m>>
  OBVIOUS
<1>2. /\ s \in Seq(T) /\ t \in Seq(T) /\ u \in Seq(T) /\ Len(s) = 2 /\ Len(t) = 2 /\ Len(u) = 4
      /\ s[1] = j /\ s[2] = k /\ t[1] = l /\ t[2] = m /\ u[1] = j /\ u[2] = k /\ u[3] = l /\ u[4] = m
  BY <1>1
<1> HIDE DEF T
<1>3. Len(u) = Len(s) + Len(t) /\ \A i \in 1 .. Len(s) : u[i] = s[i]
  BY <1>2
<1>4. \A i \in 1 .. Len(t) : u[Len(s) + i] = t[i]
  BY <1>2
<1>5. s \o t = u
  BY <1>2, <1>3, <1>4, JoinSame
<1> QED BY <1>1, <1>5

(* Three and one.                                                          *)
LEMMA ThreeAndOne == ASSUME NEW j, NEW k, NEW l, NEW m PROVE <<j, k, l>> \o <<m>> = <<j, k, l, m>>
<1> DEFINE T == {j, k, l, m}
<1>1. PICK s, t, u : s = <<j, k, l>> /\ t = <<m>> /\ u = <<j, k, l, m>>
  OBVIOUS
<1>2. /\ s \in Seq(T) /\ t \in Seq(T) /\ u \in Seq(T) /\ Len(s) = 3 /\ Len(t) = 1 /\ Len(u) = 4
      /\ s[1] = j /\ s[2] = k /\ s[3] = l /\ t[1] = m /\ u[1] = j /\ u[2] = k /\ u[3] = l /\ u[4] = m
  BY <1>1
<1> HIDE DEF T
<1>3. Len(u) = Len(s) + Len(t) /\ \A i \in 1 .. Len(s) : u[i] = s[i]
  BY <1>2
<1>4. \A i \in 1 .. Len(t) : u[Len(s) + i] = t[i]
  BY <1>2
<1>5. s \o t = u
  BY <1>2, <1>3, <1>4, JoinSame
<1> QED BY <1>1, <1>5

(* One and two.                                                            *)
LEMMA OneAndTwo == ASSUME NEW j, NEW k, NEW l PROVE <<j>> \o <<k, l>> = <<j, k, l>>
<1> DEFINE T == {j, k, l}
<1>1. PICK s, t, u : s = <<j>> /\ t = <<k, l>> /\ u = <<j, k, l>>
  OBVIOUS
<1>2. /\ s \in Seq(T) /\ t \in Seq(T) /\ u \in Seq(T) /\ Len(s) = 1 /\ Len(t) = 2 /\ Len(u) = 3
      /\ s[1] = j /\ t[1] = k /\ t[2] = l /\ u[1] = j /\ u[2] = k /\ u[3] = l
  BY <1>1
<1> HIDE DEF T
<1>3. Len(u) = Len(s) + Len(t) /\ \A i \in 1 .. Len(s) : u[i] = s[i]
  BY <1>2
<1>4. \A i \in 1 .. Len(t) : u[Len(s) + i] = t[i]
  BY <1>2
<1>5. s \o t = u
  BY <1>2, <1>3, <1>4, JoinSame
<1> QED BY <1>1, <1>5

(* Two and one.                                                            *)
LEMMA TwoAndOne == ASSUME NEW j, NEW k, NEW l PROVE <<j, k>> \o <<l>> = <<j, k, l>>
<1> DEFINE T == {j, k, l}
<1>1. PICK s, t, u : s = <<j, k>> /\ t = <<l>> /\ u = <<j, k, l>>
  OBVIOUS
<1>2. /\ s \in Seq(T) /\ t \in Seq(T) /\ u \in Seq(T) /\ Len(s) = 2 /\ Len(t) = 1 /\ Len(u) = 3
      /\ s[1] = j /\ s[2] = k /\ t[1] = l /\ u[1] = j /\ u[2] = k /\ u[3] = l
  BY <1>1
<1> HIDE DEF T
<1>3. Len(u) = Len(s) + Len(t) /\ \A i \in 1 .. Len(s) : u[i] = s[i]
  BY <1>2
<1>4. \A i \in 1 .. Len(t) : u[Len(s) + i] = t[i]
  BY <1>2
<1>5. s \o t = u
  BY <1>2, <1>3, <1>4, JoinSame
<1> QED BY <1>1, <1>5

(* Four and one.                                                           *)
LEMMA FourAndOne == ASSUME NEW j, NEW k, NEW l, NEW m, NEW o PROVE <<j, k, l, m>> \o <<o>> = <<j, k, l, m, o>>
<1> DEFINE T == {j, k, l, m, o}
<1>1. PICK s, t, u : s = <<j, k, l, m>> /\ t = <<o>> /\ u = <<j, k, l, m, o>>
  OBVIOUS
<1>2. /\ s \in Seq(T) /\ t \in Seq(T) /\ u \in Seq(T) /\ Len(s) = 4 /\ Len(t) = 1 /\ Len(u) = 5
      /\ s[1] = j /\ s[2] = k /\ s[3] = l /\ s[4] = m /\ t[1] = o /\ u[1] = j /\ u[2] = k /\ u[3] = l /\ u[4] = m /\ u[5] = o
  BY <1>1
<1> HIDE DEF T
<1>3. Len(u) = Len(s) + Len(t) /\ \A i \in 1 .. Len(s) : u[i] = s[i]
  BY <1>2
<1>4. \A i \in 1 .. Len(t) : u[Len(s) + i] = t[i]
  BY <1>2
<1>5. s \o t = u
  BY <1>2, <1>3, <1>4, JoinSame
<1> QED BY <1>1, <1>5

(* h holds what it held.                                                   *)
Kept(s, x, h) == \A a \in Asset : Held(x, a, h) = Held(s, a, h)

(* Accounts are holders and no pairs; tokens are assets.                   *)
LEMMA AccountsApart ==
  ASSUME NEW h \in Account
  PROVE  h \in Holder /\ h \notin Pair
BY PairAssumption DEF Holder, Pair

(* What a pair's two transfers change for an account.                      *)
LEMMA BothPaid ==
  ASSUME NEW s, IsState(s), NEW p \in Pair, NEW to \in Holder, NEW amount,
         NEW x \in Transfers(s, BothTokens(p, p, to, amount))
  PROVE  /\ IsState(x) /\ \A t \in p : amount[t] \in Nat
         /\ \A h \in Account \ {to} : Kept(s, x, h)
         /\ to \in Account => \A a \in Asset :
              Held(x, a, to) = Held(s, a, to) + IF a \in p THEN Received(a, amount[a]) ELSE 0
         /\ to \in Account => \A t \in p : Held(s, t, p) - Held(x, t, p) = amount[t]
<1> DEFINE t == CHOOSE u \in p : TRUE
           o == Other(p, t)
<1>1. t \in p
  BY PairIsTwo
<1>2. o \in p /\ p = {t, o} /\ p \subseteq Token /\ o # t
  BY <1>1, OtherOf
<1>3. BothTokens(p, p, to, amount) = <<<<t, p, to, amount[t]>>, <<o, p, to, amount[o]>>>>
  BY DEF BothTokens
<1> HIDE DEF t, o
<1>4. t \in Asset /\ o \in Asset /\ p \in Holder /\ p \notin Account
  BY <1>1, <1>2, HoldersFinite, PairAssumption DEF Pair
<1>5. PICK j, k : j = <<t, p, to, amount[t]>> /\ k = <<o, p, to, amount[o]>>
  OBVIOUS
<1>6. /\ j[1] = t /\ j[2] = p /\ j[3] = to /\ j[4] = amount[t]
      /\ k[1] = o /\ k[2] = p /\ k[3] = to /\ k[4] = amount[o]
  BY <1>5
<1>7. IsLeg(j) /\ IsLeg(k)
  BY <1>4, <1>5, <1>6 DEF IsLeg
<1>8. x \in Transfers(s, <<j, k>>)
  BY <1>3, <1>5
<1>9. /\ IsState(x) /\ j[4] \in Nat /\ k[4] \in Nat
      /\ \A b \in Asset, h \in Holder : Held(x, b, h) = Held(s, b, h) + Net(j, b, h) + Net(k, b, h)
  BY <1>7, <1>8, TwoPaid
<1>10. \A u \in p : amount[u] \in Nat
  BY <1>2, <1>6, <1>9
<1>11. ASSUME NEW h \in Account \ {to} PROVE Kept(s, x, h)
  <2> SUFFICES ASSUME NEW a \in Asset PROVE Held(x, a, h) = Held(s, a, h)
    BY DEF Kept
  <2>1. h \in Holder /\ h # p /\ Held(s, a, h) \in Nat
    BY <1>4, AccountsApart, HeldType
  <2>2. Net(j, a, h) = 0 /\ Net(k, a, h) = 0
    BY <1>6, <1>9, <2>1, NetType
  <2> QED BY <1>9, <2>1, <2>2
<1>12. ASSUME to \in Account, NEW a \in Asset
       PROVE  Held(x, a, to) = Held(s, a, to) + IF a \in p THEN Received(a, amount[a]) ELSE 0
  <2>1. to # p /\ Held(s, a, to) \in Nat
    BY <1>4, <1>12, HeldType
  <2>2. Net(j, a, to) = (IF a = t THEN Received(a, amount[t]) ELSE 0)
    BY <1>6, <1>9, <2>1, NetType
  <2>3. Net(k, a, to) = (IF a = o THEN Received(a, amount[o]) ELSE 0)
    BY <1>6, <1>9, <2>1, NetType
  <2>4. Received(a, amount[t]) \in Nat /\ Received(a, amount[o]) \in Nat
    BY <1>1, <1>2, <1>10, ReceivedIs
  <2>5. Held(x, a, to) = Held(s, a, to) + Net(j, a, to) + Net(k, a, to)
    BY <1>9
  <2> QED BY <1>2, <2>1, <2>2, <2>3, <2>4, <2>5
<1>13. ASSUME to \in Account, NEW u \in p PROVE Held(s, u, p) - Held(x, u, p) = amount[u]
  <2>1. to # p /\ u \in Asset /\ Held(s, u, p) \in Nat
    BY <1>2, <1>4, <1>13, HeldType
  <2>2. Net(j, u, p) = (IF u = t THEN -amount[t] ELSE 0)
    BY <1>6, <1>9, <2>1, NetType
  <2>3. Net(k, u, p) = (IF u = o THEN -amount[o] ELSE 0)
    BY <1>6, <1>9, <2>1, NetType
  <2>4. Held(x, u, p) = Held(s, u, p) + Net(j, u, p) + Net(k, u, p)
    BY <1>4, <1>9, <2>1
  <2> QED BY <1>2, <1>10, <2>1, <2>2, <2>3, <2>4
<1> QED BY <1>9, <1>10, <1>11, <1>12, <1>13

(* What a swap changes for an account: it is paid the output, or nothing.  *)
LEMMA SwapPays ==
  ASSUME NEW s, IsState(s), NEW p \in DOMAIN s.pool, NEW to \in Holder, NEW out, NEW paid, NEW x \in swap(s, p, out, to, paid)
  PROVE  /\ \A h \in Account \ {to} : Kept(s, x, h)
         /\ \A t \in p : out[t] \in Nat
         /\ to \in Account /\ (\A t \in p : paid[t] = 0) => \A a \in Asset :
              Held(x, a, to) = Held(s, a, to) + IF a \in p THEN Received(a, out[a]) ELSE 0
<1> DEFINE reserve == s.pool[p].reserve
           In(y) == [t \in p |-> Max({0, y.wallet[t][p] - (reserve[t] - out[t])})]
           Settled(y) == /\ \E t \in p : In(y)[t] > 0
                         /\ KHolds(reserve, Balances(y, p), In(y), PairFee[p])
           S == Transfers(s, BothTokens(p, p, to, out) \o BothTokens(p, to, p, paid))
<1>1. x \in Then(S, LAMBDA y : IF Settled(y) THEN _update(y, p) ELSE {})
  BY DEF swap
<1>2. PICK y \in S : x \in _update(y, p)
  <2> HIDE DEF S, Settled
  <2> QED BY <1>1 DEF Then
<1>3. p \in Pair
  BY DEF IsState
<1> DEFINE t == CHOOSE u \in p : TRUE
           o == Other(p, t)
<1>4. t \in p
  BY <1>3, PairIsTwo
<1>5. o \in p /\ p = {t, o} /\ p \subseteq Token /\ o # t
  BY <1>3, <1>4, OtherOf
<1>6. /\ BothTokens(p, p, to, out) = <<<<t, p, to, out[t]>>, <<o, p, to, out[o]>>>>
      /\ BothTokens(p, to, p, paid) = <<<<t, to, p, paid[t]>>, <<o, to, p, paid[o]>>>>
  BY DEF BothTokens
<1> HIDE DEF t, o
<1>7. t \in Asset /\ o \in Asset /\ p \in Holder /\ p \notin Account
  BY <1>3, <1>4, <1>5, HoldersFinite, PairAssumption DEF Pair
<1>8. PICK j, k, l, m : /\ j = <<t, p, to, out[t]>> /\ k = <<o, p, to, out[o]>>
                        /\ l = <<t, to, p, paid[t]>> /\ m = <<o, to, p, paid[o]>>
  OBVIOUS
<1>9. /\ j[1] = t /\ j[2] = p /\ j[3] = to /\ j[4] = out[t]
      /\ k[1] = o /\ k[2] = p /\ k[3] = to /\ k[4] = out[o]
      /\ l[1] = t /\ l[2] = to /\ l[3] = p /\ l[4] = paid[t]
      /\ m[1] = o /\ m[2] = to /\ m[3] = p /\ m[4] = paid[o]
  BY <1>8
<1>10. IsLeg(j) /\ IsLeg(k) /\ IsLeg(l) /\ IsLeg(m)
  BY <1>7, <1>8, <1>9 DEF IsLeg
<1>11. y \in Transfers(s, <<j, k, l, m>>)
  <2>1. <<j, k>> \o <<l, m>> = <<j, k, l, m>>
    BY TwoAndTwo
  <2> QED BY <1>2, <1>6, <1>8, <2>1
<1>12. /\ IsState(y) /\ j[4] \in Nat /\ k[4] \in Nat /\ l[4] \in Nat /\ m[4] \in Nat
       /\ \A b \in Asset, h \in Holder :
            Held(y, b, h) = Held(s, b, h) + Net(j, b, h) + Net(k, b, h) + Net(l, b, h) + Net(m, b, h)
  BY <1>10, <1>11, FourPaid
<1>13. \A a, h : Held(x, a, h) = Held(y, a, h)
  <2>1. y.pool = s.pool
    <3>1. s = [wallet |-> s.wallet, pool |-> s.pool]
      BY DEF IsState
    <3> DEFINE L == {j, k, l, m}
    <3>2. IsLegs(L)
      BY <1>10 DEF IsLegs, IsLeg
    <3>3. <<j, k, l, m>> \in Seq(L)
      OBVIOUS
    <3> HIDE DEF L
    <3> QED BY <1>11, <3>2, <3>3, TransfersLead
  <2>2. x.wallet = y.wallet
    BY <1>2, <1>12, <2>1, UpdateLeads
  <2> QED BY <2>2 DEF Held
<1>14. ASSUME NEW h \in Account \ {to} PROVE Kept(s, x, h)
  <2> SUFFICES ASSUME NEW a \in Asset PROVE Held(x, a, h) = Held(s, a, h)
    BY DEF Kept
  <2>1. h \in Holder /\ h # p /\ Held(s, a, h) \in Nat
    BY <1>7, AccountsApart, HeldType
  <2>2. Net(j, a, h) = 0 /\ Net(k, a, h) = 0 /\ Net(l, a, h) = 0 /\ Net(m, a, h) = 0
    BY <1>9, <1>12, <2>1, NetType
  <2>3. Held(y, a, h) = Held(s, a, h)
    BY <1>12, <2>1, <2>2
  <2> QED BY <1>13, <2>3
<1>15. \A u \in p : out[u] \in Nat
  BY <1>5, <1>9, <1>12
<1>16. ASSUME to \in Account, \A u \in p : paid[u] = 0, NEW a \in Asset
       PROVE  Held(x, a, to) = Held(s, a, to) + IF a \in p THEN Received(a, out[a]) ELSE 0
  <2>1. to # p /\ Held(s, a, to) \in Nat
    BY <1>7, <1>16, HeldType
  <2>2. Net(j, a, to) = (IF a = t THEN Received(a, out[t]) ELSE 0)
    BY <1>9, <1>12, <2>1, NetType
  <2>3. Net(k, a, to) = (IF a = o THEN Received(a, out[o]) ELSE 0)
    BY <1>9, <1>12, <2>1, NetType
  <2>4. Net(l, a, to) = 0 /\ Net(m, a, to) = 0
    <3>1. l[4] = 0 /\ m[4] = 0
      BY <1>4, <1>5, <1>9, <1>16
    <3> QED BY <1>12, <3>1, NetType
  <2>5. Received(a, out[t]) \in Nat /\ Received(a, out[o]) \in Nat
    BY <1>4, <1>5, <1>15, ReceivedIs
  <2>6. Held(y, a, to) = Held(s, a, to) + Net(j, a, to) + Net(k, a, to) + Net(l, a, to) + Net(m, a, to)
    BY <1>12
  <2> QED BY <1>5, <1>13, <2>1, <2>2, <2>3, <2>4, <2>5, <2>6
<1> QED BY <1>14, <1>15, <1>16

-----------------------------------------------------------------------------
(* Finishing an operation of a pair moves nothing.                         *)
LEMMA FinishKeeps ==
  ASSUME NEW y, IsState(y), NEW p \in DOMAIN y.pool, NEW x \in Finished(y, p)
  PROVE  x.wallet = y.wallet
<1>1. PICK z \in _update(y, p) : x \in SetKLast(z, p)
  BY DEF Finished, Then
<1>2. IsState(z) /\ z.wallet = y.wallet /\ DOMAIN z.pool = DOMAIN y.pool
  BY UpdateLeads
<1>3. x.wallet = z.wallet
  BY <1>1, <1>2, SetKLastLeads
<1> QED BY <1>2, <1>3

(* Shares are minted without moving any token.                             *)
LEMMA MintKeeps ==
  ASSUME NEW s, Good(s), NEW p \in DOMAIN s.pool, NEW to \in Holder, NEW x \in mint(s, p, to)
  PROVE  x.wallet = s.wallet
<1> DEFINE r == _mintFee(s.pool[p])
           amount == [t \in p |-> s.wallet[t][p] - s.pool[p].reserve[t]]
           minted == _mint(_mint(r, Zero, IF r.totalSupply = 0 THEN MINIMUM_LIQUIDITY ELSE 0), to, Liquidity(r, amount))
           y == [s EXCEPT !.pool[p] = minted]
<1>1. PICK z \in _update(y, p) : x \in SetKLast(z, p)
  <2>1. x \in Then(_update(y, p), LAMBDA z : SetKLast(z, p))
    BY DEF mint
  <2> HIDE DEF y
  <2> QED BY <2>1 DEF Then
<1>2. s = [wallet |-> s.wallet, pool |-> s.pool]
  BY DEF Good, IsState
<1> HIDE DEF minted
<1> DEFINE f == [s.pool EXCEPT ![p] = minted]
<1>3. y = [wallet |-> s.wallet, pool |-> f]
  BY <1>2
<1> HIDE DEF y, f
<1>4. y.wallet = s.wallet /\ y = [wallet |-> y.wallet, pool |-> y.pool]
  BY <1>3
<1> DEFINE g == [y.pool EXCEPT ![p].reserve = Balances(y, p)]
<1>5. z = [wallet |-> y.wallet, pool |-> g]
  <2>1. z = [y EXCEPT !.pool[p].reserve = Balances(y, p)]
    BY DEF _update
  <2> QED BY <1>4, <2>1
<1> HIDE DEF g
<1>6. z.wallet = s.wallet /\ z = [wallet |-> z.wallet, pool |-> z.pool]
  BY <1>4, <1>5
<1> DEFINE h == [z.pool EXCEPT ![p].kLast = Product(z.pool[p].reserve)]
<1>7. x = z \/ x = [wallet |-> z.wallet, pool |-> h]
  <2>1. x = z \/ x = [z EXCEPT !.pool[p].kLast = Product(z.pool[p].reserve)]
    BY <1>1 DEF SetKLast
  <2> QED BY <1>6, <2>1
<1> HIDE DEF h
<1> QED BY <1>6, <1>7

(* Who is paid when shares are burnt: what the pair sent.                  *)
LEMMA BurnPays ==
  ASSUME NEW s, Good(s), feeTo \in Account, NEW p \in DOMAIN s.pool, NEW to \in Account, NEW x \in burn(s, p, to)
  PROVE  /\ \A h \in Account \ {to} : Kept(s, x, h)
         /\ \A t \in p : Sent(s, x, p)[t] \in Nat
         /\ \A a \in Asset : Held(x, a, to) = Held(s, a, to) + IF a \in p THEN Received(a, Sent(s, x, p)[a]) ELSE 0
<1> DEFINE old == s.pool[p]
           l == old.balanceOf[p]
           r == _mintFee(old)
           amount == Redeemed(r, l, Balances(s, p))
           burnt == [r EXCEPT !.balanceOf[p] = @ - l, !.totalSupply = @ - l]
           y == [s EXCEPT !.pool[p] = burnt]
           S == Transfers(y, BothTokens(p, p, to, amount))
<1>1. x \in Then(Then(S, LAMBDA z : _update(z, p)), LAMBDA z : SetKLast(z, p))
  BY DEF burn
<1>2. IsState(s) /\ p \in Pair /\ old \in Record(p) /\ SharesOK(old) /\ old.balanceOf \in [Holder -> Nat]
  BY PairTypes DEF Good
<1>3. p \in Holder /\ to \in Holder
  BY <1>2, HoldersFinite, AccountsApart
<1>4. l \in Nat /\ SharesAdd(old)
  BY <1>2, <1>3 DEF SharesOK, SharesAdd
<1>5. r \in Record(p) /\ SharesAdd(r) /\ r.balanceOf[p] = l
  BY <1>2, <1>4, MintFee
<1> HIDE DEF l, r
<1>6. burnt \in Record(p)
  <2>1. burnt = WithoutShares(r, p, l)
    BY DEF WithoutShares
  <2> HIDE DEF burnt
  <2> QED BY <1>2, <1>4, <1>5, <2>1, BurntRecord
<1> HIDE DEF burnt
<1>7. IsState(y) /\ y.wallet = s.wallet /\ DOMAIN y.pool = DOMAIN s.pool
  BY <1>2, <1>6, SetPair
<1> HIDE DEF y, amount
<1>8. PICK z \in S : x \in Finished(z, p)
  <2> HIDE DEF S
  <2> QED BY <1>1 DEF Then, Finished
<1>9. /\ IsState(z) /\ \A t \in p : amount[t] \in Nat
      /\ \A h \in Account \ {to} : Kept(y, z, h)
      /\ \A a \in Asset : Held(z, a, to) = Held(y, a, to) + IF a \in p THEN Received(a, amount[a]) ELSE 0
      /\ \A t \in p : Held(y, t, p) - Held(z, t, p) = amount[t]
  BY <1>2, <1>3, <1>7, BothPaid
<1>10. z.pool = y.pool
  <2> DEFINE L == PairLegs(p, p, to, amount)
  <2>1. BothTokens(p, p, to, amount) \in Seq(L) /\ IsLegs(L)
    BY <1>2, <1>3, BothTokensLegs
  <2> HIDE DEF L
  <2> QED BY <1>7, <2>1, TransfersLead
<1> HIDE DEF S
<1>11. x.wallet = z.wallet
  BY <1>7, <1>8, <1>9, <1>10, FinishKeeps
<1>12. \A a, h : Held(x, a, h) = Held(z, a, h) /\ Held(y, a, h) = Held(s, a, h)
  BY <1>7, <1>11 DEF Held
<1>13. \A t \in p : Sent(s, x, p)[t] = amount[t]
  <2>1. \A t \in p : Sent(s, x, p)[t] = Held(s, t, p) - Held(x, t, p)
    BY DEF Sent, Held
  <2> QED BY <1>9, <1>12, <2>1
<1>14. \A h \in Account \ {to} : Kept(s, x, h)
  BY <1>9, <1>12 DEF Kept
<1>15. \A a \in Asset : Held(x, a, to) = Held(s, a, to) + IF a \in p THEN Received(a, Sent(s, x, p)[a]) ELSE 0
  <2> TAKE a \in Asset
  <2>1. a \in p => Sent(s, x, p)[a] = amount[a]
    BY <1>13
  <2>2. Held(z, a, to) = Held(y, a, to) + IF a \in p THEN Received(a, amount[a]) ELSE 0
    BY <1>9
  <2> QED BY <1>12, <2>1, <2>2
<1>16. \A t \in p : Sent(s, x, p)[t] \in Nat
  BY <1>9, <1>13
<1> QED BY <1>14, <1>15, <1>16

(* The other operations of a pair, called by an account u for itself: no   *)
(* other account gains or loses anything.                                  *)
LEMMA SkimPays ==
  ASSUME NEW s, Good(s), NEW p \in DOMAIN s.pool, NEW to \in Account, NEW x \in skim(s, p, to)
  PROVE  \A h \in Account \ {to} : Kept(s, x, h)
<1> DEFINE amount == [t \in p |-> s.wallet[t][p] - s.pool[p].reserve[t]]
<1>1. x \in Transfers(s, BothTokens(p, p, to, amount))
  BY DEF skim
<1>2. IsState(s) /\ p \in Pair /\ to \in Holder
  BY AccountsApart DEF Good, IsState
<1> HIDE DEF amount
<1> QED BY <1>1, <1>2, BothPaid

(* A transfer is between two.                                              *)
LEMMA TransferKeeps ==
  ASSUME NEW s, IsState(s), NEW a \in Asset, NEW u \in Holder, NEW to \in Holder, NEW amount, NEW x \in Transfer(s, a, u, to, amount)
  PROVE  \A h \in Holder \ {u, to} : Kept(s, x, h)
<1>1. PICK l : l = <<a, u, to, amount>>
  OBVIOUS
<1>2. l[1] = a /\ l[2] = u /\ l[3] = to /\ l[4] = amount
  BY <1>1
<1>3. Paid(s, x, l)
  BY <1>1, TransferPays
<1> SUFFICES ASSUME NEW h \in Holder \ {u, to}, NEW b \in Asset PROVE Held(x, b, h) = Held(s, b, h)
  BY DEF Kept
<1>4. Net(l, b, h) = 0
  BY <1>2, <1>3, NetType DEF Paid
<1> QED BY <1>3, <1>4, HeldType DEF Paid

(* A hop pays the next pair, the last one the receiver.                    *)
LEMMA HopPays ==
  ASSUME NEW y, IsState(y), NEW path, Ways(y, path), NEW i \in 1 .. (Len(path) - 1), NEW out, NEW receiver \in Account,
         NEW x \in Hop(y, path, i, out, receiver)
  PROVE  /\ \A h \in Account : i + 1 < Len(path) \/ h # receiver => Kept(y, x, h)
         /\ i + 1 = Len(path) => /\ out \in Nat
                                 /\ \A a \in Asset : Held(x, a, receiver)
                                      = Held(y, a, receiver) + IF a = Last(path) THEN Received(a, out) ELSE 0
<1> DEFINE p == {path[i], path[i + 1]}
           to == IF i + 1 < Len(path) THEN {path[i + 1], path[i + 2]} ELSE receiver
           o == [t \in p |-> IF t = path[i + 1] THEN out ELSE 0]
           zero == [t \in p |-> 0]
<1>1. x \in swap(y, p, o, to, zero)
  BY DEF Hop
<1>2. Len(path) \in Nat /\ p \in DOMAIN y.pool /\ p \in Pair /\ i \in Nat
  BY DEF Ways, IsState
<1>3. path[i] # path[i + 1]
  <2>1. PICK a, b \in Token : a # b /\ p = {a, b}
    BY <1>2, PairIsTwo
  <2> QED BY <2>1
<1>4. i + 1 < Len(path) => to \in Pair
  <2> SUFFICES ASSUME i + 1 < Len(path) PROVE {path[i + 1], path[i + 2]} \in Pair
    OBVIOUS
  <2>1. i + 1 \in 1 .. (Len(path) - 1) /\ (i + 1) + 1 = i + 2
    BY <1>2
  <2>2. {path[i + 1], path[(i + 1) + 1]} \in DOMAIN y.pool
    BY <2>1 DEF Ways
  <2> QED BY <2>1, <2>2 DEF IsState
<1>5. i + 1 < Len(path) \/ to = receiver
  OBVIOUS
<1>6. /\ \A t \in p : o[t] = (IF t = path[i + 1] THEN out ELSE 0) /\ zero[t] = 0
      /\ path[i + 1] \in p /\ \A t \in p : t = path[i + 1] \/ t = path[i]
  OBVIOUS
<1> HIDE DEF p, to, o, zero
<1>7. to \in Holder
  BY <1>4, <1>5, HoldersFinite, AccountsApart
<1>8. /\ \A h \in Account \ {to} : Kept(y, x, h)
      /\ \A t \in p : o[t] \in Nat
      /\ to \in Account => \A a \in Asset : Held(x, a, to) = Held(y, a, to) + IF a \in p THEN Received(a, o[a]) ELSE 0
  BY <1>1, <1>2, <1>6, <1>7, SwapPays
<1>9. ASSUME NEW h \in Account, i + 1 < Len(path) \/ h # receiver PROVE Kept(y, x, h)
  <2>1. h # to
    BY <1>4, <1>5, <1>9, AccountsApart
  <2> QED BY <1>8, <2>1
<1>10. ASSUME i + 1 = Len(path)
       PROVE  /\ out \in Nat
              /\ \A a \in Asset : Held(x, a, receiver) = Held(y, a, receiver) + IF a = Last(path) THEN Received(a, out) ELSE 0
  <2>1. to = receiver /\ Last(path) = path[i + 1]
    BY <1>2, <1>5, <1>10 DEF Last
  <2>2. out \in Nat
    BY <1>6, <1>8
  <2>3. ASSUME NEW a \in Asset
        PROVE  Held(x, a, receiver) = Held(y, a, receiver) + IF a = Last(path) THEN Received(a, out) ELSE 0
    <3>1. Held(x, a, receiver) = Held(y, a, receiver) + IF a \in p THEN Received(a, o[a]) ELSE 0
      BY <1>8, <2>1
    <3>2. CASE a = path[i + 1]
      BY <1>6, <2>1, <3>1, <3>2
    <3>3. CASE a \in p /\ a # path[i + 1]
      <4>1. Received(a, o[a]) = 0
        BY <1>6, <3>3, ReceivedIs
      <4> QED BY <2>1, <3>1, <3>3, <4>1
    <3>4. CASE a \notin p
      <4>1. a # path[i + 1]
        BY <1>6, <3>4
      <4> QED BY <2>1, <3>1, <3>4, <4>1
    <3> QED BY <3>2, <3>3, <3>4
  <2> QED BY <2>2, <2>3
<1> QED BY <1>9, <1>10

(* A path pays the receiver what its last pair pays.                       *)
LEMMA PathPays ==
  ASSUME NEW s, Good(s), NEW path, Ways(s, path), Len(path) >= 2, NEW amounts, NEW receiver \in Account,
         NEW x \in _swap(s, amounts, path, receiver)
  PROVE  /\ \A h \in Account \ {receiver} : Kept(s, x, h)
         /\ amounts[Len(path)] \in Nat
         /\ \A a \in Asset : Held(x, a, receiver)
              = Held(s, a, receiver) + IF a = Last(path) THEN Received(a, amounts[Len(path)]) ELSE 0
<1>1. PICK after : Hops(after, s, amounts, path, receiver)
  BY SwapStages
<1>2. Len(path) \in Nat
  BY DEF Ways
<1>3. PICK n \in Nat : n = Len(path) - 1 /\ n >= 1
  BY <1>2
<1>4. ASSUME NEW i \in 0 .. n, NEW y \in after[i] PROVE IsState(y) /\ Ways(y, path)
  <2>1. Quiet(s, y)
    BY <1>1, <1>3, <1>4 DEF Hops
  <2> QED BY <2>1, WaysStay DEF Quiet, Grows, Good
<1>5. ASSUME NEW i \in 1 .. n, NEW z \in after[i] PROVE \E y \in after[i - 1] : z \in Hop(y, path, i, amounts[i + 1], receiver)
  BY <1>1, <1>3, <1>5 DEF Hops
<1> DEFINE Untouched == {k \in Nat : k < n => \A y \in after[k] : \A h \in Account : Kept(s, y, h)}
<1>6. 0 \in Untouched
  <2>1. after[0] = {s}
    BY <1>1 DEF Hops
  <2> QED BY <2>1 DEF Kept
<1>7. ASSUME NEW k \in Untouched PROVE k + 1 \in Untouched
  <2> SUFFICES ASSUME k + 1 < n, NEW z \in after[k + 1], NEW h \in Account PROVE Kept(s, z, h)
    OBVIOUS
  <2>1. k \in Nat /\ k < n /\ k \in 0 .. n /\ k + 1 \in 1 .. n /\ (k + 1) - 1 = k
    BY <1>3
  <2>2. PICK y \in after[k] : z \in Hop(y, path, k + 1, amounts[(k + 1) + 1], receiver)
    BY <1>5, <2>1
  <2>3. IsState(y) /\ Ways(y, path)
    BY <1>4, <2>1
  <2>4. k + 1 \in 1 .. (Len(path) - 1) /\ (k + 1) + 1 < Len(path)
    BY <1>2, <1>3, <2>1
  <2>5. Kept(y, z, h)
    BY <2>2, <2>3, <2>4, HopPays
  <2>6. Kept(s, y, h)
    BY <2>1
  <2> QED BY <2>5, <2>6 DEF Kept
<1>8. Untouched = Nat
  <2> HIDE DEF Untouched
  <2>1. Untouched \subseteq Nat
    BY DEF Untouched
  <2> QED BY <1>6, <1>7, <2>1, NaturalsBySteps
<1>9. x \in after[n] /\ n \in 1 .. n /\ n - 1 \in Nat /\ n - 1 < n /\ n - 1 \in 0 .. n /\ n + 1 = Len(path)
  BY <1>1, <1>2, <1>3 DEF Hops
<1>10. PICK y \in after[n - 1] : x \in Hop(y, path, n, amounts[n + 1], receiver)
  BY <1>5, <1>9
<1>11. \A h \in Account : Kept(s, y, h)
  BY <1>8, <1>9, <1>10
<1>12. IsState(y) /\ Ways(y, path)
  BY <1>4, <1>9, <1>10
<1>13. n \in 1 .. (Len(path) - 1)
  BY <1>3, <1>9
<1>14. /\ \A h \in Account : h # receiver => Kept(y, x, h)
       /\ amounts[n + 1] \in Nat
       /\ \A a \in Asset : Held(x, a, receiver)
            = Held(y, a, receiver) + IF a = Last(path) THEN Received(a, amounts[n + 1]) ELSE 0
  BY <1>9, <1>10, <1>12, <1>13, HopPays
<1> QED BY <1>9, <1>11, <1>14 DEF Kept

(* The same for taxed tokens, except for what the receiver is paid.        *)
LEMMA PathPaysTaxed ==
  ASSUME NEW s, Good(s), NEW path, Ways(s, path), Len(path) >= 2, NEW receiver \in Account,
         NEW x \in _swapTaxed(s, path, receiver)
  PROVE  /\ \A h \in Account \ {receiver} : Kept(s, x, h)
         /\ \A a \in Asset \ {Last(path)} : Held(x, a, receiver) = Held(s, a, receiver)
<1>1. PICK after : HopsTaxed(after, s, path, receiver)
  BY SwapTaxedStages
<1>2. Len(path) \in Nat
  BY DEF Ways
<1>3. PICK n \in Nat : n = Len(path) - 1 /\ n >= 1
  BY <1>2
<1>4. ASSUME NEW i \in 0 .. n, NEW y \in after[i] PROVE IsState(y) /\ Ways(y, path)
  <2>1. Quiet(s, y)
    BY <1>1, <1>3, <1>4 DEF HopsTaxed
  <2> QED BY <2>1, WaysStay DEF Quiet, Grows, Good
<1>5. ASSUME NEW i \in 1 .. n, NEW z \in after[i] PROVE \E out : \E y \in after[i - 1] : z \in Hop(y, path, i, out, receiver)
  <2>1. PICK y \in after[i - 1] : z \in HopTaxed(y, path, i, receiver)
    BY <1>1, <1>3, <1>5 DEF HopsTaxed
  <2> QED BY <2>1 DEF HopTaxed
<1> DEFINE Rest == {a \in Asset : a # Last(path)}
           Untouched == {k \in Nat : k <= n => \A y \in after[k] :
                           /\ \A h \in Account \ {receiver} : Kept(s, y, h)
                           /\ \A a \in Rest : Held(y, a, receiver) = Held(s, a, receiver)}
<1>6. 0 \in Untouched
  <2>1. after[0] = {s}
    BY <1>1 DEF HopsTaxed
  <2> QED BY <2>1 DEF Kept
<1>7. ASSUME NEW k \in Untouched PROVE k + 1 \in Untouched
  <2> SUFFICES ASSUME k + 1 <= n, NEW z \in after[k + 1]
               PROVE  /\ \A h \in Account \ {receiver} : Kept(s, z, h)
                      /\ \A a \in Rest : Held(z, a, receiver) = Held(s, a, receiver)
    OBVIOUS
  <2>1. k \in Nat /\ k <= n /\ k \in 0 .. n /\ k + 1 \in 1 .. n /\ (k + 1) - 1 = k
    BY <1>3
  <2>2. PICK out : \E y \in after[k] : z \in Hop(y, path, k + 1, out, receiver)
    BY <1>5, <2>1
  <2>3. PICK y \in after[k] : z \in Hop(y, path, k + 1, out, receiver)
    BY <2>2
  <2>4. IsState(y) /\ Ways(y, path)
    BY <1>4, <2>1
  <2>5. k + 1 \in 1 .. (Len(path) - 1) /\ ((k + 1) + 1 < Len(path) \/ (k + 1) + 1 = Len(path))
    BY <1>2, <1>3, <2>1
  <2>6. /\ \A h \in Account : (k + 1) + 1 < Len(path) \/ h # receiver => Kept(y, z, h)
        /\ (k + 1) + 1 = Len(path) =>
             /\ out \in Nat
             /\ \A a \in Asset : Held(z, a, receiver)
                  = Held(y, a, receiver) + IF a = Last(path) THEN Received(a, out) ELSE 0
    BY <2>3, <2>4, <2>5, HopPays
  <2>7. /\ \A h \in Account \ {receiver} : Kept(s, y, h)
        /\ \A a \in Rest : Held(y, a, receiver) = Held(s, a, receiver)
    BY <2>1
  <2>8. ASSUME NEW a \in Rest PROVE Held(z, a, receiver) = Held(y, a, receiver)
    <3>1. receiver \in Holder /\ Held(y, a, receiver) \in Nat
      BY <2>4, AccountsApart, HeldType
    <3>2. CASE (k + 1) + 1 < Len(path)
      BY <2>6, <3>2 DEF Kept
    <3>3. CASE (k + 1) + 1 = Len(path)
      BY <2>6, <3>1, <3>3
    <3> QED BY <2>5, <3>2, <3>3
  <2> QED BY <2>6, <2>7, <2>8 DEF Kept
<1>8. Untouched = Nat
  <2> HIDE DEF Untouched
  <2>1. Untouched \subseteq Nat
    BY DEF Untouched
  <2> QED BY <1>6, <1>7, <2>1, NaturalsBySteps
<1>9. x \in after[n]
  BY <1>1, <1>3 DEF HopsTaxed
<1>10. /\ \A h \in Account \ {receiver} : Kept(s, x, h)
       /\ \A a \in Rest : Held(x, a, receiver) = Held(s, a, receiver)
  BY <1>3, <1>8, <1>9
<1> QED BY <1>10

-----------------------------------------------------------------------------
(* Reserves are numbers.                                                   *)
LEMMA ReserveType == ASSUME NEW s, Good(s), NEW a, NEW b PROVE ReserveOf(s, a, b) \in Nat
<1>1. CASE {a, b} \in DOMAIN s.pool
  <2>1. s.pool[{a, b}] \in Record({a, b})
    BY <1>1 DEF Good, IsState
  <2>2. s.pool[{a, b}].reserve[a] \in Nat
    BY <2>1 DEF Record
  <2> QED BY <1>1, <2>2 DEF ReserveOf
<1>2. CASE {a, b} \notin DOMAIN s.pool
  BY <1>2 DEF ReserveOf
<1> QED BY <1>1, <1>2

(* Prices are whole numbers, also those that revert.                       *)
LEMMA PriceType ==
  ASSUME NEW a \in Int, NEW r \in Nat, NEW q \in Nat
  PROVE  getAmountOut(a, r, q) \in Int /\ getAmountIn(a, r, q) \in Int
<1>1. FEE_BASE \in Nat /\ FEE_BASE - FEE \in Nat /\ FEE_BASE > 0 /\ FEE_BASE - FEE > 0
  BY FeeAssumption
<1> DEFINE base == FEE_BASE  kept == FEE_BASE - FEE
<1>2. base \in Nat /\ kept \in Nat /\ base > 0 /\ kept > 0
  BY <1>1
<1>3. getAmountOut(a, r, q) \in Int
  <2>1. getAmountOut(a, r, q) = IF a > 0 /\ r > 0 /\ q > 0 THEN ((a * kept) * q) \div (r * base + a * kept) ELSE -1
    BY DEF getAmountOut, Revert
  <2> HIDE DEF base, kept
  <2> SUFFICES ASSUME a > 0, r > 0, q > 0 PROVE ((a * kept) * q) \div (r * base + a * kept) \in Int
    BY <2>1
  <2>2. r * base \in Nat /\ r * base > 0 /\ a * kept \in Nat
    BY <1>2
  <2>3. (a * kept) * q \in Nat
    BY <2>2
  <2>4. \A m \in Nat, n \in Nat : n > 0 => m \div n \in Int
    OBVIOUS
  <2>5. r * base + a * kept \in Nat /\ r * base + a * kept > 0
    BY <2>2
  <2> QED BY <2>3, <2>4, <2>5
<1>4. getAmountIn(a, r, q) \in Int
  <2>1. getAmountIn(a, r, q) = IF a > 0 /\ r > 0 /\ a < q THEN (r * a * base) \div ((q - a) * kept) + 1 ELSE -1
    BY DEF getAmountIn, Revert
  <2> HIDE DEF base, kept
  <2> SUFFICES ASSUME a > 0, r > 0, a < q PROVE (r * a * base) \div ((q - a) * kept) + 1 \in Int
    BY <2>1
  <2>2. r * a \in Nat
    OBVIOUS
  <2>3. r * a * base \in Nat
    BY <1>2, <2>2
  <2>4. (q - a) * kept \in Nat /\ (q - a) * kept > 0
    BY <1>2
  <2>5. \A m \in Nat, n \in Nat : n > 0 => m \div n \in Int
    OBVIOUS
  <2> QED BY <2>3, <2>4, <2>5
<1> QED BY <1>3, <1>4

(* The amounts along a path, from the input on and from the output back.   *)
AmountsFor(s, x, path) == getAmountsOut(Reserves(s, path), x, path)
AmountsUntil(s, x, path) == getAmountsIn(Reserves(s, path), x, path)

(* The reserves along a path are numbers, both ways.                       *)
LEMMA ReservesType ==
  ASSUME NEW s, Good(s), NEW path \in Seq(Token), NEW i \in DOMAIN path, NEW j \in DOMAIN path
  PROVE  Reserves(s, path)[<<path[i], path[j]>>] \in Nat
<1>1. path[i] \in Range(path) /\ path[j] \in Range(path)
  BY DEF Range
<1>2. Reserves(s, path)[<<path[i], path[j]>>] = ReserveOf(s, path[i], path[j])
  BY <1>1 DEF Reserves
<1> QED BY <1>2, ReserveType

(* The amounts of a swap: the one that was asked for is at its end.        *)
LEMMA AmountsOut ==
  ASSUME NEW s, Good(s), NEW path \in Seq(Token), Len(path) >= 2, NEW x \in Nat,
         NEW amounts, amounts = AmountsFor(s, x, path)
  PROVE  amounts[1] = x /\ Last(amounts) = amounts[Len(path)]
<1>1. PICK n \in Nat : n = Len(path) /\ n >= 2
  OBVIOUS
<1> DEFINE r == Reserves(s, path)
           Hence(v, i) == getAmountOut(v, r[<<path[i - 1], path[i]>>], r[<<path[i], path[i - 1]>>])
           Solves(f) == f = [i \in 1 .. n |-> IF i = 1 THEN x ELSE Hence(f[i - 1], i)]
<1>2. ASSUME NEW v \in Int, NEW i \in 2 .. n PROVE Hence(v, i) \in Int
  <2>1. i - 1 \in DOMAIN path /\ i \in DOMAIN path
    BY <1>1
  <2>2. r[<<path[i - 1], path[i]>>] \in Nat /\ r[<<path[i], path[i - 1]>>] \in Nat
    BY <2>1, ReservesType
  <2> HIDE DEF r
  <2> QED BY <2>2, PriceType
<1>3. amounts = CHOOSE f : Solves(f)
  BY <1>1 DEF AmountsFor, getAmountsOut
<1> HIDE DEF Hence, r
<1>4. \E f : Solves(f)
  <2>1. PICK k \in Nat : k = n - 1
    BY <1>1
  <2> DEFINE g == [vi \in Int \X (1 .. k) |-> Hence(vi[1], vi[2] + 1)]
  <2>2. g \in [Int \X (1 .. k) -> Int]
    BY <1>2, <2>1
  <2>3. \A v \in Int, i \in 1 .. k : g[<<v, i>>] = Hence(v, i + 1)
    OBVIOUS
  <2> HIDE DEF g
  <2>4. PICK h : IsRun(h, Int, k, x, g)
    <3>1. x \in Int
      OBVIOUS
    <3> QED BY <2>2, <3>1, RunsExist
  <2> DEFINE f == [i \in 1 .. n |-> h[i - 1]]
  <2>5. h \in [0 .. k -> Int] /\ h[0] = x /\ \A i \in 1 .. k : h[i] = g[<<h[i - 1], i>>]
    BY <2>4 DEF IsRun
  <2>6. ASSUME NEW i \in 1 .. n PROVE f[i] = IF i = 1 THEN x ELSE Hence(f[i - 1], i)
    <3>1. CASE i = 1
      BY <2>5, <3>1
    <3>2. CASE i # 1
      <4>1. i - 1 \in 1 .. k /\ (i - 1) - 1 \in 0 .. k /\ i - 1 \in 1 .. n /\ (i - 1) + 1 = i
        BY <2>1, <3>2
      <4>2. f[i] = h[i - 1] /\ f[i - 1] = h[(i - 1) - 1]
        BY <4>1
      <4>3. h[i - 1] = g[<<h[(i - 1) - 1], i - 1>>]
        BY <2>5, <4>1
      <4>4. h[(i - 1) - 1] \in Int
        BY <2>5, <4>1
      <4> HIDE DEF f
      <4> QED BY <2>3, <3>2, <4>1, <4>2, <4>3, <4>4
    <3> QED BY <3>1, <3>2
  <2>7. f = [i \in 1 .. n |-> f[i]]
    OBVIOUS
  <2> HIDE DEF f
  <2>8. Solves(f)
    BY <2>6, <2>7
  <2> QED BY <2>8
<1>5. Solves(amounts)
  <2> HIDE DEF Solves
  <2> QED BY <1>3, <1>4
<1>6. amounts[1] = x
  BY <1>1, <1>5
<1>7. Len(amounts) = n
  BY <1>1, <1>5
<1> QED BY <1>1, <1>6, <1>7 DEF Last

(* Backwards from the amount that is to come out.                          *)
LEMMA AmountsIn ==
  ASSUME NEW s, Good(s), NEW path \in Seq(Token), Len(path) >= 2, NEW x \in Nat,
         NEW amounts, amounts = AmountsUntil(s, x, path)
  PROVE  amounts[Len(path)] = x /\ Last(amounts) = x
<1>1. PICK n \in Nat : n = Len(path) /\ n >= 2
  OBVIOUS
<1> DEFINE r == Reserves(s, path)
           Hence(v, i) == getAmountIn(v, r[<<path[i], path[i + 1]>>], r[<<path[i + 1], path[i]>>])
           Solves(f) == f = [i \in 1 .. n |-> IF i = n THEN x ELSE Hence(f[i + 1], i)]
<1>2. ASSUME NEW v \in Int, NEW i \in 1 .. (n - 1) PROVE Hence(v, i) \in Int
  <2>1. i + 1 \in DOMAIN path /\ i \in DOMAIN path
    BY <1>1
  <2>2. r[<<path[i], path[i + 1]>>] \in Nat /\ r[<<path[i + 1], path[i]>>] \in Nat
    BY <2>1, ReservesType
  <2> HIDE DEF r
  <2> QED BY <2>2, PriceType
<1>3. amounts = CHOOSE f : Solves(f)
  BY <1>1 DEF AmountsUntil, getAmountsIn
<1> HIDE DEF Hence, r
<1>4. \E f : Solves(f)
  <2>1. PICK k \in Nat : k = n - 1
    BY <1>1
  <2> DEFINE g == [vi \in Int \X (1 .. k) |-> Hence(vi[1], n - vi[2])]
  <2>2. g \in [Int \X (1 .. k) -> Int]
    <3>1. \A i \in 1 .. k : n - i \in 1 .. (n - 1)
      BY <2>1
    <3> QED BY <1>2, <3>1
  <2>3. \A v \in Int, i \in 1 .. k : g[<<v, i>>] = Hence(v, n - i)
    OBVIOUS
  <2> HIDE DEF g
  <2>4. PICK h : IsRun(h, Int, k, x, g)
    <3>1. x \in Int
      OBVIOUS
    <3> QED BY <2>2, <3>1, RunsExist
  <2> DEFINE f == [i \in 1 .. n |-> h[n - i]]
  <2>5. h \in [0 .. k -> Int] /\ h[0] = x /\ \A i \in 1 .. k : h[i] = g[<<h[i - 1], i>>]
    BY <2>4 DEF IsRun
  <2>6. ASSUME NEW i \in 1 .. n PROVE f[i] = IF i = n THEN x ELSE Hence(f[i + 1], i)
    <3>1. CASE i = n
      BY <2>5, <3>1
    <3>2. CASE i # n
      <4>1. n - i \in 1 .. k /\ (n - i) - 1 \in 0 .. k /\ i + 1 \in 1 .. n /\ n - (n - i) = i /\ n - (i + 1) = (n - i) - 1
        BY <2>1, <3>2
      <4>2. f[i] = h[n - i] /\ f[i + 1] = h[(n - i) - 1]
        BY <4>1
      <4>3. h[n - i] = g[<<h[(n - i) - 1], n - i>>]
        BY <2>5, <4>1
      <4>4. h[(n - i) - 1] \in Int
        BY <2>5, <4>1
      <4> HIDE DEF f
      <4> QED BY <2>3, <3>2, <4>1, <4>2, <4>3, <4>4
    <3> QED BY <3>1, <3>2
  <2>7. f = [i \in 1 .. n |-> f[i]]
    OBVIOUS
  <2> HIDE DEF f
  <2>8. Solves(f)
    BY <2>6, <2>7
  <2> QED BY <2>8
<1>5. Solves(amounts)
  <2> HIDE DEF Solves
  <2> QED BY <1>3, <1>4
<1>6. amounts[n] = x
  BY <1>1, <1>5
<1>7. Len(amounts) = n
  BY <1>1, <1>5
<1> QED BY <1>1, <1>6, <1>7 DEF Last

-----------------------------------------------------------------------------
(* What a leg changes, by its parts.                                       *)
LEMMA NetOf ==
  ASSUME NEW a, NEW from, NEW to, NEW m, NEW b, NEW h
  PROVE  Net(<<a, from, to, m>>, b, h)
           = (IF a = b /\ to = h THEN Received(b, m) ELSE 0) - (IF a = b /\ from = h THEN m ELSE 0)
BY DEF Net

(* Legs by their parts.                                                    *)
LEMMA LegOf ==
  ASSUME NEW a \in Asset, NEW from \in Holder, NEW to \in Holder, NEW m
  PROVE  /\ IsLeg(<<a, from, to, m>>) /\ <<a, from, to, m>>[4] = m
BY DEF IsLeg

(* No transfer at all.                                                     *)
LEMMA NonePaid == ASSUME NEW s, IsState(s), NEW x \in Transfers(s, << >>) PROVE x = s
<1>1. PICK n \in Nat : n = 0
  OBVIOUS
<1>2. n = Len(<< >>) /\ \A i \in 1 .. n : IsLeg(<< >>[i])
  BY <1>1
<1>3. PICK f : Walk(f, s, << >>, n, x)
  BY <1>2, TransfersPay
<1> QED BY <1>1, <1>3 DEF Walk

(* What a swap of the router takes from the user and gives him, and an     *)
(* amount that counts in one case alone.                                   *)
InAsset(path, ether) == IF ether = "in" THEN ETH ELSE path[1]
OutAsset(path, ether) == IF ether = "out" THEN ETH ELSE Last(path)
If(cond, m) == IF cond THEN m ELSE 0

(* Enter of SherwoodV2Router: what the user pays, by way of the router.    *)
LEMMA EnterPays ==
  ASSUME NEW s, IsState(s), NEW u \in Account \ {Router, WETH9}, NEW path \in Seq(Token), Len(path) >= 2,
         {path[1], path[2]} \in Pair, NEW amount, NEW value, NEW ether, ether = "in" => path[1] = WETH, Router # WETH9,
         NEW x \in Transfers(s, Enter(u, path, amount, value, ether))
  PROVE  /\ IsState(x) /\ amount \in Nat /\ (ether = "in" => value \in Nat)
         /\ \A h \in Account \ {u, Router, WETH9} : Kept(s, x, h)
         /\ \A a \in Asset :
              /\ Held(x, a, u) = Held(s, a, u) - If(a = InAsset(path, ether), IF ether = "in" THEN value ELSE amount)
              /\ Held(x, a, Router) = Held(s, a, Router) + If(ether = "in" /\ a = ETH, value - amount)
<1> DEFINE p == {path[1], path[2]}
<1>1. /\ u \in Holder /\ Router \in Holder /\ WETH9 \in Holder /\ p \in Holder /\ p \notin Account
      /\ Router \in Account /\ WETH9 \in Account
      /\ path[1] \in Asset /\ path[1] # ETH /\ u # p
  <2>1. Router \in Account /\ WETH9 \in Account
    BY RouterAssumption
  <2>2. u \in Holder /\ Router \in Holder /\ WETH9 \in Holder
    BY <2>1 DEF Holder
  <2>3. p \in Holder /\ p \notin Account
    BY HoldersFinite, AccountsApart
  <2>4. path[1] \in Token
    OBVIOUS
  <2>5. path[1] \in Asset /\ path[1] # ETH
    BY <2>4, RouterAssumption
  <2> HIDE DEF p
  <2> QED BY <2>1, <2>2, <2>3, <2>5
<1>2. WETH \notin Taxed /\ ETH \notin Taxed /\ WETH \in Asset /\ ETH \in Asset /\ WETH # ETH
  BY EtherUntaxed
<1>3. CASE ether = "in"
  <2>1. PICK j, k, l, m : /\ j = <<ETH, u, Router, value>> /\ k = <<ETH, Router, WETH9, amount>>
                          /\ l = <<WETH, WETH9, Router, amount>> /\ m = <<WETH, Router, p, amount>>
    OBVIOUS
  <2>2. Enter(u, path, amount, value, ether) = <<j, k, l, m>>
    <3>1. Enter(u, path, amount, value, ether) = (<<j>> \o <<k, l>>) \o <<m>>
      BY <1>3, <2>1 DEF Enter, Wrap
    <3>2. <<j>> \o <<k, l>> = <<j, k, l>>
      BY OneAndTwo
    <3>3. <<j, k, l>> \o <<m>> = <<j, k, l, m>>
      BY ThreeAndOne
    <3> QED BY <3>1, <3>2, <3>3
  <2>3. IsLeg(j) /\ IsLeg(k) /\ IsLeg(l) /\ IsLeg(m) /\ j[4] = value /\ k[4] = amount /\ m[4] = amount
    BY <1>1, <1>2, <2>1, LegOf
  <2>4. x \in Transfers(s, <<j, k, l, m>>)
    BY <2>2
  <2>5. /\ IsState(x) /\ j[4] \in Nat /\ k[4] \in Nat
        /\ \A b \in Asset, h \in Holder :
             Held(x, b, h) = Held(s, b, h) + Net(j, b, h) + Net(k, b, h) + Net(l, b, h) + Net(m, b, h)
    <3> HIDE DEF p
    <3> QED BY <2>3, <2>4, FourPaid
  <2>6. value \in Nat /\ amount \in Nat
    BY <2>3, <2>5
  <2>7. Received(ETH, value) = value /\ Received(ETH, amount) = amount /\ Received(WETH, amount) = amount
    BY <1>2, <2>6, ReceivedIs
  <2>8. ASSUME NEW b \in Asset, NEW h \in Account
        PROVE  Held(x, b, h) = Held(s, b, h)
                 + (If(b = ETH /\ h = Router, value) - If(b = ETH /\ h = u, value))
                 + (If(b = ETH /\ h = WETH9, amount) - If(b = ETH /\ h = Router, amount))
                 + (If(b = WETH /\ h = Router, amount) - If(b = WETH /\ h = WETH9, amount))
                 - If(b = WETH /\ h = Router, amount)
    <3>1. h \in Holder /\ h # p
      BY <1>1, AccountsApart
    <3>2. Held(s, b, h) \in Nat
      BY <3>1, HeldType
    <3>3. /\ Net(j, b, h) = If(b = ETH /\ h = Router, value) - If(b = ETH /\ h = u, value)
          /\ Net(k, b, h) = If(b = ETH /\ h = WETH9, amount) - If(b = ETH /\ h = Router, amount)
      BY <2>1, <2>7, NetOf DEF If
    <3>4. Net(l, b, h) = If(b = WETH /\ h = Router, amount) - If(b = WETH /\ h = WETH9, amount)
      BY <2>1, <2>7, NetOf DEF If
    <3>5. Net(m, b, h) = 0 - If(b = WETH /\ h = Router, amount)
      BY <2>1, <2>7, <3>1, NetOf DEF If
    <3>6. PICK v1, v2, v3, v4, v5, v6 \in Nat :
            /\ v1 = If(b = ETH /\ h = Router, value) /\ v2 = If(b = ETH /\ h = u, value)
            /\ v3 = If(b = ETH /\ h = WETH9, amount) /\ v4 = If(b = ETH /\ h = Router, amount)
            /\ v5 = If(b = WETH /\ h = Router, amount) /\ v6 = If(b = WETH /\ h = WETH9, amount)
      BY <2>6 DEF If
    <3>7. Held(x, b, h) = Held(s, b, h) + Net(j, b, h) + Net(k, b, h) + Net(l, b, h) + Net(m, b, h)
      BY <2>5, <3>1
    <3>8. Net(j, b, h) = v1 - v2 /\ Net(k, b, h) = v3 - v4 /\ Net(l, b, h) = v5 - v6 /\ Net(m, b, h) = 0 - v5
      BY <3>3, <3>4, <3>5, <3>6
    <3>9. Held(x, b, h) = Held(s, b, h) + (v1 - v2) + (v3 - v4) + (v5 - v6) - v5
      BY <3>2, <3>7, <3>8
    <3> QED BY <3>6, <3>9
  <2>9. \A h \in Account \ {u, Router, WETH9} : Kept(s, x, h)
    <3> SUFFICES ASSUME NEW h \in Account \ {u, Router, WETH9}, NEW b \in Asset PROVE Held(x, b, h) = Held(s, b, h)
      BY DEF Kept
    <3>1. Held(s, b, h) \in Nat
      BY AccountsApart, HeldType
    <3> QED BY <2>8, <3>1 DEF If
  <2>10. ASSUME NEW a \in Asset
         PROVE  /\ Held(x, a, u) = Held(s, a, u) - If(a = ETH, value)
                /\ Held(x, a, Router) = Held(s, a, Router) + If(a = ETH, value - amount)
    <3>1. Held(s, a, u) \in Nat /\ Held(s, a, Router) \in Nat
      BY <1>1, HeldType
    <3>2. Held(x, a, u) = Held(s, a, u) - If(a = ETH, value)
      <4>1. u # Router /\ u # WETH9
        OBVIOUS
      <4>2. Held(x, a, u) = Held(s, a, u) + (0 - If(a = ETH, value)) + (0 - 0) + (0 - 0) - 0
        BY <2>8, <4>1 DEF If
      <4>3. If(a = ETH, value) \in Nat
        BY <2>6 DEF If
      <4> QED BY <3>1, <4>2, <4>3
    <3>4. Held(x, a, Router) = Held(s, a, Router) + If(a = ETH, value - amount)
      <4>1. u # Router /\ Router # WETH9
        OBVIOUS
      <4>2. Held(x, a, Router) = Held(s, a, Router) + (If(a = ETH, value) - 0) + (0 - If(a = ETH, amount))
                                   + (If(a = WETH, amount) - 0) - If(a = WETH, amount)
        BY <1>1, <2>8, <4>1 DEF If
      <4>3. /\ If(a = ETH, value) \in Nat /\ If(a = ETH, amount) \in Nat /\ If(a = WETH, amount) \in Nat
            /\ If(a = ETH, value - amount) = If(a = ETH, value) - If(a = ETH, amount)
        BY <2>6 DEF If
      <4>4. If(a = ETH, value - amount) \in Int
        BY <4>3
      <4> QED BY <3>1, <4>2, <4>3, <4>4
    <3> QED BY <3>2, <3>4
  <2> QED BY <1>3, <2>5, <2>6, <2>9, <2>10 DEF InAsset, If
<1>4. CASE ether # "in"
  <2> DEFINE t == path[1]
  <2>1. PICK j : j = <<t, u, p, amount>>
    OBVIOUS
  <2>2. Enter(u, path, amount, value, ether) = <<j>>
    BY <1>4, <2>1 DEF Enter
  <2>3. IsLeg(j) /\ j[4] = amount
    BY <1>1, <2>1, LegOf
  <2>4. /\ IsState(x) /\ j[4] \in Nat
        /\ \A b \in Asset, h \in Holder : Held(x, b, h) = Held(s, b, h) + Net(j, b, h)
    BY <2>2, <2>3, OnePaid
  <2>5. ASSUME NEW b \in Asset, NEW h \in Account PROVE Held(x, b, h) = Held(s, b, h) - If(b = t /\ h = u, amount)
    <3>1. h \in Holder /\ h # p
      BY <1>1, AccountsApart
    <3>2. Held(s, b, h) \in Nat
      BY <3>1, HeldType
    <3>3. Net(j, b, h) = 0 - If(b = t /\ h = u, amount)
      BY <2>1, <3>1, NetOf DEF If
    <3>4. If(b = t /\ h = u, amount) \in Nat
      BY <2>3, <2>4 DEF If
    <3> HIDE DEF t, p
    <3> QED BY <2>4, <3>1, <3>2, <3>3, <3>4
  <2>6. \A h \in Account \ {u, Router, WETH9} : Kept(s, x, h)
    <3> SUFFICES ASSUME NEW h \in Account \ {u, Router, WETH9}, NEW b \in Asset PROVE Held(x, b, h) = Held(s, b, h)
      BY DEF Kept
    <3>1. Held(s, b, h) \in Nat
      BY AccountsApart, HeldType
    <3> QED BY <2>5, <3>1 DEF If
  <2>7. ASSUME NEW a \in Asset
        PROVE  Held(x, a, u) = Held(s, a, u) - If(a = t, amount) /\ Held(x, a, Router) = Held(s, a, Router)
    <3>1. Held(s, a, Router) \in Nat
      BY <1>1, HeldType
    <3>2. Held(x, a, Router) = Held(s, a, Router)
      BY <1>1, <2>5, <3>1 DEF If
    <3>3. Held(x, a, u) = Held(s, a, u) - If(a = t, amount)
      BY <2>5 DEF If
    <3> QED BY <3>2, <3>3
  <2>8. \A a \in Asset : Held(s, a, Router) \in Nat
    BY <1>1, HeldType
  <2> HIDE DEF p
  <2> QED BY <1>4, <2>3, <2>4, <2>6, <2>7, <2>8 DEF InAsset, If
<1> QED BY <1>3, <1>4

(* Leave of SherwoodV2Router: the router's WETH goes to the user as ether. *)
LEMMA LeavePays ==
  ASSUME NEW s, IsState(s), NEW u \in Account \ {Router, WETH9}, NEW amount, NEW ether, Router # WETH9,
         NEW x \in Transfers(s, Leave(u, amount, ether))
  PROVE  /\ IsState(x) /\ (ether = "out" => amount \in Nat) /\ (ether # "out" => x = s)
         /\ \A h \in Account \ {u, Router, WETH9} : Kept(s, x, h)
         /\ \A a \in Asset :
              /\ Held(x, a, u) = Held(s, a, u) + If(ether = "out" /\ a = ETH, amount)
              /\ Held(x, a, Router) = Held(s, a, Router) - If(ether = "out" /\ a = WETH, amount)
<1>1. Router \in Account /\ WETH9 \in Account
  BY RouterAssumption
<1>2. u \in Holder /\ Router \in Holder /\ WETH9 \in Holder
  BY <1>1 DEF Holder
<1>3. WETH \notin Taxed /\ ETH \notin Taxed /\ WETH \in Asset /\ ETH \in Asset /\ WETH # ETH
  BY EtherUntaxed
<1>4. CASE ether = "out"
  <2>1. PICK j, k, l : /\ j = <<WETH, Router, WETH9, amount>> /\ k = <<ETH, WETH9, Router, amount>>
                       /\ l = <<ETH, Router, u, amount>>
    OBVIOUS
  <2>2. Leave(u, amount, ether) = <<j, k, l>>
    <3>1. Leave(u, amount, ether) = <<j, k>> \o <<l>>
      BY <1>4, <2>1 DEF Leave, Unwrap
    <3>2. <<j, k>> \o <<l>> = <<j, k, l>>
      BY TwoAndOne
    <3> QED BY <3>1, <3>2
  <2>3. IsLeg(j) /\ IsLeg(k) /\ IsLeg(l) /\ j[4] = amount
    BY <1>2, <1>3, <2>1, LegOf
  <2>4. x \in Transfers(s, <<j, k, l>>)
    BY <2>2
  <2>5. /\ IsState(x) /\ j[4] \in Nat
        /\ \A b \in Asset, h \in Holder : Held(x, b, h) = Held(s, b, h) + Net(j, b, h) + Net(k, b, h) + Net(l, b, h)
    BY <2>3, <2>4, ThreePaid
  <2>6. amount \in Nat
    BY <2>3, <2>5
  <2>7. Received(ETH, amount) = amount /\ Received(WETH, amount) = amount
    BY <1>3, <2>6, ReceivedIs
  <2>8. ASSUME NEW b \in Asset, NEW h \in Account
        PROVE  Held(x, b, h) = Held(s, b, h)
                 + (If(b = WETH /\ h = WETH9, amount) - If(b = WETH /\ h = Router, amount))
                 + If(b = ETH /\ h = u, amount) - If(b = ETH /\ h = WETH9, amount)
    <3>1. h \in Holder
      BY AccountsApart
    <3>2. Held(s, b, h) \in Nat
      BY <3>1, HeldType
    <3>3. /\ Net(j, b, h) = If(b = WETH /\ h = WETH9, amount) - If(b = WETH /\ h = Router, amount)
          /\ Net(k, b, h) = If(b = ETH /\ h = Router, amount) - If(b = ETH /\ h = WETH9, amount)
      BY <2>1, <2>7, NetOf DEF If
    <3>4. Net(l, b, h) = If(b = ETH /\ h = u, amount) - If(b = ETH /\ h = Router, amount)
      BY <2>1, <2>7, NetOf DEF If
    <3>5. PICK v1, v2, v3, v4, v5 \in Nat :
            /\ v1 = If(b = WETH /\ h = WETH9, amount) /\ v2 = If(b = WETH /\ h = Router, amount)
            /\ v3 = If(b = ETH /\ h = Router, amount) /\ v4 = If(b = ETH /\ h = WETH9, amount)
            /\ v5 = If(b = ETH /\ h = u, amount)
      BY <2>6 DEF If
    <3>6. Held(x, b, h) = Held(s, b, h) + Net(j, b, h) + Net(k, b, h) + Net(l, b, h)
      BY <2>5, <3>1
    <3>7. Net(j, b, h) = v1 - v2 /\ Net(k, b, h) = v3 - v4 /\ Net(l, b, h) = v5 - v3
      BY <3>3, <3>4, <3>5
    <3>8. Held(x, b, h) = Held(s, b, h) + (v1 - v2) + (v3 - v4) + (v5 - v3)
      BY <3>6, <3>7
    <3>9. Held(x, b, h) = Held(s, b, h) + (v1 - v2) + v5 - v4
      BY <3>2, <3>8
    <3> QED BY <3>5, <3>9
  <2>9. \A h \in Account \ {u, Router, WETH9} : Kept(s, x, h)
    <3> SUFFICES ASSUME NEW h \in Account \ {u, Router, WETH9}, NEW b \in Asset PROVE Held(x, b, h) = Held(s, b, h)
      BY DEF Kept
    <3>1. Held(s, b, h) \in Nat
      BY AccountsApart, HeldType
    <3> QED BY <2>8, <3>1 DEF If
  <2>10. ASSUME NEW a \in Asset
         PROVE  /\ Held(x, a, u) = Held(s, a, u) + If(a = ETH, amount)
                /\ Held(x, a, Router) = Held(s, a, Router) - If(a = WETH, amount)
    <3>1. Held(s, a, u) \in Nat /\ Held(s, a, Router) \in Nat
      BY <1>2, HeldType
    <3>2. Held(x, a, u) = Held(s, a, u) + (0 - 0) + If(a = ETH, amount) - 0
      <4>1. u # Router /\ u # WETH9
        OBVIOUS
      <4> QED BY <2>8, <4>1 DEF If
    <3>3. Held(x, a, Router) = Held(s, a, Router) + (0 - If(a = WETH, amount)) + 0 - 0
      <4>1. u # Router
        OBVIOUS
      <4> QED BY <1>1, <2>8, <4>1 DEF If
    <3>4. If(a = ETH, amount) \in Nat /\ If(a = WETH, amount) \in Nat
      BY <2>6 DEF If
    <3> QED BY <3>1, <3>2, <3>3, <3>4
  <2> QED BY <1>4, <2>5, <2>6, <2>9, <2>10 DEF If
<1>5. CASE ether # "out"
  <2>1. x = s
    <3>1. x \in Transfers(s, << >>)
      BY <1>5 DEF Leave
    <3> QED BY <3>1, NonePaid
  <2>2. \A a \in Asset : Held(s, a, u) \in Nat /\ Held(s, a, Router) \in Nat
    BY <1>2, HeldType
  <2> QED BY <1>5, <2>1, <2>2 DEF Kept, If
<1> QED BY <1>4, <1>5

(* The ether that the router did not need goes back.                       *)
LEMMA RefundPays ==
  ASSUME NEW s, IsState(s), NEW u \in Account \ {Router}, NEW value \in Nat, NEW used \in Nat, used <= value,
         NEW x \in Transfers(s, DustRefund(u, value, used))
  PROVE  /\ IsState(x)
         /\ \A h \in Account \ {u, Router} : Kept(s, x, h)
         /\ \A a \in Asset :
              /\ Held(x, a, u) = Held(s, a, u) + If(a = ETH, value - used)
              /\ Held(x, a, Router) = Held(s, a, Router) - If(a = ETH, value - used)
<1>1. Router \in Account
  BY RouterAssumption
<1>2. u \in Holder /\ Router \in Holder
  BY <1>1 DEF Holder
<1>3. ETH \notin Taxed /\ ETH \in Asset
  BY EtherUntaxed
<1>4. PICK rest \in Nat : rest = value - used
  OBVIOUS
<1>5. CASE value > used
  <2>1. PICK j : j = <<ETH, Router, u, rest>>
    OBVIOUS
  <2>2. DustRefund(u, value, used) = <<j>>
    BY <1>4, <1>5, <2>1 DEF DustRefund
  <2>3. IsLeg(j) /\ j[4] = rest
    BY <1>2, <1>3, <2>1, LegOf
  <2>4. IsState(x) /\ \A b \in Asset, h \in Holder : Held(x, b, h) = Held(s, b, h) + Net(j, b, h)
    BY <2>2, <2>3, OnePaid
  <2>5. Received(ETH, rest) = rest
    BY <1>3, ReceivedIs
  <2>6. ASSUME NEW b \in Asset, NEW h \in Account
        PROVE  Held(x, b, h) = Held(s, b, h) + (If(b = ETH /\ h = u, rest) - If(b = ETH /\ h = Router, rest))
    <3>1. h \in Holder
      BY AccountsApart
    <3>2. Net(j, b, h) = If(b = ETH /\ h = u, rest) - If(b = ETH /\ h = Router, rest)
      BY <2>1, <2>5, NetOf DEF If
    <3> QED BY <2>4, <3>1, <3>2
  <2>7. \A h \in Account \ {u, Router} : Kept(s, x, h)
    <3> SUFFICES ASSUME NEW h \in Account \ {u, Router}, NEW b \in Asset PROVE Held(x, b, h) = Held(s, b, h)
      BY DEF Kept
    <3>1. Held(s, b, h) \in Nat
      BY AccountsApart, HeldType
    <3> QED BY <2>6, <3>1 DEF If
  <2>8. ASSUME NEW a \in Asset
        PROVE  /\ Held(x, a, u) = Held(s, a, u) + If(a = ETH, rest)
               /\ Held(x, a, Router) = Held(s, a, Router) - If(a = ETH, rest)
    <3>1. Held(s, a, u) \in Nat /\ Held(s, a, Router) \in Nat
      BY <1>2, HeldType
    <3>2. u # Router
      OBVIOUS
    <3>3. Held(x, a, u) = Held(s, a, u) + (If(a = ETH, rest) - 0)
      BY <2>6, <3>2 DEF If
    <3>4. Held(x, a, Router) = Held(s, a, Router) + (0 - If(a = ETH, rest))
      BY <1>1, <2>6, <3>2 DEF If
    <3>5. If(a = ETH, rest) \in Nat
      BY DEF If
    <3> QED BY <3>1, <3>3, <3>4, <3>5
  <2> QED BY <1>4, <2>4, <2>7, <2>8
<1>6. CASE ~(value > used)
  <2>1. x = s
    <3>1. x \in Transfers(s, << >>)
      BY <1>6 DEF DustRefund
    <3> QED BY <3>1, NonePaid
  <2>2. rest = 0
    BY <1>4, <1>6
  <2>3. \A a \in Asset : Held(s, a, u) \in Nat /\ Held(s, a, Router) \in Nat
    BY <1>2, HeldType
  <2>4. \A a \in Asset : If(a = ETH, rest) = 0
    BY <2>2 DEF If
  <2> QED BY <1>4, <2>1, <2>3, <2>4 DEF Kept
<1> QED BY <1>5, <1>6

(* A swap of given amounts: the user pays the first of them and receives   *)
(* the last; nobody else, the router included, is left with more or less.  *)
LEMMA ExchangePays ==
  ASSUME NEW s, Good(s), NEW u \in Account \ {Router, WETH9}, NEW path \in Seq(Token), Len(path) >= 2,
         NEW ether, PathOK(s, path, ether), Router # WETH9,
         NEW amounts, Last(amounts) = amounts[Len(path)], NEW value, ether = "in" => amounts[1] <= value,
         NEW x \in Exchange(s, u, path, amounts, value, ether)
  PROVE  /\ amounts[1] \in Nat /\ Last(amounts) \in Nat
         /\ \A h \in Account \ {u, WETH9} : Kept(s, x, h)
         /\ \A a \in Asset :
              Held(x, a, u) = Held(s, a, u) - If(a = InAsset(path, ether), amounts[1])
                                + If(a = OutAsset(path, ether), Received(a, Last(amounts)))
<1> DEFINE T0 == Transfers(s, Enter(u, path, amounts[1], value, ether))
           T1(y) == _swap(y, amounts, path, Receiver(u, ether))
           T2(y) == Transfers(y, Leave(u, Last(amounts), ether))
           T3(y) == Transfers(y, IF ether = "in" THEN DustRefund(u, value, amounts[1]) ELSE <<>>)
           paid == amounts[1]  got == Last(amounts)
<1>1. PICK y0 \in T0 : \E y1 \in T1(y0) : \E y2 \in T2(y1) : x \in T3(y2)
  <2>1. x \in Then(Then(Then(T0, T1), T2), T3)
    BY DEF Exchange
  <2> HIDE DEF T0, T1, T2, T3
  <2> QED BY <2>1 DEF Then
<1>2. PICK y1 \in T1(y0) : \E y2 \in T2(y1) : x \in T3(y2)
  BY <1>1
<1>3. PICK y2 \in T2(y1) : x \in T3(y2)
  BY <1>2
<1>4. Router \in Account /\ WETH9 \in Account /\ Receiver(u, ether) \in Account /\ u \in Holder /\ Router \in Holder
  BY RouterAssumption DEF Receiver, Holder
<1>5. Ways(s, path) /\ {path[1], path[2]} \in Pair /\ IsState(s) /\ {path[1], path[2]} \in Holder
  <2>1. Ways(s, path) /\ {path[1], path[2]} \in Holder
    BY PathWays
  <2>2. {path[1], path[2]} \in DOMAIN s.pool
    <3>1. PICK i \in 1 .. (Len(path) - 1) : i = 1 /\ i + 1 = 2
      OBVIOUS
    <3>2. {path[i], path[i + 1]} \in DOMAIN s.pool
      BY <2>1 DEF Ways
    <3> QED BY <3>1, <3>2
  <2> QED BY <2>1, <2>2 DEF Good, IsState
<1>6. (ether = "in" => path[1] = WETH) /\ (ether = "out" => Last(path) = WETH)
  BY DEF PathOK
<1>7. /\ IsState(y0) /\ paid \in Nat /\ (ether = "in" => value \in Nat)
      /\ \A h \in Account \ {u, Router, WETH9} : Kept(s, y0, h)
      /\ \A a \in Asset :
           /\ Held(y0, a, u) = Held(s, a, u) - If(a = InAsset(path, ether), IF ether = "in" THEN value ELSE paid)
           /\ Held(y0, a, Router) = Held(s, a, Router) + If(ether = "in" /\ a = ETH, value - paid)
  BY <1>5, <1>6, EnterPays
<1>8. Good(y0) /\ Ways(y0, path)
  <2>1. Quiet(s, y0)
    BY <1>5, EnterLegs, AccountsPay, SameIsQuiet
  <2> QED BY <1>5, <2>1, WaysStay DEF Quiet, Grows
<1>9. /\ \A h \in Account \ {Receiver(u, ether)} : Kept(y0, y1, h)
      /\ got \in Nat
      /\ \A a \in Asset : Held(y1, a, Receiver(u, ether))
           = Held(y0, a, Receiver(u, ether)) + IF a = Last(path) THEN Received(a, got) ELSE 0
  BY <1>2, <1>4, <1>8, PathPays
<1>10. IsState(y1)
  <2>1. Quiet(y0, y1)
    BY <1>2, <1>4, <1>8, SwapPath
  <2> QED BY <2>1 DEF Quiet, Grows, Good
<1>11. /\ IsState(y2) /\ (ether # "out" => y2 = y1)
       /\ \A h \in Account \ {u, Router, WETH9} : Kept(y1, y2, h)
       /\ \A a \in Asset :
            /\ Held(y2, a, u) = Held(y1, a, u) + If(ether = "out" /\ a = ETH, got)
            /\ Held(y2, a, Router) = Held(y1, a, Router) - If(ether = "out" /\ a = WETH, got)
  BY <1>3, <1>10, LeavePays
<1>12. /\ IsState(x)
       /\ \A h \in Account \ {u, Router} : Kept(y2, x, h)
       /\ \A a \in Asset :
            /\ Held(x, a, u) = Held(y2, a, u) + If(ether = "in" /\ a = ETH, value - paid)
            /\ Held(x, a, Router) = Held(y2, a, Router) - If(ether = "in" /\ a = ETH, value - paid)
  <2>1. CASE ether = "in"
    <3>1. x \in Transfers(y2, DustRefund(u, value, paid))
      BY <1>3, <2>1
    <3>2. value \in Nat /\ paid \in Nat /\ paid <= value
      BY <1>7, <2>1
    <3> HIDE DEF paid
    <3> QED BY <1>11, <2>1, <3>1, <3>2, RefundPays
  <2>2. CASE ether # "in"
    <3>1. x \in Transfers(y2, << >>)
      BY <1>3, <2>2
    <3>2. x = y2
      BY <1>11, <3>1, NonePaid
    <3>3. \A a \in Asset : Held(y2, a, u) \in Nat /\ Held(y2, a, Router) \in Nat
      BY <1>4, <1>11, HeldType
    <3>4. \A a \in Asset : If(ether = "in" /\ a = ETH, value - paid) = 0
      BY <2>2 DEF If
    <3> QED BY <1>11, <3>2, <3>3, <3>4 DEF Kept
  <2> QED BY <2>1, <2>2
<1> HIDE DEF T0, T1, T2, T3, paid, got
<1>13. ASSUME NEW h \in Account \ {u, WETH9, Router} PROVE Kept(s, x, h)
  <2>1. h # Receiver(u, ether)
    BY DEF Receiver
  <2> QED BY <1>7, <1>9, <1>11, <1>12, <2>1 DEF Kept
<1>14. ASSUME NEW a \in Asset PROVE Held(x, a, Router) = Held(s, a, Router)
  <2>1. Held(s, a, Router) \in Nat /\ Held(y0, a, Router) \in Nat /\ Held(y1, a, Router) \in Nat /\ Held(y2, a, Router) \in Nat
    BY <1>4, <1>5, <1>8, <1>10, <1>11, HeldType DEF Good
  <2>2. Held(y0, a, Router) = Held(s, a, Router) + If(ether = "in" /\ a = ETH, value - paid)
    BY <1>7
  <2>3. Held(y2, a, Router) = Held(y1, a, Router) - If(ether = "out" /\ a = WETH, got)
    BY <1>11
  <2>4. Held(x, a, Router) = Held(y2, a, Router) - If(ether = "in" /\ a = ETH, value - paid)
    BY <1>12
  <2>5. If(ether = "in" /\ a = ETH, value - paid) \in Int /\ If(ether = "out" /\ a = WETH, got) \in Int
    BY <1>7, <1>9 DEF If
  <2>6. Held(y1, a, Router) = Held(y0, a, Router) + If(ether = "out" /\ a = WETH, got)
    <3>1. CASE ether = "out"
      <4>1. Receiver(u, ether) = Router /\ Last(path) = WETH
        BY <1>6, <3>1 DEF Receiver
      <4>2. Received(WETH, got) = got
        BY <1>9, EtherUntaxed, ReceivedIs
      <4>3. Held(y1, a, Router) = Held(y0, a, Router) + IF a = WETH THEN Received(a, got) ELSE 0
        BY <1>9, <4>1
      <4> QED BY <3>1, <4>2, <4>3 DEF If
    <3>2. CASE ether # "out"
      <4>1. Receiver(u, ether) = u /\ Router # u
        BY <3>2 DEF Receiver
      <4>2. Kept(y0, y1, Router)
        BY <1>4, <1>9, <4>1
      <4> QED BY <2>1, <3>2, <4>2 DEF Kept, If
    <3> QED BY <3>1, <3>2
  <2> QED BY <2>1, <2>2, <2>3, <2>4, <2>5, <2>6
<1>15. ASSUME NEW a \in Asset
       PROVE  Held(x, a, u) = Held(s, a, u) - If(a = InAsset(path, ether), paid) + If(a = OutAsset(path, ether), Received(a, got))
  <2>1. Held(s, a, u) \in Nat /\ Held(y0, a, u) \in Nat /\ Held(y1, a, u) \in Nat /\ Held(y2, a, u) \in Nat
    BY <1>4, <1>5, <1>8, <1>10, <1>11, HeldType DEF Good
  <2>2. Received(a, got) \in Nat /\ Received(ETH, got) = got
    BY <1>9, EtherUntaxed, ReceivedIs
  <2>3. Held(y0, a, u) = Held(s, a, u) - If(a = InAsset(path, ether), IF ether = "in" THEN value ELSE paid)
    BY <1>7
  <2>4. Held(y2, a, u) = Held(y1, a, u) + If(ether = "out" /\ a = ETH, got)
    BY <1>11
  <2>5. Held(x, a, u) = Held(y2, a, u) + If(ether = "in" /\ a = ETH, value - paid)
    BY <1>12
  <2>6. ether # "out" => Held(y1, a, u) = Held(y0, a, u) + If(a = Last(path), Received(a, got))
    BY <1>9 DEF Receiver, If
  <2>7. ether = "out" => Held(y1, a, u) = Held(y0, a, u)
    <3> SUFFICES ASSUME ether = "out" PROVE Held(y1, a, u) = Held(y0, a, u)
      OBVIOUS
    <3>1. Receiver(u, ether) = Router
      BY DEF Receiver
    <3> QED BY <1>9, <3>1 DEF Kept
  <2>8. CASE ether = "in"
    <3>1. InAsset(path, ether) = ETH /\ OutAsset(path, ether) = Last(path)
      BY <2>8 DEF InAsset, OutAsset
    <3>2. value \in Nat /\ paid \in Nat
      BY <1>7, <2>8
    <3> QED BY <2>1, <2>2, <2>3, <2>4, <2>5, <2>6, <2>8, <3>1, <3>2 DEF If
  <2>9. CASE ether = "out"
    <3>1. InAsset(path, ether) = path[1] /\ OutAsset(path, ether) = ETH
      BY <2>9 DEF InAsset, OutAsset
    <3>2. got \in Nat /\ paid \in Nat
      BY <1>7, <1>9
    <3> QED BY <2>1, <2>2, <2>3, <2>4, <2>5, <2>7, <2>9, <3>1, <3>2 DEF If
  <2>10. CASE ether # "in" /\ ether # "out"
    <3>1. InAsset(path, ether) = path[1] /\ OutAsset(path, ether) = Last(path)
      BY <2>10 DEF InAsset, OutAsset
    <3>2. paid \in Nat
      BY <1>7
    <3> QED BY <2>1, <2>2, <2>3, <2>4, <2>5, <2>6, <2>10, <3>1, <3>2 DEF If
  <2> QED BY <2>8, <2>9, <2>10
<1>16. \A h \in Account \ {u, WETH9} : Kept(s, x, h)
  BY <1>13, <1>14 DEF Kept
<1> QED BY <1>7, <1>9, <1>15, <1>16 DEF paid, got

-----------------------------------------------------------------------------
(* The least of an asset that a minimum asked of the router makes sure of. *)
Least(out, m) == IF out \in Taxed THEN m - 1 ELSE m

(* What arrives of an amount is enough for the minimum asked for.          *)
LEMMA LeastReceived ==
  ASSUME NEW a, NEW got \in Nat, NEW m \in Int, got >= m
  PROVE  Received(a, got) >= Least(a, m) /\ Received(a, got) \in Nat
<1>1. /\ Received(a, got) \in Nat /\ got - 1 <= Received(a, got)
      /\ a \notin Taxed => Received(a, got) = got
  BY ReceivedIs
<1> QED BY <1>1 DEF Least

(* Both ends of a swap with ether differ.                                  *)
LEMMA EndsDiffer ==
  ASSUME NEW path \in Seq(Token), Len(path) >= 2, NEW ether,
         ether \in {"in", "out"} \/ path[1] # Last(path)
  PROVE  InAsset(path, ether) # OutAsset(path, ether)
         /\ InAsset(path, ether) \in Asset /\ OutAsset(path, ether) \in Asset
<1>1. Len(path) \in Nat /\ 1 \in 1 .. Len(path) /\ Len(path) \in 1 .. Len(path)
  OBVIOUS
<1>2. path[1] \in Token /\ Last(path) \in Token
  BY <1>1 DEF Last
<1>3. path[1] \in Asset /\ Last(path) \in Asset /\ path[1] # ETH /\ Last(path) # ETH /\ ETH \in Asset
  BY <1>2, RouterAssumption
<1> QED BY <1>3 DEF InAsset, OutAsset

(* u has paid for what it got, and no contract has anything from it.       *)
Pays(s, x, u, in, out, paid, got) ==
  /\ \A h \in Account \ {u, WETH9} : Kept(s, x, h)
  /\ \A a \in Asset : Held(x, a, u) = Held(s, a, u) - If(a = in, paid) + If(a = out, Received(a, got))

(* swapExactTokensForTokens and its kin: exactly the amount is paid, and   *)
(* the last pair sends the minimum at least.                               *)
LEMMA SwapInPays ==
  ASSUME NEW s, Good(s), NEW u \in Account \ {Router, WETH9}, NEW path \in Seq(Token), Len(path) >= 2, NEW ether,
         Router # WETH9, NEW amount \in Nat, NEW least \in Nat, NEW x \in swapExactIn(s, u, path, amount, least, ether)
  PROVE  \E got \in Nat : got >= least /\ Pays(s, x, u, InAsset(path, ether), OutAsset(path, ether), amount, got)
<1> DEFINE amounts == AmountsFor(s, amount, path)
<1>1. PathOK(s, path, ether) /\ Last(amounts) >= least /\ x \in Exchange(s, u, path, amounts, amount, ether)
  BY DEF swapExactIn, AmountsFor
<1>2. amounts[1] = amount /\ Last(amounts) = amounts[Len(path)]
  BY AmountsOut
<1> HIDE DEF amounts
<1>3. amounts[1] <= amount
  BY <1>2
<1>4. /\ amounts[1] \in Nat /\ Last(amounts) \in Nat
      /\ \A h \in Account \ {u, WETH9} : Kept(s, x, h)
      /\ \A a \in Asset :
           Held(x, a, u) = Held(s, a, u) - If(a = InAsset(path, ether), amounts[1])
                             + If(a = OutAsset(path, ether), Received(a, Last(amounts)))
  BY <1>1, <1>2, <1>3, ExchangePays
<1>5. Pays(s, x, u, InAsset(path, ether), OutAsset(path, ether), amount, Last(amounts))
  BY <1>2, <1>4 DEF Pays
<1> QED BY <1>1, <1>4, <1>5

(* swapTokensForExactTokens and its kin: at most the limit is paid, for    *)
(* exactly the amount.                                                     *)
LEMMA SwapOutPays ==
  ASSUME NEW s, Good(s), NEW u \in Account \ {Router, WETH9}, NEW path \in Seq(Token), Len(path) >= 2, NEW ether,
         Router # WETH9, NEW amount \in Nat, NEW most \in Nat, NEW x \in swapExactOut(s, u, path, amount, most, ether)
  PROVE  \E paid \in Nat : paid <= most /\ Pays(s, x, u, InAsset(path, ether), OutAsset(path, ether), paid, amount)
<1> DEFINE amounts == AmountsUntil(s, amount, path)
<1>1. PathOK(s, path, ether) /\ amounts[1] <= most /\ x \in Exchange(s, u, path, amounts, most, ether)
  BY DEF swapExactOut, AmountsUntil
<1>2. Last(amounts) = amount /\ Last(amounts) = amounts[Len(path)]
  BY AmountsIn
<1> HIDE DEF amounts
<1>4. /\ amounts[1] \in Nat /\ Last(amounts) \in Nat
      /\ \A h \in Account \ {u, WETH9} : Kept(s, x, h)
      /\ \A a \in Asset :
           Held(x, a, u) = Held(s, a, u) - If(a = InAsset(path, ether), amounts[1])
                             + If(a = OutAsset(path, ether), Received(a, Last(amounts)))
  BY <1>1, <1>2, ExchangePays
<1>5. Pays(s, x, u, InAsset(path, ether), OutAsset(path, ether), amounts[1], amount)
  BY <1>2, <1>4 DEF Pays
<1> QED BY <1>1, <1>4, <1>5

(* The swaps for taxed tokens: exactly the amount is paid, the minimum is  *)
(* received, and of its WETH the router keeps nothing.                     *)
LEMMA SwapTaxedPays ==
  ASSUME NEW s, Good(s), NEW u \in Account \ {Router, WETH9}, NEW path \in Seq(Token), Len(path) >= 2, NEW ether,
         Router # WETH9, Held(s, WETH, Router) = 0, NEW amount, NEW least \in Nat,
         NEW x \in swapExactInTaxed(s, u, path, amount, least, ether)
  PROVE  /\ \A h \in Account \ {u, WETH9} : Kept(s, x, h)
         /\ InAsset(path, ether) # OutAsset(path, ether) =>
              /\ Held(x, InAsset(path, ether), u) = Held(s, InAsset(path, ether), u) - amount
              /\ Held(x, OutAsset(path, ether), u) - Held(s, OutAsset(path, ether), u) >= least
<1> DEFINE Before == IF ether = "out" THEN 0 ELSE s.wallet[Last(path)][u]
           Out(y) == y.wallet[Last(path)][Receiver(u, ether)]
           T0 == Transfers(s, Enter(u, path, amount, amount, ether))
           T1(y) == _swapTaxed(y, path, Receiver(u, ether))
           Swapped == {y \in Then(T0, T1) : Out(y) - Before >= least}
           T2(y) == Transfers(y, Leave(u, Out(y), ether))
<1>1. PathOK(s, path, ether) /\ x \in Then(Swapped, T2)
  BY DEF swapExactInTaxed
<1>2. PICK y0 \in T0 : \E y1 \in T1(y0) : Out(y1) - Before >= least /\ x \in T2(y1)
  <2> HIDE DEF T0, T1, T2, Out, Before
  <2> QED BY <1>1 DEF Then
<1>3. PICK y1 \in T1(y0) : Out(y1) - Before >= least /\ x \in T2(y1)
  BY <1>2
<1>4. Router \in Account /\ WETH9 \in Account /\ Receiver(u, ether) \in Account /\ u \in Holder /\ Router \in Holder
  BY RouterAssumption DEF Receiver, Holder
<1>5. Ways(s, path) /\ {path[1], path[2]} \in Pair /\ IsState(s) /\ {path[1], path[2]} \in Holder
  <2>1. Ways(s, path) /\ {path[1], path[2]} \in Holder
    BY <1>1, PathWays
  <2>2. {path[1], path[2]} \in DOMAIN s.pool
    <3>1. PICK i \in 1 .. (Len(path) - 1) : i = 1 /\ i + 1 = 2
      OBVIOUS
    <3>2. {path[i], path[i + 1]} \in DOMAIN s.pool
      BY <2>1 DEF Ways
    <3> QED BY <3>1, <3>2
  <2> QED BY <2>1, <2>2 DEF Good, IsState
<1>6. (ether = "in" => path[1] = WETH) /\ (ether = "out" => Last(path) = WETH) /\ Last(path) \in Asset
  <2>1. Len(path) \in 1 .. Len(path)
    OBVIOUS
  <2>2. Last(path) \in Token
    BY <2>1 DEF Last
  <2> QED BY <1>1, <2>2, RouterAssumption DEF PathOK
<1>7. /\ IsState(y0) /\ amount \in Nat
      /\ \A h \in Account \ {u, Router, WETH9} : Kept(s, y0, h)
      /\ \A a \in Asset :
           /\ Held(y0, a, u) = Held(s, a, u) - If(a = InAsset(path, ether), IF ether = "in" THEN amount ELSE amount)
           /\ Held(y0, a, Router) = Held(s, a, Router) + If(ether = "in" /\ a = ETH, amount - amount)
  BY <1>2, <1>5, <1>6, EnterPays
<1>8. Good(y0) /\ Ways(y0, path)
  <2>1. Quiet(s, y0)
    BY <1>2, <1>5, EnterLegs, AccountsPay, SameIsQuiet
  <2> QED BY <1>5, <2>1, WaysStay DEF Quiet, Grows
<1>9. /\ \A h \in Account \ {Receiver(u, ether)} : Kept(y0, y1, h)
      /\ \A a \in Asset \ {Last(path)} : Held(y1, a, Receiver(u, ether)) = Held(y0, a, Receiver(u, ether))
  BY <1>3, <1>4, <1>8, PathPaysTaxed
<1>10. IsState(y1)
  <2>1. Quiet(y0, y1)
    BY <1>3, <1>4, <1>8, SwapPathTaxed
  <2> QED BY <2>1 DEF Quiet, Grows, Good
<1> DEFINE got == Held(y1, Last(path), Receiver(u, ether))
<1>11. /\ IsState(x) /\ (ether # "out" => x = y1)
       /\ \A h \in Account \ {u, Router, WETH9} : Kept(y1, x, h)
       /\ \A a \in Asset :
            /\ Held(x, a, u) = Held(y1, a, u) + If(ether = "out" /\ a = ETH, got)
            /\ Held(x, a, Router) = Held(y1, a, Router) - If(ether = "out" /\ a = WETH, got)
  <2>1. x \in Transfers(y1, Leave(u, got, ether))
    BY <1>3 DEF Held
  <2> HIDE DEF got
  <2> QED BY <1>10, <2>1, LeavePays
<1>12. got - (IF ether = "out" THEN 0 ELSE Held(s, Last(path), u)) >= least
  BY <1>3 DEF Held
<1> HIDE DEF T0, T1, T2, Swapped, Out, Before
<1>13. \A a \in Asset : /\ Held(s, a, u) \in Nat /\ Held(y0, a, u) \in Nat /\ Held(y1, a, u) \in Nat
                        /\ Held(s, a, Router) \in Nat /\ Held(y0, a, Router) \in Nat /\ Held(y1, a, Router) \in Nat
  BY <1>4, <1>5, <1>7, <1>10, HeldType
<1>14. ASSUME NEW h \in Account \ {u, WETH9, Router} PROVE Kept(s, x, h)
  <2>1. h # Receiver(u, ether)
    BY DEF Receiver
  <2> QED BY <1>7, <1>9, <1>11, <2>1 DEF Kept
<1>15. ASSUME NEW a \in Asset PROVE Held(x, a, Router) = Held(s, a, Router)
  <2>1. Held(y0, a, Router) = Held(s, a, Router)
    BY <1>7, <1>13 DEF If
  <2>2. CASE ether = "out"
    <3>1. Receiver(u, ether) = Router /\ Last(path) = WETH
      BY <1>6, <2>2 DEF Receiver
    <3>2. CASE a = WETH
      BY <1>11, <1>13, <2>2, <3>1, <3>2 DEF If
    <3>3. CASE a # WETH
      <4>1. Held(y1, a, Router) = Held(y0, a, Router)
        BY <1>9, <3>1, <3>3
      <4>2. Held(x, a, Router) = Held(y1, a, Router) - 0
        BY <1>11, <3>3 DEF If
      <4> QED BY <1>13, <2>1, <4>1, <4>2
    <3> QED BY <3>2, <3>3
  <2>3. CASE ether # "out"
    <3>1. Receiver(u, ether) # Router
      BY <2>3 DEF Receiver
    <3>2. Held(y1, a, Router) = Held(y0, a, Router)
      BY <1>4, <1>9, <3>1 DEF Kept
    <3> QED BY <1>11, <2>1, <2>3, <3>2
  <2> QED BY <2>2, <2>3
<1>16. ASSUME InAsset(path, ether) # OutAsset(path, ether)
       PROVE  /\ Held(x, InAsset(path, ether), u) = Held(s, InAsset(path, ether), u) - amount
              /\ Held(x, OutAsset(path, ether), u) - Held(s, OutAsset(path, ether), u) >= least
  <2> DEFINE in == InAsset(path, ether)  out == OutAsset(path, ether)
  <2>1. in \in Asset /\ out \in Asset
    <3>1. path[1] \in Token
      OBVIOUS
    <3>2. path[1] \in Asset /\ ETH \in Asset
      BY <3>1, RouterAssumption
    <3> QED BY <1>6, <3>2 DEF InAsset, OutAsset
  <2>2. /\ Held(y0, in, u) = Held(s, in, u) - amount
        /\ Held(y0, out, u) = Held(s, out, u)
    <3>1. /\ Held(y0, in, u) = Held(s, in, u) - If(in = InAsset(path, ether), IF ether = "in" THEN amount ELSE amount)
          /\ Held(y0, out, u) = Held(s, out, u) - If(out = InAsset(path, ether), IF ether = "in" THEN amount ELSE amount)
      BY <1>7, <2>1
    <3>2. Held(s, out, u) \in Nat
      BY <1>13, <2>1
    <3> QED BY <1>7, <1>16, <3>1, <3>2 DEF If
  <2>3. CASE ether = "out"
    <3>1. Receiver(u, ether) = Router /\ u # Router /\ out = ETH
      BY <2>3 DEF Receiver, OutAsset
    <3>2. Kept(y0, y1, u)
      BY <1>9, <3>1
    <3>3. Held(y1, in, u) = Held(y0, in, u) /\ Held(y1, out, u) = Held(y0, out, u)
      BY <2>1, <3>2 DEF Kept
    <3>4. Held(x, in, u) = Held(y1, in, u) + 0
      BY <1>11, <1>16, <2>1, <3>1 DEF If
    <3>5. Held(x, out, u) = Held(y1, out, u) + got
      BY <1>11, <2>1, <2>3, <3>1 DEF If
    <3>6. got \in Nat
      BY <1>6, <1>13, <3>1
    <3>7. got >= least
      BY <1>12, <2>3, <3>6
    <3>8. Held(y1, in, u) \in Nat /\ Held(s, out, u) \in Nat
      BY <1>13, <2>1
    <3>9. Held(x, in, u) = Held(s, in, u) - amount
      BY <2>2, <3>3, <3>4, <3>8
    <3>10. Held(x, out, u) = Held(s, out, u) + got
      BY <2>2, <3>3, <3>5
    <3> HIDE DEF got, in, out
    <3>11. Held(x, out, u) - Held(s, out, u) >= least
      BY <3>6, <3>7, <3>8, <3>10
    <3> QED BY <3>9, <3>11 DEF in, out
  <2>4. CASE ether # "out"
    <3>1. Receiver(u, ether) = u /\ out = Last(path) /\ x = y1
      BY <1>11, <2>4 DEF Receiver, OutAsset
    <3>2. Held(y1, in, u) = Held(y0, in, u)
      <4>1. in \in Asset \ {Last(path)}
        BY <1>16, <2>1, <3>1
      <4> QED BY <1>9, <3>1, <4>1
    <3>3. Held(x, out, u) - Held(s, out, u) >= least
      BY <1>12, <2>4, <3>1
    <3> QED BY <2>2, <3>1, <3>2, <3>3
  <2> QED BY <2>3, <2>4
<1>17. \A h \in Account \ {u, WETH9} : Kept(s, x, h)
  BY <1>14, <1>15 DEF Kept
<1> QED BY <1>16, <1>17

-----------------------------------------------------------------------------
(* From s to l.s, c has turned an amount of one asset into l.out of        *)
(* another, and nobody else but WETH and the market outside holds less or  *)
(* more.                                                                   *)
Turns(s, l, c, from, to, amount) ==
  /\ Good(l.s) /\ l.out \in Int
  /\ \A h \in Account \ {c, WETH9, Venue} : Kept(s, l.s, h)
  /\ \A a \in Asset : Held(l.s, a, c) = Held(s, a, c) - If(a = from, amount) + If(a = to, l.out)
AllTurn(s, L, c, from, to, amount) == \A l \in L : Turns(s, l, c, from, to, amount)

(* Turning nothing into anything.                                          *)
LEMMA SelfTurns ==
  ASSUME NEW s, Good(s), NEW c \in Account, NEW a \in Asset, NEW amount \in Int
  PROVE  AllTurn(s, {[s |-> s, out |-> amount]}, c, a, a, amount)
<1>1. PICK l : l = [s |-> s, out |-> amount]
  OBVIOUS
<1>2. l.s = s /\ l.out = amount
  BY <1>1
<1>3. \A b \in Asset : Held(s, b, c) \in Nat
  BY AccountsApart, HeldType DEF Good
<1>4. Turns(s, l, c, a, a, amount)
  BY <1>2, <1>3 DEF Turns, Kept, If
<1> QED BY <1>1, <1>4 DEF AllTurn

(* One turn after another.                                                 *)
LEMMA TurnsAfter ==
  ASSUME NEW s, Good(s), NEW c \in Account, NEW from \in Asset, NEW mid \in Asset, NEW to \in Asset, NEW amount \in Int,
         NEW l, Turns(s, l, c, from, mid, amount), NEW k, Turns(l.s, k, c, mid, to, l.out)
  PROVE  Turns(s, k, c, from, to, amount)
<1>1. Good(k.s) /\ k.out \in Int /\ l.out \in Int /\ Good(l.s)
  BY DEF Turns
<1>2. \A h \in Account \ {c, WETH9, Venue} : Kept(s, k.s, h)
  BY DEF Turns, Kept
<1>3. ASSUME NEW a \in Asset PROVE Held(k.s, a, c) = Held(s, a, c) - If(a = from, amount) + If(a = to, k.out)
  <2>1. Held(s, a, c) \in Nat
    BY AccountsApart, HeldType DEF Good
  <2>2. PICK v1, v2, v3 \in Int : v1 = If(a = from, amount) /\ v2 = If(a = mid, l.out) /\ v3 = If(a = to, k.out)
    BY <1>1 DEF If
  <2>3. Held(l.s, a, c) = Held(s, a, c) - v1 + v2 /\ Held(k.s, a, c) = Held(l.s, a, c) - v2 + v3
    BY <2>2 DEF Turns
  <2>4. Held(k.s, a, c) = Held(s, a, c) - v1 + v3
    BY <2>1, <2>2, <2>3
  <2> QED BY <2>2, <2>4
<1> QED BY <1>1, <1>2, <1>3 DEF Turns

(* What is measured of a purchase is what it brought.                      *)
LEMMA MeasuredTurns ==
  ASSUME NEW s, Good(s), NEW c \in Account, NEW from \in Asset, NEW to \in Asset, from # to, NEW amount \in Nat,
         NEW x, Good(x), \A h \in Account \ {c, WETH9, Venue} : Kept(s, x, h),
         Held(x, from, c) = Held(s, from, c) - amount,
         \A a \in Asset \ {from, to} : Held(x, a, c) = Held(s, a, c),
         NEW l, l = [s |-> x, out |-> x.wallet[to][c] - s.wallet[to][c]]
  PROVE  Turns(s, l, c, from, to, amount)
<1>1. l.s = x /\ l.out = Held(x, to, c) - Held(s, to, c)
  BY DEF Held
<1>2. \A a \in Asset : Held(s, a, c) \in Nat /\ Held(x, a, c) \in Nat
  BY AccountsApart, HeldType DEF Good
<1>3. l.out \in Int
  BY <1>1, <1>2
<1>4. ASSUME NEW a \in Asset PROVE Held(x, a, c) = Held(s, a, c) - If(a = from, amount) + If(a = to, l.out)
  <2>1. CASE a = from
    BY <1>2, <2>1 DEF If
  <2>2. CASE a = to
    <3>1. Held(x, to, c) = Held(s, to, c) - 0 + l.out
      BY <1>1, <1>2
    <3> QED BY <2>2, <3>1 DEF If
  <2>3. CASE a # from /\ a # to
    BY <1>2, <2>3 DEF If
  <2> QED BY <2>1, <2>2, <2>3
<1> QED BY <1>1, <1>3, <1>4 DEF Turns

(* A trade on the outside market.                                          *)
LEMMA TradeTurns ==
  ASSUME NEW s, Good(s), NEW c \in Account \ {Venue, WETH9}, NEW from \in Asset, NEW to \in Asset, from # to, NEW amount
  PROVE  AllTurn(s, Trade(s, c, from, to, amount), c, from, to, amount)
<1> SUFFICES ASSUME NEW l \in Trade(s, c, from, to, amount) PROVE Turns(s, l, c, from, to, amount)
  BY DEF AllTurn
<1>1. PICK o \in Outcome : \E x \in Transfers(s, <<<<from, c, Venue, amount>>, <<to, Venue, c, o>>>>) :
        l = [s |-> x, out |-> x.wallet[to][c] - s.wallet[to][c]]
  BY DEF Trade, Measured
<1>0. PICK x \in Transfers(s, <<<<from, c, Venue, amount>>, <<to, Venue, c, o>>>>) :
        l = [s |-> x, out |-> x.wallet[to][c] - s.wallet[to][c]]
  BY <1>1
<1>2. Venue \in Account /\ Venue \in Holder /\ c \in Holder
  BY SwapAssumption DEF Holder
<1>3. PICK j, k : j = <<from, c, Venue, amount>> /\ k = <<to, Venue, c, o>>
  OBVIOUS
<1>4. IsLeg(j) /\ IsLeg(k) /\ j[4] = amount /\ k[4] = o
  BY <1>2, <1>3, LegOf
<1>5. /\ IsState(x) /\ j[4] \in Nat /\ k[4] \in Nat
      /\ \A b \in Asset, h \in Holder : Held(x, b, h) = Held(s, b, h) + Net(j, b, h) + Net(k, b, h)
  <2>1. x \in Transfers(s, <<j, k>>) /\ IsState(s)
    BY <1>0, <1>3 DEF Good
  <2> QED BY <1>4, <2>1, TwoPaid
<1>6. Good(x)
  <2>1. QuietLegs(s, Trade(s, c, from, to, amount)) /\ l.s = x
    BY <1>0, TradeLegs
  <2> QED BY <2>1 DEF QuietLegs, Quiet, Grows
<1>7. amount \in Nat /\ \A b \in Asset, h \in Holder : Held(s, b, h) \in Nat
  BY <1>4, <1>5, HeldType DEF Good
<1>8. \A h \in Account \ {c, WETH9, Venue} : Kept(s, x, h)
  <2> SUFFICES ASSUME NEW h \in Account \ {c, WETH9, Venue}, NEW b \in Asset PROVE Held(x, b, h) = Held(s, b, h)
    BY DEF Kept
  <2>1. h \in Holder
    BY AccountsApart
  <2>2. Net(j, b, h) = 0 /\ Net(k, b, h) = 0
    BY <1>3, NetOf
  <2> QED BY <1>5, <1>7, <2>1, <2>2
<1>9. Held(x, from, c) = Held(s, from, c) - amount
  <2>1. Net(j, from, c) = 0 - amount /\ Net(k, from, c) = 0
    BY <1>3, NetOf
  <2> QED BY <1>2, <1>5, <1>7, <2>1
<1>10. ASSUME NEW a \in Asset \ {from, to} PROVE Held(x, a, c) = Held(s, a, c)
  <2>1. Net(j, a, c) = 0 /\ Net(k, a, c) = 0
    BY <1>3, NetOf
  <2> QED BY <1>2, <1>5, <1>7, <2>1
<1> QED BY <1>0, <1>6, <1>7, <1>8, <1>9, <1>10, MeasuredTurns

(* A trade with a pair.                                                    *)
LEMMA V2Turns ==
  ASSUME NEW s, Good(s), NEW c \in Account \ {Venue, WETH9}, NEW from \in Asset, NEW to \in Asset, NEW amount, NEW kept
  PROVE  AllTurn(s, _v2(s, c, from, to, amount, kept), c, from, to, amount)
<1> SUFFICES ASSUME NEW l \in _v2(s, c, from, to, amount, kept) PROVE Turns(s, l, c, from, to, amount)
  BY DEF AllTurn
<1> DEFINE p == {from, to}
           in == amount * kept
           amountOut == (in * ReserveOf(s, to, from)) \div (ReserveOf(s, from, to) * FEE_BASE + in)
           out == [t \in p |-> IF t = to THEN amountOut ELSE 0]
           zero == [t \in p |-> 0]
           T0 == Transfers(s, <<<<from, c, p, amount>>>>)
           T1(x) == swap(x, p, out, c, zero)
<1>1. p \in DOMAIN s.pool /\ l \in Measured(s, c, to, Then(T0, T1))
  BY DEF _v2
<1>0. PICK y \in T0 : \E x \in T1(y) : l = [s |-> x, out |-> x.wallet[to][c] - s.wallet[to][c]]
  <2> HIDE DEF T0, T1
  <2> QED BY <1>1 DEF Measured, Then
<1>2. PICK x \in T1(y) : l = [s |-> x, out |-> x.wallet[to][c] - s.wallet[to][c]]
  BY <1>0
<1>3. p \in Pair /\ from # to
  <2>1. p \in Pair
    BY <1>1 DEF Good, IsState
  <2>2. PICK a, b \in Token : a # b /\ p = {a, b}
    BY <2>1, PairIsTwo
  <2> QED BY <2>1, <2>2
<1>4. p \in Holder /\ p \notin Account /\ c \in Holder
  BY <1>3, HoldersFinite, AccountsApart
<1>5. PICK j : j = <<from, c, p, amount>>
  OBVIOUS
<1>6. out[from] = 0 /\ (\A t \in p : zero[t] = 0) /\ from \in p /\ to \in p /\ \A a \in p : a = from \/ a = to
  BY <1>3
<1> HIDE DEF p, out, zero
<1>7. IsLeg(j) /\ j[4] = amount
  BY <1>4, <1>5, LegOf
<1>8. IsState(y) /\ j[4] \in Nat /\ \A b \in Asset, h \in Holder : Held(y, b, h) = Held(s, b, h) + Net(j, b, h)
  <2>1. y \in Transfers(s, <<j>>) /\ IsState(s)
    BY <1>0, <1>5 DEF Good
  <2> QED BY <1>7, <2>1, OnePaid
<1>9. Same(s, y)
  <2> DEFINE A == {amount}
  <2>1. amount \in A
    OBVIOUS
  <2> HIDE DEF A
  <2>2. <<<<from, c, p, amount>>>> \in Seq(AccountLegs(A))
    BY <1>4, <2>1, Legs
  <2> QED BY <1>0, <2>2, AccountsPay
<1>10. p \in DOMAIN y.pool
  BY <1>1, <1>9 DEF Same, Grows
<1>11. /\ \A h \in Account \ {c} : Kept(y, x, h)
       /\ \A a \in Asset : Held(x, a, c) = Held(y, a, c) + IF a \in p THEN Received(a, out[a]) ELSE 0
  BY <1>2, <1>4, <1>6, <1>8, <1>10, SwapPays
<1>12. Good(x)
  <2>1. QuietLegs(s, _v2(s, c, from, to, amount, kept)) /\ l.s = x
    BY <1>2, V2Legs
  <2> QED BY <2>1 DEF QuietLegs, Quiet, Grows
<1>13. amount \in Nat /\ (\A b \in Asset, h \in Holder : Held(s, b, h) \in Nat)
  BY <1>7, <1>8, HeldType DEF Good
<1>14. ASSUME NEW h \in Account \ {c} PROVE Kept(s, x, h)
  <2> SUFFICES ASSUME NEW b \in Asset PROVE Held(x, b, h) = Held(s, b, h)
    BY DEF Kept
  <2>1. h \in Holder /\ h # p
    BY <1>4, AccountsApart
  <2>2. Net(j, b, h) = 0
    BY <1>5, <2>1, NetOf
  <2>3. Held(x, b, h) = Held(y, b, h)
    BY <1>11 DEF Kept
  <2> QED BY <1>8, <1>13, <2>1, <2>2, <2>3
<1>15. ASSUME NEW a \in Asset, a # to PROVE Held(x, a, c) = Held(s, a, c) - If(a = from, amount)
  <2>1. Held(x, a, c) = Held(y, a, c) + 0
    <3>1. a \in p => Received(a, out[a]) = 0
      BY <1>6, <1>15, ReceivedIs
    <3> QED BY <1>11, <3>1
  <2>2. c # p
    BY <1>4
  <2>3. Net(j, a, c) = 0 - If(a = from, amount)
    BY <1>5, <2>2, NetOf DEF If
  <2>4. If(a = from, amount) \in Nat
    BY <1>13 DEF If
  <2>5. Held(y, a, c) = Held(s, a, c) + Net(j, a, c) /\ Held(s, a, c) \in Nat
    BY <1>4, <1>8, <1>13
  <2> QED BY <2>1, <2>3, <2>4, <2>5
<1>16. Held(x, from, c) = Held(s, from, c) - amount
  BY <1>3, <1>15 DEF If
<1>17. \A a \in Asset \ {from, to} : Held(x, a, c) = Held(s, a, c)
  <2>1. \A a \in Asset : Held(s, a, c) \in Nat
    BY <1>4, <1>13
  <2> QED BY <1>15, <2>1 DEF If
<1> QED BY <1>2, <1>3, <1>12, <1>13, <1>14, <1>16, <1>17, MeasuredTurns

(* Wrapping and unwrapping.                                                *)
LEMMA WrapTurns ==
  ASSUME NEW s, Good(s), NEW c \in Account \ {Venue, WETH9}, NEW m
  PROVE  /\ AllTurn(s, Converted(s, m, Wrap(c, m)), c, ETH, WETH, m)
         /\ AllTurn(s, Converted(s, m, Unwrap(c, m)), c, WETH, ETH, m)
<1>1. WETH9 \in Account /\ WETH9 \in Holder /\ c \in Holder
  BY RouterAssumption DEF Holder
<1>2. WETH \notin Taxed /\ ETH \notin Taxed /\ WETH \in Asset /\ ETH \in Asset /\ WETH # ETH
  BY EtherUntaxed
<1>3. ASSUME NEW a \in {ETH, WETH}, NEW b \in {ETH, WETH}, a # b,
             NEW x \in Transfers(s, <<<<a, c, WETH9, m>>, <<b, WETH9, c, m>>>>), Good(x), NEW l, l = [s |-> x, out |-> m]
      PROVE  Turns(s, l, c, a, b, m)
  <2>1. PICK j, k : j = <<a, c, WETH9, m>> /\ k = <<b, WETH9, c, m>>
    OBVIOUS
  <2>2. IsLeg(j) /\ IsLeg(k) /\ j[4] = m
    BY <1>1, <1>2, <2>1, LegOf
  <2>3. /\ j[4] \in Nat
        /\ \A d \in Asset, h \in Holder : Held(x, d, h) = Held(s, d, h) + Net(j, d, h) + Net(k, d, h)
    <3>1. x \in Transfers(s, <<j, k>>) /\ IsState(s)
      BY <1>3, <2>1 DEF Good
    <3> QED BY <2>2, <3>1, TwoPaid
  <2>4. m \in Nat /\ Received(a, m) = m /\ Received(b, m) = m /\ \A d \in Asset, h \in Holder : Held(s, d, h) \in Nat
    BY <1>2, <2>2, <2>3, ReceivedIs, HeldType DEF Good
  <2>5. \A h \in Account \ {c, WETH9, Venue} : Kept(s, x, h)
    <3> SUFFICES ASSUME NEW h \in Account \ {c, WETH9, Venue}, NEW d \in Asset PROVE Held(x, d, h) = Held(s, d, h)
      BY DEF Kept
    <3>1. h \in Holder
      BY AccountsApart
    <3>2. Net(j, d, h) = 0 /\ Net(k, d, h) = 0
      BY <2>1, NetOf
    <3> QED BY <2>3, <2>4, <3>1, <3>2
  <2>6. ASSUME NEW d \in Asset PROVE Held(x, d, c) = Held(s, d, c) - If(d = a, m) + If(d = b, m)
    <3>1. Net(j, d, c) = 0 - If(d = a, m) /\ Net(k, d, c) = If(d = b, m) - 0
      BY <2>1, <2>4, NetOf DEF If
    <3>2. If(d = a, m) \in Nat /\ If(d = b, m) \in Nat
      BY <2>4 DEF If
    <3> QED BY <1>1, <2>3, <2>4, <3>1, <3>2
  <2>7. l.s = x /\ l.out = m /\ m \in Int
    BY <1>3, <2>4
  <2> QED BY <1>3, <2>5, <2>6, <2>7 DEF Turns
<1>4. AllTurn(s, Converted(s, m, Wrap(c, m)), c, ETH, WETH, m)
  <2> SUFFICES ASSUME NEW l \in Converted(s, m, Wrap(c, m)) PROVE Turns(s, l, c, ETH, WETH, m)
    BY DEF AllTurn
  <2>1. PICK x \in Transfers(s, Wrap(c, m)) : l = [s |-> x, out |-> m]
    BY DEF Converted
  <2>2. QuietLegs(s, Converted(s, m, Wrap(c, m))) /\ l.s = x
    BY <2>1, WrapConverted
  <2>3. Good(x)
    BY <2>2 DEF QuietLegs, Quiet, Grows
  <2>4. x \in Transfers(s, <<<<ETH, c, WETH9, m>>, <<WETH, WETH9, c, m>>>>)
    BY <2>1 DEF Wrap
  <2> QED BY <1>2, <1>3, <2>1, <2>3, <2>4
<1>5. AllTurn(s, Converted(s, m, Unwrap(c, m)), c, WETH, ETH, m)
  <2> SUFFICES ASSUME NEW l \in Converted(s, m, Unwrap(c, m)) PROVE Turns(s, l, c, WETH, ETH, m)
    BY DEF AllTurn
  <2>1. PICK x \in Transfers(s, Unwrap(c, m)) : l = [s |-> x, out |-> m]
    BY DEF Converted
  <2>2. QuietLegs(s, Converted(s, m, Unwrap(c, m))) /\ l.s = x
    BY <2>1, WrapConverted
  <2>3. Good(x)
    BY <2>2 DEF QuietLegs, Quiet, Grows
  <2>4. x \in Transfers(s, <<<<WETH, c, WETH9, m>>, <<ETH, WETH9, c, m>>>>)
    BY <2>1 DEF Unwrap
  <2> QED BY <1>2, <1>3, <2>1, <2>3, <2>4
<1> QED BY <1>4, <1>5

(* WETH to a token or back, by any kind of spoke.                          *)
LEMMA WethTurns ==
  ASSUME NEW s, Good(s), NEW c \in Account \ {Venue, WETH9}, NEW from \in Asset, NEW to \in Asset, NEW amount \in Int, NEW kept,
         from # to, from = WETH \/ to = WETH, NEW kind \in {"v2", "v3", "via"}
  PROVE  AllTurn(s, WethLeg(s, c, from, to, amount, kind, kept), c, from, to, amount)
<1>1. CASE kind = "v3"
  BY <1>1, TradeTurns DEF WethLeg, _v3
<1>2. CASE kind = "v2"
  BY <1>2, V2Turns DEF WethLeg
<1>3. VIRTUAL \in Asset /\ WETH \in Asset
  BY SwapAssumption, RouterAssumption, PairAssumption
<1>4. CASE kind = "via" /\ to = WETH
  <2> DEFINE L == _v2(s, c, from, VIRTUAL, amount, kept)
             Leg(y, out) == _v2(y, c, VIRTUAL, WETH, out, FEE_BASE - FEE)
  <2>1. WethLeg(s, c, from, to, amount, kind, kept) = Chain(L, Leg)
    BY <1>4 DEF WethLeg
  <2>2. AllTurn(s, L, c, from, VIRTUAL, amount)
    BY <1>3, V2Turns
  <2>3. ASSUME NEW l \in L, NEW k \in Leg(l.s, l.out) PROVE Turns(s, k, c, from, WETH, amount)
    <3>1. Turns(s, l, c, from, VIRTUAL, amount)
      BY <2>2 DEF AllTurn
    <3>2. Good(l.s)
      BY <3>1 DEF Turns
    <3>3. Turns(l.s, k, c, VIRTUAL, WETH, l.out)
      BY <1>3, <2>3, <3>2, V2Turns DEF AllTurn
    <3> QED BY <1>3, <3>1, <3>3, TurnsAfter
  <2> HIDE DEF L, Leg
  <2> QED BY <1>4, <2>1, <2>3 DEF Chain, AllTurn
<1>5. CASE kind = "via" /\ to # WETH
  <2> DEFINE L == _v2(s, c, WETH, VIRTUAL, amount, FEE_BASE - FEE)
             Leg(y, out) == _v2(y, c, VIRTUAL, to, out, kept)
  <2>1. WethLeg(s, c, from, to, amount, kind, kept) = Chain(L, Leg)
    BY <1>5 DEF WethLeg
  <2>2. AllTurn(s, L, c, WETH, VIRTUAL, amount)
    BY <1>3, V2Turns
  <2>3. ASSUME NEW l \in L, NEW k \in Leg(l.s, l.out) PROVE Turns(s, k, c, WETH, to, amount)
    <3>1. Turns(s, l, c, WETH, VIRTUAL, amount)
      BY <2>2 DEF AllTurn
    <3>2. Good(l.s)
      BY <3>1 DEF Turns
    <3>3. Turns(l.s, k, c, VIRTUAL, to, l.out)
      BY <1>3, <2>3, <3>2, V2Turns DEF AllTurn
    <3> QED BY <1>3, <3>1, <3>3, TurnsAfter
  <2> HIDE DEF L, Leg
  <2> QED BY <1>5, <2>1, <2>3 DEF Chain, AllTurn
<1> QED BY <1>1, <1>2, <1>4, <1>5

(* From ETH to the token asked for.                                        *)
LEMMA FromEthTurns ==
  ASSUME NEW s, Good(s), NEW c \in Account \ {Venue, WETH9}, NEW token \in Asset, NEW spoke, IsSpoke(spoke), NEW amount \in Int
  PROVE  AllTurn(s, _fromEth(s, c, token, spoke, amount), c, ETH, token, amount)
<1>1. WETH \in Asset /\ ETH \in Asset
  BY RouterAssumption, PairAssumption
<1>2. CASE token = ETH
  BY <1>2, SelfTurns DEF _fromEth
<1>3. CASE token # ETH /\ token = WETH
  BY <1>3, WrapTurns DEF _fromEth
<1>4. CASE token # ETH /\ token # WETH /\ spoke.kind = "v4"
  BY <1>1, <1>4, TradeTurns DEF _fromEth, _v4
<1>5. CASE token # ETH /\ token # WETH /\ spoke.kind # "v4"
  <2> DEFINE kind == spoke.kind  kept == _v2Fee(spoke.fee)
             L == Converted(s, amount, Wrap(c, amount))
             Leg(x, out) == WethLeg(x, c, WETH, token, out, kind, kept)
  <2>1. _fromEth(s, c, token, spoke, amount) = Chain(L, Leg)
    BY <1>5 DEF _fromEth
  <2>2. kind \in {"v2", "v3", "via"}
    BY <1>5 DEF IsSpoke
  <2> HIDE DEF kind, kept
  <2>3. AllTurn(s, L, c, ETH, WETH, amount)
    BY WrapTurns
  <2>4. ASSUME NEW l \in L, NEW k \in Leg(l.s, l.out) PROVE Turns(s, k, c, ETH, token, amount)
    <3>1. Turns(s, l, c, ETH, WETH, amount)
      BY <2>3 DEF AllTurn
    <3>2. Good(l.s) /\ l.out \in Int
      BY <3>1 DEF Turns
    <3>3. Turns(l.s, k, c, WETH, token, l.out)
      BY <1>1, <1>5, <2>2, <2>4, <3>2, WethTurns DEF AllTurn
    <3> QED BY <1>1, <3>1, <3>3, TurnsAfter
  <2> HIDE DEF L, Leg
  <2> QED BY <2>1, <2>4 DEF Chain, AllTurn
<1> QED BY <1>2, <1>3, <1>4, <1>5

(* The ways of SwapExecutor.                                               *)
LEMMA ToWethTurns ==
  ASSUME NEW s, Good(s), SwapExecutor \notin {Venue, WETH9}, NEW token \in Token, NEW amount \in Int
  PROVE  AllTurn(s, _toWeth(s, token, amount), SwapExecutor, token, WETH, amount)
<1> DEFINE c == SwapExecutor
<1>1. c \in Account \ {Venue, WETH9} /\ ETH \in Asset /\ WETH \in Asset /\ token \in Asset /\ token # ETH
  BY SwapAssumption, RouterAssumption, PairAssumption
<1>2. CASE Way(token) = "weth"
  <2>1. token = WETH
    BY <1>2, SwapAssumption DEF Way
  <2> QED BY <1>1, <1>2, <2>1, SelfTurns DEF _toWeth
<1>3. CASE Way(token) = "v4"
  <2> DEFINE L == _v4Single(s, token, ETH, amount)
             Leg(x, out) == Converted(x, out, Wrap(SwapExecutor, out))
  <2>1. _toWeth(s, token, amount) = Chain(L, Leg)
    BY <1>3 DEF _toWeth, _stockToWeth
  <2>2. AllTurn(s, L, c, token, ETH, amount)
    BY <1>1, TradeTurns DEF _v4Single
  <2>3. ASSUME NEW l \in L, NEW k \in Leg(l.s, l.out) PROVE Turns(s, k, c, token, WETH, amount)
    <3>1. Turns(s, l, c, token, ETH, amount)
      BY <2>2 DEF AllTurn
    <3>2. Good(l.s)
      BY <3>1 DEF Turns
    <3>3. Turns(l.s, k, c, ETH, WETH, l.out)
      BY <1>1, <2>3, <3>2, WrapTurns DEF AllTurn
    <3> HIDE DEF c
    <3> QED BY <1>1, <3>1, <3>3, TurnsAfter
  <2> HIDE DEF L, Leg
  <2> QED BY <2>1, <2>3 DEF Chain, AllTurn
<1>4. CASE Way(token) # "weth" /\ Way(token) # "v4"
  <2> DEFINE kind == Way(token)  kept == KeptOf(token)
  <2>1. _toWeth(s, token, amount) = WethLeg(s, SwapExecutor, token, WETH, amount, kind, kept)
    BY <1>4 DEF _toWeth
  <2>2. kind \in {"v2", "v3", "via"} /\ token # WETH
    BY <1>4, SwapAssumption DEF Way
  <2> HIDE DEF kind, kept
  <2> QED BY <1>1, <2>1, <2>2, WethTurns
<1> QED BY <1>2, <1>3, <1>4

(* And back.                                                               *)
LEMMA FromWethTurns ==
  ASSUME NEW s, Good(s), SwapExecutor \notin {Venue, WETH9}, NEW token \in Token, NEW amount \in Int
  PROVE  AllTurn(s, _fromWeth(s, token, amount), SwapExecutor, WETH, token, amount)
<1> DEFINE c == SwapExecutor
<1>1. c \in Account \ {Venue, WETH9} /\ ETH \in Asset /\ WETH \in Asset /\ token \in Asset /\ token # ETH
  BY SwapAssumption, RouterAssumption, PairAssumption
<1>2. CASE Way(token) = "weth"
  <2>1. token = WETH
    BY <1>2, SwapAssumption DEF Way
  <2> QED BY <1>1, <1>2, <2>1, SelfTurns DEF _fromWeth
<1>3. CASE Way(token) = "v4"
  <2> DEFINE L == Converted(s, amount, Unwrap(SwapExecutor, amount))
             Leg(x, out) == _v4Single(x, ETH, token, out)
  <2>1. _fromWeth(s, token, amount) = Chain(L, Leg)
    BY <1>3 DEF _fromWeth, _wethToStock
  <2>2. AllTurn(s, L, c, WETH, ETH, amount)
    BY <1>1, WrapTurns
  <2>3. ASSUME NEW l \in L, NEW k \in Leg(l.s, l.out) PROVE Turns(s, k, c, WETH, token, amount)
    <3>1. Turns(s, l, c, WETH, ETH, amount)
      BY <2>2 DEF AllTurn
    <3>2. Good(l.s)
      BY <3>1 DEF Turns
    <3>3. Turns(l.s, k, c, ETH, token, l.out)
      BY <1>1, <2>3, <3>2, TradeTurns DEF AllTurn, _v4Single
    <3> HIDE DEF c
    <3> QED BY <1>1, <3>1, <3>3, TurnsAfter
  <2> HIDE DEF L, Leg
  <2> QED BY <2>1, <2>3 DEF Chain, AllTurn
<1>4. CASE Way(token) # "weth" /\ Way(token) # "v4"
  <2> DEFINE kind == Way(token)  kept == KeptOf(token)
  <2>1. _fromWeth(s, token, amount) = WethLeg(s, SwapExecutor, WETH, token, amount, kind, kept)
    BY <1>4 DEF _fromWeth
  <2>2. kind \in {"v2", "v3", "via"} /\ token # WETH
    BY <1>4, SwapAssumption DEF Way
  <2> HIDE DEF kind, kept
  <2> QED BY <1>1, <2>1, <2>2, WethTurns
<1> QED BY <1>2, <1>3, <1>4

(* From s to l.s, u has paid an amount and c, which held nothing, holds    *)
(* what has become of it.                                                  *)
Carries(s, l, c, u, in, a, amount) ==
  /\ Good(l.s) /\ l.out \in Int
  /\ \A h \in Account \ {u, c, WETH9, Venue} : Kept(s, l.s, h)
  /\ \A b \in Asset : /\ Held(l.s, b, c) = If(b = a, l.out)
                      /\ Held(l.s, b, u) = Held(s, b, u) - If(b = in, amount)

(* A contract that held nothing holds what it was sent.                    *)
LEMMA PulledCarries ==
  ASSUME NEW s, Good(s), NEW c \in Account, NEW u \in Account \ {c}, \A a \in Asset : Held(s, a, c) = 0,
         NEW in \in Asset, NEW amount, NEW x \in Transfers(s, <<<<in, u, c, amount>>>>)
  PROVE  /\ amount \in Nat /\ Good(x)
         /\ x.wallet[in][c] - s.wallet[in][c] = Received(in, amount)
         /\ \A l : l.s = x /\ l.out = Received(in, amount) => Carries(s, l, c, u, in, in, amount)
<1>1. c \in Holder /\ u \in Holder
  BY DEF Holder
<1>2. PICK j : j = <<in, u, c, amount>>
  OBVIOUS
<1>3. IsLeg(j) /\ j[4] = amount
  BY <1>1, <1>2, LegOf
<1>4. j[4] \in Nat /\ \A b \in Asset, h \in Holder : Held(x, b, h) = Held(s, b, h) + Net(j, b, h)
  <2>1. x \in Transfers(s, <<j>>) /\ IsState(s)
    BY <1>2 DEF Good
  <2> QED BY <1>3, <2>1, OnePaid
<1>5. Good(x)
  <2> DEFINE A == {amount}
  <2>1. amount \in A
    OBVIOUS
  <2> HIDE DEF A
  <2>2. <<<<in, u, c, amount>>>> \in Seq(AccountLegs(A))
    BY <1>1, <2>1, Legs
  <2> QED BY <2>2, AccountsPay DEF Same, Grows
<1>6. amount \in Nat /\ Received(in, amount) \in Nat /\ \A b \in Asset, h \in Holder : Held(s, b, h) \in Nat
  BY <1>3, <1>4, ReceivedIs, HeldType DEF Good
<1>7. ASSUME NEW b \in Asset
      PROVE  Held(x, b, c) = If(b = in, Received(in, amount)) /\ Held(x, b, u) = Held(s, b, u) - If(b = in, amount)
  <2>1. Net(j, b, c) = If(b = in, Received(in, amount)) - 0 /\ Net(j, b, u) = 0 - If(b = in, amount)
    BY <1>2, NetOf DEF If
  <2>2. If(b = in, Received(in, amount)) \in Nat /\ If(b = in, amount) \in Nat
    BY <1>6 DEF If
  <2>3. Held(x, b, c) = 0 + Net(j, b, c) /\ Held(x, b, u) = Held(s, b, u) + Net(j, b, u) /\ Held(s, b, u) \in Nat
    BY <1>1, <1>4, <1>6
  <2> QED BY <2>1, <2>2, <2>3
<1>8. \A h \in Account \ {u, c, WETH9, Venue} : Kept(s, x, h)
  <2> SUFFICES ASSUME NEW h \in Account \ {u, c, WETH9, Venue}, NEW b \in Asset PROVE Held(x, b, h) = Held(s, b, h)
    BY DEF Kept
  <2>1. h \in Holder
    BY AccountsApart
  <2>2. Net(j, b, h) = 0
    BY <1>2, NetOf
  <2> QED BY <1>4, <1>6, <2>1, <2>2
<1>9. x.wallet[in][c] - s.wallet[in][c] = Received(in, amount)
  <2>1. Held(x, in, c) = Received(in, amount)
    BY <1>7 DEF If
  <2> QED BY <1>6, <2>1 DEF Held
<1>10. \A l : l.s = x /\ l.out = Received(in, amount) => Carries(s, l, c, u, in, in, amount)
  BY <1>5, <1>6, <1>7, <1>8 DEF Carries
<1> QED BY <1>5, <1>6, <1>9, <1>10

(* It carries on what it turns it into.                                    *)
LEMMA CarriesOn ==
  ASSUME NEW s, Good(s), NEW c \in Account, NEW u \in Account \ {c, WETH9, Venue}, NEW in \in Asset, NEW mid \in Asset,
         NEW to \in Asset, NEW amount,
         NEW l, Carries(s, l, c, u, in, mid, amount), NEW k, Turns(l.s, k, c, mid, to, l.out)
  PROVE  Carries(s, k, c, u, in, to, amount)
<1>1. Good(k.s) /\ k.out \in Int /\ l.out \in Int
  BY DEF Turns, Carries
<1>2. \A h \in Account \ {u, c, WETH9, Venue} : Kept(s, k.s, h)
  BY DEF Turns, Carries, Kept
<1>3. ASSUME NEW b \in Asset
      PROVE  Held(k.s, b, c) = If(b = to, k.out) /\ Held(k.s, b, u) = Held(s, b, u) - If(b = in, amount)
  <2>1. Held(k.s, b, u) = Held(l.s, b, u)
    BY DEF Turns, Kept
  <2>2. PICK v2, v3 \in Int : v2 = If(b = mid, l.out) /\ v3 = If(b = to, k.out)
    BY <1>1 DEF If
  <2>3. Held(k.s, b, c) = v2 - v2 + v3
    BY <2>2 DEF Turns, Carries
  <2> QED BY <2>1, <2>2, <2>3 DEF Carries
<1> QED BY <1>1, <1>2, <1>3 DEF Carries

(* What it turns cannot be more than it was sent, even if it is taxed.     *)
LEMMA PulledOn ==
  ASSUME NEW s, Good(s), NEW c \in Account, NEW u \in Account \ {c, WETH9, Venue}, NEW in \in Asset,
         NEW to \in Asset, NEW amount \in Nat,
         NEW l, Carries(s, l, c, u, in, in, amount), l.out <= amount, in # to \/ l.out = amount,
         NEW k, Turns(l.s, k, c, in, to, amount)
  PROVE  Carries(s, k, c, u, in, to, amount)
<1>1. Good(k.s) /\ l.out \in Int
  BY DEF Turns, Carries
<1>2. l.out = amount
  <2> SUFFICES ASSUME in # to PROVE l.out = amount
    OBVIOUS
  <2>1. Held(k.s, in, c) = Held(l.s, in, c) - amount + 0 /\ Held(l.s, in, c) = l.out
    BY DEF Turns, Carries, If
  <2>2. Held(k.s, in, c) \in Nat
    BY <1>1, AccountsApart, HeldType DEF Good
  <2> QED BY <1>1, <2>1, <2>2
<1> QED BY <1>2, CarriesOn

-----------------------------------------------------------------------------
(* Taken from the user and turned into ETH.                                *)
LEMMA ToEthCarries ==
  ASSUME NEW s, Good(s), NEW c \in Account \ {Venue, WETH9}, NEW u \in Account \ {c, WETH9, Venue},
         \A a \in Asset : Held(s, a, c) = 0, NEW token \in Asset, NEW spoke, IsSpoke(spoke), NEW amount,
         NEW l \in _toEth(s, c, u, token, spoke, amount)
  PROVE  Carries(s, l, c, u, token, ETH, amount)
<1> DEFINE Swapped(x, got) ==
             IF token = WETH THEN Converted(x, amount, Unwrap(c, amount))
             ELSE IF spoke.kind = "v4" THEN _v4(x, c, token, ETH, amount)
             ELSE Chain(WethLeg(x, c, token, WETH, amount, spoke.kind, _v2Fee(spoke.fee)),
                        LAMBDA y, out : Converted(y, out, Unwrap(c, out)))
           P == Pulled(s, c, u, token, amount)
<1>1. WETH \in Asset /\ ETH \in Asset
  BY RouterAssumption, PairAssumption
<1>2. ASSUME NEW j \in P PROVE Carries(s, j, c, u, token, token, amount) /\ amount \in Nat /\ j.out <= amount
  <2>1. PICK x \in Transfers(s, <<<<token, u, c, amount>>>>) : j = [s |-> x, out |-> x.wallet[token][c] - s.wallet[token][c]]
    BY <1>2 DEF Pulled, Measured
  <2>2. /\ amount \in Nat /\ x.wallet[token][c] - s.wallet[token][c] = Received(token, amount)
        /\ \A k : k.s = x /\ k.out = Received(token, amount) => Carries(s, k, c, u, token, token, amount)
    BY PulledCarries
  <2>3. j.s = x /\ j.out = Received(token, amount)
    BY <2>1, <2>2
  <2>4. Received(token, amount) <= amount
    BY <2>2, ReceivedIs
  <2> QED BY <2>2, <2>3, <2>4
<1>3. CASE token = ETH
  <2>1. l \in P
    BY <1>3 DEF _toEth
  <2> QED BY <1>2, <1>3, <2>1
<1>4. CASE token # ETH
  <2>1. l \in Chain(P, Swapped)
    BY <1>4 DEF _toEth
  <2> HIDE DEF P, Swapped
  <2>2. PICK j \in P : l \in Swapped(j.s, j.out)
    BY <2>1 DEF Chain
  <2>3. Carries(s, j, c, u, token, token, amount) /\ amount \in Nat /\ j.out <= amount
    BY <1>2
  <2>4. Good(j.s)
    BY <2>3 DEF Carries
  <2> DEFINE y == j.s
  <2>5. Good(y) /\ l \in Swapped(y, j.out) /\ amount \in Int
    BY <2>2, <2>3, <2>4
  <2> HIDE DEF y
  <2>6. Turns(y, l, c, token, ETH, amount)
    <3>1. CASE token = WETH
      <4>1. l \in Converted(y, amount, Unwrap(c, amount))
        BY <2>5, <3>1 DEF Swapped
      <4> QED BY <2>5, <3>1, <4>1, WrapTurns DEF AllTurn
    <3>2. CASE token # WETH /\ spoke.kind = "v4"
      <4>1. l \in Trade(y, c, token, ETH, amount)
        BY <2>5, <3>2 DEF Swapped, _v4
      <4> QED BY <1>1, <1>4, <2>5, <4>1, TradeTurns DEF AllTurn
    <3>3. CASE token # WETH /\ spoke.kind # "v4"
      <4> DEFINE kind == spoke.kind  kept == _v2Fee(spoke.fee)
                 L == WethLeg(y, c, token, WETH, amount, kind, kept)
                 Out(z, out) == Converted(z, out, Unwrap(c, out))
      <4>1. l \in Chain(L, Out)
        BY <2>5, <3>3 DEF Swapped
      <4>2. kind \in {"v2", "v3", "via"}
        BY <3>3 DEF IsSpoke
      <4> HIDE DEF kind, kept
      <4>3. AllTurn(y, L, c, token, WETH, amount)
        BY <1>1, <2>5, <3>3, <4>2, WethTurns
      <4> HIDE DEF L
      <4>4. PICK k \in L : l \in Out(k.s, k.out)
        <5> HIDE DEF Out
        <5> QED BY <4>1 DEF Chain
      <4>5. Turns(y, k, c, token, WETH, amount)
        BY <4>3 DEF AllTurn
      <4>6. Good(k.s)
        BY <4>5 DEF Turns
      <4>7. Turns(k.s, l, c, WETH, ETH, k.out)
        BY <4>4, <4>6, WrapTurns DEF AllTurn
      <4> QED BY <1>1, <2>5, <4>5, <4>7, TurnsAfter
    <3> QED BY <3>1, <3>2, <3>3
  <2> QED BY <1>1, <1>4, <2>3, <2>6, PulledOn DEF y
<1> QED BY <1>3, <1>4

(* Taken from the user and turned into the token asked for.                *)
LEMMA TradedCarries ==
  ASSUME NEW s, Good(s), NEW c \in Account \ {Venue, WETH9}, NEW u \in Account \ {c, WETH9, Venue},
         \A a \in Asset : Held(s, a, c) = 0, NEW in \in Asset, NEW out \in Asset,
         NEW spokeIn, IsSpoke(spokeIn), NEW spokeOut, IsSpoke(spokeOut), NEW amount,
         NEW l \in Traded(s, c, u, in, out, spokeIn, spokeOut, amount)
  PROVE  Carries(s, l, c, u, in, out, amount) /\ in # out
<1> DEFINE L == _toEth(s, c, u, in, spokeIn, amount)
           Leg(x, eth) == _fromEth(x, c, out, spokeOut, eth)
<1>1. in # out /\ l \in Chain(L, Leg)
  BY DEF Traded
<1>2. PICK j \in L : l \in Leg(j.s, j.out)
  <2> HIDE DEF L, Leg
  <2> QED BY <1>1 DEF Chain
<1>3. Carries(s, j, c, u, in, ETH, amount)
  BY <1>2, ToEthCarries
<1>4. Good(j.s) /\ j.out \in Int
  BY <1>3 DEF Carries
<1>5. Turns(j.s, l, c, ETH, out, j.out)
  BY <1>2, <1>4, FromEthTurns DEF AllTurn
<1>6. ETH \in Asset
  BY RouterAssumption
<1> QED BY <1>1, <1>3, <1>5, <1>6, CarriesOn

(* The payout leaves the contract with nothing, and the user with the      *)
(* least amount or more.                                                   *)
LEMMA PayoutPays ==
  ASSUME NEW s, Good(s), NEW c \in Account \ {Venue, WETH9, Treasury}, NEW u \in Account \ {c, WETH9, Venue},
         \A a \in Asset : Held(s, a, c) = 0, NEW in \in Asset, NEW out \in Asset, NEW amount,
         NEW l, Carries(s, l, c, u, in, out, amount), NEW bps, NEW least,
         NEW x \in Payout(l.s, c, u, out, l.out, bps, least)
  PROVE  /\ \A h \in Account \ {u, WETH9, Venue, Treasury} : Kept(s, x, h)
         /\ in # out /\ least \in Nat =>
                        /\ Held(x, in, u) = Held(s, in, u) - amount
                        /\ Held(x, out, u) - Held(s, out, u) >= Least(out, least)
<1> DEFINE y == l.s  fee == (l.out * bps) \div BPS  rest == l.out - fee
<1>1. rest >= least /\ x \in Transfers(y, <<<<out, c, Treasury, fee>>, <<out, c, u, rest>>>>)
  BY DEF Payout
<1>2. Treasury \in Account /\ Treasury \in Holder /\ c \in Holder /\ u \in Holder
  BY SwapAssumption DEF Holder
<1>3. /\ Good(y) /\ l.out \in Int
      /\ \A h \in Account \ {u, c, WETH9, Venue} : Kept(s, y, h)
      /\ \A b \in Asset : /\ Held(y, b, c) = If(b = out, l.out)
                          /\ Held(y, b, u) = Held(s, b, u) - If(b = in, amount)
  BY DEF Carries
<1>4. fee + rest = l.out \/ fee \notin Nat
  BY <1>3
<1> HIDE DEF y, fee, rest
<1>5. PICK j, k : j = <<out, c, Treasury, fee>> /\ k = <<out, c, u, rest>>
  OBVIOUS
<1>6. IsLeg(j) /\ IsLeg(k) /\ j[4] = fee /\ k[4] = rest
  BY <1>2, <1>5, LegOf
<1>7. /\ IsState(x) /\ j[4] \in Nat /\ k[4] \in Nat
      /\ \A b \in Asset, h \in Holder : Held(x, b, h) = Held(y, b, h) + Net(j, b, h) + Net(k, b, h)
  <2>1. x \in Transfers(y, <<j, k>>) /\ IsState(y)
    BY <1>1, <1>3, <1>5 DEF Good
  <2> QED BY <1>6, <2>1, TwoPaid
<1>8. /\ fee \in Nat /\ rest \in Nat /\ fee + rest = l.out
      /\ \A b \in Asset, h \in Holder : Held(s, b, h) \in Nat /\ Held(y, b, h) \in Nat
  BY <1>3, <1>4, <1>6, <1>7, HeldType DEF Good
<1>9. ASSUME NEW h \in Account \ {u, c, WETH9, Venue, Treasury} PROVE Kept(s, x, h)
  <2> SUFFICES ASSUME NEW b \in Asset PROVE Held(x, b, h) = Held(s, b, h)
    BY DEF Kept
  <2>1. h \in Holder
    BY AccountsApart
  <2>2. Net(j, b, h) = 0 /\ Net(k, b, h) = 0
    BY <1>5, NetOf
  <2>3. Held(y, b, h) = Held(s, b, h)
    BY <1>3 DEF Kept
  <2> QED BY <1>7, <1>8, <2>1, <2>2, <2>3
<1>10. ASSUME NEW b \in Asset PROVE Held(x, b, c) = Held(s, b, c)
  <2>1. c # Treasury /\ c # u
    OBVIOUS
  <2>2. CASE b = out
    <3>1. Net(j, b, c) = 0 - fee /\ Net(k, b, c) = 0 - rest
      BY <1>5, <2>1, <2>2, NetOf
    <3>2. Held(y, b, c) = l.out /\ Held(s, b, c) = 0
      BY <1>3, <2>2 DEF If
    <3> QED BY <1>2, <1>3, <1>7, <1>8, <3>1, <3>2
  <2>3. CASE b # out
    <3>1. Net(j, b, c) = 0 /\ Net(k, b, c) = 0
      BY <1>5, <2>3, NetOf
    <3>2. Held(y, b, c) = 0 /\ Held(s, b, c) = 0
      BY <1>3, <2>3 DEF If
    <3> QED BY <1>2, <1>7, <3>1, <3>2
  <2> QED BY <2>2, <2>3
<1>11. ASSUME in # out, least \in Nat
       PROVE  /\ Held(x, in, u) = Held(s, in, u) - amount
              /\ Held(x, out, u) - Held(s, out, u) >= Least(out, least)
  <2>1. Held(x, in, u) = Held(s, in, u) - amount
    <3>1. Net(j, in, u) = 0 /\ Net(k, in, u) = 0
      BY <1>5, <1>11, NetOf
    <3>2. Held(y, in, u) = Held(s, in, u) - amount /\ Held(y, in, u) \in Nat
      BY <1>2, <1>3, <1>8 DEF If
    <3> QED BY <1>2, <1>7, <3>1, <3>2
  <2>2. Received(out, fee) \in Nat /\ Received(out, rest) >= Least(out, least) /\ Received(out, rest) \in Nat
    BY <1>1, <1>8, <1>11, LeastReceived, ReceivedIs
  <2>3. Net(j, out, u) = If(Treasury = u, Received(out, fee)) - 0 /\ Net(k, out, u) = Received(out, rest) - 0
    BY <1>5, NetOf DEF If
  <2>4. If(Treasury = u, Received(out, fee)) \in Nat
    BY <2>2 DEF If
  <2>5. Held(y, out, u) = Held(s, out, u) - 0
    BY <1>3, <1>11 DEF If
  <2>6. Held(x, out, u) = Held(y, out, u) + Net(j, out, u) + Net(k, out, u) /\ Held(s, out, u) \in Nat
    BY <1>2, <1>7, <1>8
  <2>7. Least(out, least) \in Int
    BY <1>11 DEF Least
  <2>8. Held(x, out, u) - Held(s, out, u) >= Least(out, least)
    BY <2>2, <2>3, <2>4, <2>5, <2>6, <2>7
  <2> QED BY <2>1, <2>8
<1>12. Kept(s, x, c)
  BY <1>10 DEF Kept
<1> QED BY <1>9, <1>11, <1>12

(* A trade of AggRouter's: nobody but the user, the treasury, the outside  *)
(* market and WETH's contract ends with more or less; the user pays the    *)
(* amount and receives the least amount or more.                           *)
LEMMA AggSwapPays ==
  ASSUME NEW s, Good(s), AggRouter \notin {Venue, WETH9, Treasury}, NEW u \in Account \ {AggRouter, WETH9, Venue},
         \A a \in Asset : Held(s, a, AggRouter) = 0, NEW in \in Asset, NEW out \in Asset,
         NEW spokeIn, IsSpoke(spokeIn), NEW spokeOut, IsSpoke(spokeOut), NEW amount, NEW least,
         NEW x \in aggSwap(s, u, in, spokeIn, out, spokeOut, amount, least)
  PROVE  /\ \A h \in Account \ {u, WETH9, Venue, Treasury} : Kept(s, x, h)
         /\ in # out /\ least \in Nat =>
              /\ Held(x, in, u) = Held(s, in, u) - amount
              /\ Held(x, out, u) - Held(s, out, u) >= Least(out, least)
<1> DEFINE c == AggRouter
<1>1. c \in Account \ {Venue, WETH9, Treasury} /\ u \in Account \ {c, WETH9, Venue} /\ \A a \in Asset : Held(s, a, c) = 0
  BY SwapAssumption
<1>2. PICK l \in Traded(s, c, u, in, out, spokeIn, spokeOut, amount) :
        x \in Payout(l.s, c, u, out, l.out, _feeBps(l.s, u), least)
  BY DEF aggSwap
<1> DEFINE bps == _feeBps(l.s, u)
<1>3. x \in Payout(l.s, c, u, out, l.out, bps, least)
  BY <1>2
<1> HIDE DEF c, bps
<1>4. Carries(s, l, c, u, in, out, amount)
  BY <1>1, <1>2, TradedCarries
<1> QED BY <1>1, <1>3, <1>4, PayoutPays

(* A trade of PublicRouter's, alike.                                       *)
LEMMA PublicSwapPays ==
  ASSUME NEW s, Good(s), PublicRouter \notin {Venue, WETH9, Treasury}, NEW u \in Account \ {PublicRouter, WETH9, Venue},
         \A a \in Asset : Held(s, a, PublicRouter) = 0, NEW in \in Asset, NEW out \in Asset, NEW amount, NEW least,
         NEW x \in publicSwap(s, u, in, out, amount, least)
  PROVE  /\ \A h \in Account \ {u, WETH9, Venue, Treasury} : Kept(s, x, h)
         /\ in # out /\ least \in Nat =>
              /\ Held(x, in, u) = Held(s, in, u) - amount
              /\ Held(x, out, u) - Held(s, out, u) >= Least(out, least)
<1> DEFINE c == PublicRouter  v4 == [kind |-> "v4", fee |-> 0]
<1>1. c \in Account \ {Venue, WETH9, Treasury} /\ u \in Account \ {c, WETH9, Venue} /\ \A a \in Asset : Held(s, a, c) = 0
  BY SwapAssumption
<1>2. PICK l \in Traded(s, c, u, in, out, v4, v4, amount) : x \in Payout(l.s, c, u, out, l.out, 0, least)
  BY DEF publicSwap
<1>3. IsSpoke(v4)
  BY DEF IsSpoke
<1> HIDE DEF c, v4
<1>4. Carries(s, l, c, u, in, out, amount)
  BY <1>1, <1>2, <1>3, TradedCarries
<1> QED BY <1>1, <1>2, <1>4, PayoutPays

(* A trade of SwapExecutor's, for the pool.                                *)
LEMMA ExecutorSwapPays ==
  ASSUME NEW s, Good(s), SwapExecutor \notin {Venue, WETH9}, Pool \notin {SwapExecutor, WETH9, Venue},
         \A a \in Asset : Held(s, a, SwapExecutor) = 0, NEW in \in Token, NEW out \in Token, NEW amount, NEW least,
         NEW x \in executorSwap(s, in, out, amount, least)
  PROVE  /\ \A h \in Account \ {Pool, WETH9, Venue} : Kept(s, x, h)
         /\ in # out /\ least \in Nat =>
              /\ Held(x, in, Pool) = Held(s, in, Pool) - amount
              /\ Held(x, out, Pool) - Held(s, out, Pool) >= Least(out, least)
<1> DEFINE c == SwapExecutor  u == Pool
           funded == Transfers(s, <<<<in, u, c, amount>>>>)
           Back(y, weth) == _fromWeth(y, out, weth)
           Way2(y) == Chain(_toWeth(y, in, amount), Back)
           legs == UNION {Way2(y) : y \in funded}
<1>1. /\ c \in Account /\ u \in Account \ {c, WETH9, Venue} /\ c \in Holder /\ u \in Holder
      /\ in \in Asset /\ out \in Asset /\ WETH \in Asset /\ WETH \notin Taxed
  BY SwapAssumption, PairAssumption, RouterAssumption DEF Holder
<1>2. PICK l \in legs : l.out >= least /\ x \in Transfers(l.s, <<<<out, c, u, l.out>>>>)
  BY DEF executorSwap
<1>3. PICK y \in funded : l \in Way2(y)
  <2> HIDE DEF funded, Way2
  <2> QED BY <1>2
<1>4. PICK k \in _toWeth(y, in, amount) : l \in Back(k.s, k.out)
  <2> HIDE DEF Back
  <2> QED BY <1>3 DEF Chain
<1> HIDE DEF legs, Way2
<1>5. /\ amount \in Nat /\ Good(y)
      /\ \A j : j.s = y /\ j.out = Received(in, amount) => Carries(s, j, c, u, in, in, amount)
  BY <1>1, <1>3, PulledCarries
<1>6. Carries(s, k, c, u, in, WETH, amount)
  <2> DEFINE got == Received(in, amount)
  <2>1. PICK j : j = [s |-> y, out |-> got]
    OBVIOUS
  <2>2. j.s = y /\ j.out = got
    BY <2>1
  <2>3. Carries(s, j, c, u, in, in, amount)
    BY <1>5, <2>2
  <2>4. got <= amount /\ (in \notin Taxed => got = amount)
    BY <1>5, ReceivedIs
  <2>5. j.out <= amount /\ (in # WETH \/ j.out = amount)
    BY <1>1, <2>2, <2>4
  <2>6. Turns(j.s, k, c, in, WETH, amount)
    BY <1>4, <1>5, <2>2, ToWethTurns DEF AllTurn
  <2> HIDE DEF got, c, u
  <2> QED BY <1>1, <1>5, <2>3, <2>5, <2>6, PulledOn
<1>7. Carries(s, l, c, u, in, out, amount)
  <2>1. Good(k.s) /\ k.out \in Int
    BY <1>6 DEF Carries
  <2>2. Turns(k.s, l, c, WETH, out, k.out)
    BY <1>4, <2>1, FromWethTurns DEF AllTurn
  <2> HIDE DEF c, u
  <2> QED BY <1>1, <1>6, <2>2, CarriesOn
<1> HIDE DEF c, u, funded, Back
<1> DEFINE z == l.s  m == l.out
<1>8. /\ Good(z) /\ m \in Int
      /\ \A h \in Account \ {u, c, WETH9, Venue} : Kept(s, z, h)
      /\ \A b \in Asset : Held(z, b, c) = If(b = out, m) /\ Held(z, b, u) = Held(s, b, u) - If(b = in, amount)
  BY <1>7 DEF Carries
<1>9. PICK j : j = <<out, c, u, m>>
  OBVIOUS
<1>10. x \in Transfers(z, <<j>>) /\ m >= least
  BY <1>2, <1>9
<1> HIDE DEF z, m
<1>11. IsLeg(j) /\ j[4] = m
  BY <1>1, <1>9, LegOf
<1>12. m \in Nat /\ \A b \in Asset, h \in Holder : Held(x, b, h) = Held(z, b, h) + Net(j, b, h)
  <2>1. IsState(z)
    BY <1>8 DEF Good
  <2> QED BY <1>10, <1>11, <2>1, OnePaid
<1>13. \A b \in Asset, h \in Holder : Held(s, b, h) \in Nat /\ Held(z, b, h) \in Nat
  BY <1>8, HeldType DEF Good
<1>14. ASSUME NEW h \in Account \ {u, c, WETH9, Venue} PROVE Kept(s, x, h)
  <2> SUFFICES ASSUME NEW b \in Asset PROVE Held(x, b, h) = Held(s, b, h)
    BY DEF Kept
  <2>1. h \in Holder
    BY AccountsApart
  <2>2. Net(j, b, h) = 0
    BY <1>9, NetOf
  <2>3. Held(z, b, h) = Held(s, b, h)
    BY <1>8 DEF Kept
  <2> QED BY <1>12, <1>13, <2>1, <2>2, <2>3
<1>15. Kept(s, x, c)
  <2> SUFFICES ASSUME NEW b \in Asset PROVE Held(x, b, c) = 0
    BY DEF Kept, c
  <2>1. Net(j, b, c) = 0 - If(b = out, m)
    BY <1>1, <1>9, NetOf DEF If
  <2>2. PICK v \in Nat : v = If(b = out, m)
    BY <1>12 DEF If
  <2>3. Held(z, b, c) = v
    BY <1>8, <2>2
  <2> QED BY <1>1, <1>12, <2>1, <2>2, <2>3
<1>16. ASSUME in # out, least \in Nat
       PROVE  Held(x, in, u) = Held(s, in, u) - amount /\ Held(x, out, u) - Held(s, out, u) >= Least(out, least)
  <2>1. Net(j, in, u) = 0
    BY <1>9, <1>16, NetOf
  <2>2. Net(j, out, u) = Received(out, m) - 0
    BY <1>1, <1>9, NetOf
  <2>3. Held(z, in, u) = Held(s, in, u) - amount /\ Held(z, out, u) = Held(s, out, u) - 0
    BY <1>1, <1>8, <1>16 DEF If
  <2>4. Received(out, m) >= Least(out, least) /\ Received(out, m) \in Nat
    BY <1>10, <1>12, <1>16, LeastReceived
  <2>5. Held(x, in, u) = Held(z, in, u)
    BY <1>1, <1>12, <1>13, <2>1
  <2>6. Held(x, out, u) = Held(s, out, u) + Received(out, m)
    BY <1>1, <1>12, <1>13, <2>2, <2>3, <2>4
  <2>7. Least(out, least) \in Int
    BY <1>16 DEF Least
  <2>8. Held(x, out, u) - Held(s, out, u) >= Least(out, least)
    BY <1>1, <1>13, <2>4, <2>6, <2>7
  <2> QED BY <2>3, <2>5, <2>8
<1>17. \A h \in Account \ {u, WETH9, Venue} : Kept(s, x, h)
  BY <1>14, <1>15
<1> QED BY <1>16, <1>17 DEF u

-----------------------------------------------------------------------------
(* The same wallets, the same holdings.                                    *)
LEMMA WalletsHeld ==
  ASSUME NEW s, NEW x, x.wallet = s.wallet
  PROVE  \A a, h : Held(x, a, h) = Held(s, a, h)
BY DEF Held

(* A deposit's transfers lead from y to z.                                 *)
Deposited(s, legs, y, z, x) == Good(y) /\ y.wallet = s.wallet /\ z \in Transfers(y, legs) /\ Good(z) /\ x.wallet = z.wallet

(* A deposit's transfers, between the pair that is made for it and the     *)
(* mint; neither moves anything.                                           *)
LEMMA AddedPays ==
  ASSUME NEW s, Good(s), NEW u \in Account, NEW a \in Token, NEW b \in Token, NEW desired, NEW min,
         NEW A, NEW legs, {a, b} \in Pair => legs \in Seq(AccountLegs(A)),
         NEW x \in Added(s, u, a, b, desired, min, legs)
  PROVE  {a, b} \in Pair /\ \E y, z : Deposited(s, legs, y, z, x)
<1> DEFINE p == {a, b}
           there == IF p \in DOMAIN s.pool THEN {s} ELSE createPair(s, p)
           T(y) == Transfers(y, legs)
           M(y) == mint(y, p, u)
           Between == Then(there, T)
<1>1. x \in Then(Between, M)
  BY DEF Added
<1> HIDE DEF p
<1>2. PICK z \in Between : x \in M(z)
  <2> HIDE DEF Between, M
  <2> QED BY <1>1 DEF Then
<1>3. PICK y \in there : z \in T(y)
  <2> HIDE DEF there, T
  <2> QED BY <1>2 DEF Then
<1>4. Good(y) /\ y.wallet = s.wallet /\ p \in DOMAIN y.pool /\ p \in Pair
  <2>1. CASE p \in DOMAIN s.pool
    <3>1. DOMAIN s.pool \subseteq Pair
      BY DEF Good, IsState
    <3> QED BY <1>3, <2>1, <3>1
  <2>2. CASE p \notin DOMAIN s.pool
    <3>1. y \in createPair(s, p)
      BY <1>3, <2>2
    <3>2. Same(s, y) /\ p \in DOMAIN y.pool /\ p \in Pair
      BY <3>1, CreatePairLeads
    <3>3. y.wallet = s.wallet
      <4> DEFINE f == [q \in DOMAIN s.pool \cup {p} |-> IF q = p THEN NewPair(p) ELSE s.pool[q]]
      <4>1. y = [s EXCEPT !.pool = f]
        BY <3>1 DEF createPair
      <4> HIDE DEF f
      <4> QED BY <4>1 DEF Good, IsState
    <3> QED BY <3>2, <3>3 DEF Same, Grows
  <2> QED BY <2>1, <2>2
<1>5. Good(z) /\ p \in DOMAIN z.pool
  <2>1. legs \in Seq(AccountLegs(A))
    BY <1>4 DEF p
  <2>2. Same(y, z)
    BY <1>3, <1>4, <2>1, AccountsPay
  <2> QED BY <1>4, <2>2 DEF Same, Grows
<1>6. x.wallet = z.wallet
  BY <1>2, <1>5, MintKeeps DEF Holder
<1>7. Deposited(s, legs, y, z, x)
  BY <1>3, <1>4, <1>5, <1>6 DEF Deposited
<1> QED BY <1>4, <1>7 DEF p

(* A deposit is paid by the user, to the pair.                             *)
LEMMA AddLiquidityPays ==
  ASSUME NEW s, Good(s), NEW u \in Account, NEW a \in Token, NEW b \in Token, NEW desired, NEW min,
         NEW x \in addLiquidity(s, u, a, b, desired, min)
  PROVE  \A h \in Account \ {u} : Kept(s, x, h)
<1> DEFINE amounts == Amounts(s, a, b, desired)  p == {a, b}
           one == amounts[1]  two == amounts[2]
           A == {one, two}
           legs == <<<<a, u, p, one>>, <<b, u, p, two>>>>
<1>1. x \in Added(s, u, a, b, desired, min, legs)
  BY DEF addLiquidity
<1>2. a \in Asset /\ b \in Asset /\ u \in Holder
  BY PairAssumption DEF Holder
<1> HIDE DEF amounts, one, two
<1>3. ASSUME p \in Pair PROVE legs \in Seq(AccountLegs(A))
  <2>1. p \in Holder /\ one \in A /\ two \in A
    BY <1>3, HoldersFinite
  <2> HIDE DEF A, p
  <2> QED BY <1>2, <2>1, Legs
<1>4. PICK y, z : Good(y) /\ y.wallet = s.wallet /\ z \in Transfers(y, legs) /\ x.wallet = z.wallet /\ p \in Pair
  <2> HIDE DEF A, legs
  <2>1. p \in Pair /\ \E y, z : Deposited(s, legs, y, z, x)
    BY <1>1, <1>3, AddedPays
  <2> QED BY <2>1 DEF Deposited
<1>5. PICK j, k : j = <<a, u, p, one>> /\ k = <<b, u, p, two>>
  OBVIOUS
<1>6. p \in Holder /\ p \notin Account
  BY <1>4, HoldersFinite, AccountsApart
<1> HIDE DEF p
<1>7. IsLeg(j) /\ IsLeg(k) /\ z \in Transfers(y, <<j, k>>) /\ IsState(y)
  BY <1>2, <1>4, <1>5, <1>6, LegOf DEF Good
<1>8. \A c \in Asset, h \in Holder : Held(z, c, h) = Held(y, c, h) + Net(j, c, h) + Net(k, c, h)
  BY <1>7, TwoPaid
<1> SUFFICES ASSUME NEW h \in Account \ {u}, NEW c \in Asset PROVE Held(x, c, h) = Held(s, c, h)
  BY DEF Kept
<1>9. h \in Holder /\ h # p /\ Held(y, c, h) \in Nat
  BY <1>6, <1>7, AccountsApart, HeldType
<1>10. Net(j, c, h) = 0 /\ Net(k, c, h) = 0
  BY <1>5, <1>9, NetOf
<1>11. Held(z, c, h) = Held(y, c, h)
  BY <1>8, <1>9, <1>10
<1> QED BY <1>4, <1>11, WalletsHeld

(* Of the ether sent with a deposit no more is used than was sent.         *)
LEMMA UsedOfSent ==
  ASSUME NEW s, NEW a, NEW b, NEW desired, NEW one \in Nat, NEW sent \in Nat,
         one = Amounts(s, a, b, desired)[2], sent = desired[2]
  PROVE  one <= sent
<1>1. CASE Amounts(s, a, b, desired) = desired
  BY <1>1
<1>2. CASE OptimalB(s, a, b, desired) <= desired[2] /\ Amounts(s, a, b, desired) = <<desired[1], OptimalB(s, a, b, desired)>>
  BY <1>2
<1>3. CASE Amounts(s, a, b, desired) = <<OptimalA(s, a, b, desired), desired[2]>>
  BY <1>3
<1> QED BY <1>1, <1>2, <1>3 DEF Amounts

(* A deposit with ether: the router wraps what is used and refunds the     *)
(* rest; it keeps nothing.                                                 *)
LEMMA AddLiquidityEthPays ==
  ASSUME NEW s, Good(s), feeTo \in Account, NEW u \in Account \ {Router, WETH9}, Router # WETH9, NEW token \in Token, NEW desired, NEW min,
         NEW x \in addLiquidityETH(s, u, token, desired, min)
  PROVE  \A h \in Account \ {u, WETH9} : Kept(s, x, h)
<1> DEFINE p == {token, WETH}
           amounts == Amounts(s, token, WETH, desired)
           one == amounts[1]  two == amounts[2]  sent == desired[2]
           A == {one, two, sent}
           first == <<<<ETH, u, Router, sent>>, <<token, u, p, one>>>>
           wrap == Wrap(Router, two)
           last == <<<<WETH, Router, p, two>>>>
           legs == first \o wrap \o last
           T0 == Added(s, u, token, WETH, desired, min, legs)
           T1(y) == Transfers(y, DustRefund(u, sent, two))
<1>1. PICK v \in T0 : x \in T1(v)
  <2>1. x \in Then(T0, T1)
    BY DEF addLiquidityETH
  <2> HIDE DEF T0, T1
  <2> QED BY <2>1 DEF Then
<1>2. /\ ETH \in Asset /\ WETH \in Token /\ WETH \in Asset /\ token \in Asset /\ ETH # WETH /\ token # ETH
      /\ Router \in Account /\ WETH9 \in Account /\ Router \in Holder /\ WETH9 \in Holder /\ u \in Holder
      /\ WETH \notin Taxed /\ ETH \notin Taxed
  BY RouterAssumption, EtherUntaxed DEF Holder
<1>3. ASSUME p \in Pair PROVE legs \in Seq(AccountLegs(A))
  <2>1. p \in Holder /\ one \in A /\ two \in A /\ sent \in A
    BY <1>3, HoldersFinite
  <2> HIDE DEF p, one, two, sent, A
  <2>2. first \in Seq(AccountLegs(A)) /\ last \in Seq(AccountLegs(A))
    BY <1>2, <2>1, Legs
  <2>3. wrap \in Seq(AccountLegs(A))
    BY <1>2, <2>1, WrapLegs
  <2> HIDE DEF first, wrap, last
  <2>4. first \o wrap \in Seq(AccountLegs(A))
    BY <2>2, <2>3, JoinLegs
  <2> QED BY <2>2, <2>4, JoinLegs
<1>4. PICK y, z : Good(y) /\ y.wallet = s.wallet /\ z \in Transfers(y, legs) /\ Good(z) /\ v.wallet = z.wallet /\ p \in Pair
  <2> HIDE DEF one, two, sent, A, legs
  <2>1. p \in Pair /\ \E y, z : Deposited(s, legs, y, z, v)
    BY <1>1, <1>2, <1>3, AddedPays
  <2> QED BY <2>1 DEF Deposited
<1>5. p \in Holder /\ p \notin Account
  BY <1>4, HoldersFinite, AccountsApart
<1>6. two = Amounts(s, token, WETH, desired)[2] /\ sent = desired[2]
  OBVIOUS
<1> HIDE DEF p, one, two, sent, A, T0, amounts
<1>7. PICK j, k, l, m, o :
        /\ j = <<ETH, u, Router, sent>> /\ k = <<token, u, p, one>>
        /\ l = <<ETH, Router, WETH9, two>> /\ m = <<WETH, WETH9, Router, two>>
        /\ o = <<WETH, Router, p, two>>
  OBVIOUS
<1>8. legs = <<j, k, l, m, o>>
  <2>1. legs = (<<j, k>> \o <<l, m>>) \o <<o>>
    BY <1>7 DEF Wrap
  <2>2. <<j, k>> \o <<l, m>> = <<j, k, l, m>>
    BY TwoAndTwo
  <2>3. <<j, k, l, m>> \o <<o>> = <<j, k, l, m, o>>
    BY FourAndOne
  <2> HIDE DEF legs
  <2> QED BY <2>1, <2>2, <2>3
<1> HIDE DEF legs
<1>9. IsLeg(j) /\ IsLeg(k) /\ IsLeg(l) /\ IsLeg(m) /\ IsLeg(o) /\ j[4] = sent /\ k[4] = one /\ l[4] = two
  BY <1>2, <1>5, <1>7, LegOf
<1>10. /\ IsState(z) /\ sent \in Nat /\ one \in Nat /\ two \in Nat
       /\ \A b \in Asset, h \in Holder : Held(z, b, h) = Held(y, b, h) + Net(j, b, h) + Net(k, b, h) + Net(l, b, h) + Net(m, b, h) + Net(o, b, h)
  <2>1. z \in Transfers(y, <<j, k, l, m, o>>) /\ IsState(y)
    BY <1>4, <1>8 DEF Good
  <2>2. /\ IsState(z) /\ j[4] \in Nat /\ k[4] \in Nat /\ l[4] \in Nat
        /\ \A b \in Asset, h \in Holder : Held(z, b, h) = Held(y, b, h) + Net(j, b, h) + Net(k, b, h) + Net(l, b, h) + Net(m, b, h) + Net(o, b, h)
    BY <1>9, <2>1, FivePaid
  <2> QED BY <1>9, <2>2
<1>11. two <= sent
  BY <1>6, <1>10, UsedOfSent
<1>12. Received(ETH, sent) = sent /\ Received(WETH, two) = two
  BY <1>2, <1>10, ReceivedIs
<1>13. IsState(v) /\ \A b, h : Held(v, b, h) = Held(z, b, h) /\ Held(y, b, h) = Held(s, b, h)
  <2>1. Moves(s, v)
    BY <1>1, <1>2, <1>3, AddedLeads DEF T0, p
  <2> QED BY <1>4, <2>1, WalletsHeld DEF Moves, Grows, Good
<1>14. /\ \A h \in Account \ {u, Router} : Kept(v, x, h)
       /\ \A a \in Asset : Held(x, a, Router) = Held(v, a, Router) - If(a = ETH, sent - two)
  BY <1>1, <1>10, <1>11, <1>13, RefundPays
<1>15. \A b \in Asset, h \in Holder : Held(s, b, h) \in Nat /\ Held(z, b, h) \in Nat
  BY <1>10, HeldType DEF Good
<1>16. ASSUME NEW h \in Account \ {u, Router, WETH9}, NEW b \in Asset PROVE Held(x, b, h) = Held(s, b, h)
  <2>1. h \in Holder /\ h # p
    BY <1>5, AccountsApart
  <2>2. Net(j, b, h) = 0 /\ Net(k, b, h) = 0 /\ Net(l, b, h) = 0 /\ Net(m, b, h) = 0 /\ Net(o, b, h) = 0
    BY <1>7, <2>1, NetOf
  <2>3. Held(z, b, h) = Held(s, b, h)
    BY <1>10, <1>13, <1>15, <2>1, <2>2
  <2> QED BY <1>13, <1>14, <2>3 DEF Kept
<1>17. ASSUME NEW b \in Asset PROVE Held(x, b, Router) = Held(s, b, Router)
  <2>1. Router # p /\ Router # u /\ Router # WETH9
    BY <1>2, <1>5
  <2>2. Net(j, b, Router) = If(b = ETH, sent) - 0 /\ Net(l, b, Router) = 0 - If(b = ETH, two)
    BY <1>7, <1>12, <2>1, NetOf DEF If
  <2>3. Net(m, b, Router) = If(b = WETH, two) - 0 /\ Net(o, b, Router) = 0 - If(b = WETH, two)
    BY <1>7, <1>12, <2>1, NetOf DEF If
  <2>4. Net(k, b, Router) = 0
    BY <1>7, <2>1, NetOf
  <2>5. PICK v1, v2, v3, v4 \in Nat : /\ v1 = If(b = ETH, sent) /\ v2 = If(b = ETH, two) /\ v3 = If(b = WETH, two)
                                      /\ v4 = If(b = ETH, sent - two)
    BY <1>10, <1>11 DEF If
  <2>6. v4 = v1 - v2
    BY <1>10, <2>5 DEF If
  <2>7. Held(z, b, Router) = Held(s, b, Router) + v1 + 0 - v2 + v3 - v3
    <3>1. Held(z, b, Router) = Held(s, b, Router) + Net(j, b, Router) + Net(k, b, Router) + Net(l, b, Router) + Net(m, b, Router) + Net(o, b, Router)
      BY <1>2, <1>10, <1>13
    <3>2. Net(j, b, Router) = v1 /\ Net(k, b, Router) = 0 /\ Net(l, b, Router) = 0 - v2 /\ Net(m, b, Router) = v3 /\ Net(o, b, Router) = 0 - v3
      BY <2>2, <2>3, <2>4, <2>5
    <3>3. Held(s, b, Router) \in Nat
      BY <1>2, <1>15
    <3> QED BY <3>1, <3>2, <3>3
  <2>8. Held(x, b, Router) = Held(z, b, Router) - v4
    BY <1>13, <1>14, <2>5
  <2>9. Held(s, b, Router) \in Nat
    BY <1>2, <1>15
  <2> QED BY <2>6, <2>7, <2>8, <2>9
<1> QED BY <1>16, <1>17 DEF Kept

(* Who receives what is withdrawn: what the pair sent.                     *)
LEMMA BurntPays ==
  ASSUME NEW s, Good(s), feeTo \in Account, NEW u \in Account \ {Zero}, NEW p, NEW liquidity \in Nat, NEW min, NEW to \in Account,
         NEW x \in Burnt(s, u, p, liquidity, min, to)
  PROVE  /\ p \in DOMAIN s.pool /\ Good(x)
         /\ \A h \in Account \ {to} : Kept(s, x, h)
         /\ \A t \in p : Sent(s, x, p)[t] \in Nat
         /\ \A a \in Asset : Held(x, a, to) = Held(s, a, to) + IF a \in p THEN Received(a, Sent(s, x, p)[a]) ELSE 0
<1> DEFINE T0 == TransferShares(s, p, u, p, liquidity)
           B(y) == burn(y, p, to)
<1>1. p \in DOMAIN s.pool /\ x \in Then(T0, B)
  BY DEF Burnt
<1>2. PICK y \in T0 : x \in B(y)
  <2> HIDE DEF T0, B
  <2> QED BY <1>1 DEF Then
<1>3. p \in Holder /\ u \in Holder \ {Zero}
  BY <1>1, HoldersFinite DEF Good, IsState, Holder
<1>4. Good(y) /\ p \in DOMAIN y.pool /\ y.wallet = s.wallet
  BY <1>1, <1>2, <1>3, TransferSharesLeads DEF Same, Grows
<1>5. /\ \A h \in Account \ {to} : Kept(y, x, h)
      /\ \A t \in p : Sent(y, x, p)[t] \in Nat
      /\ \A a \in Asset : Held(x, a, to) = Held(y, a, to) + IF a \in p THEN Received(a, Sent(y, x, p)[a]) ELSE 0
  BY <1>2, <1>4, BurnPays
<1>6. Sent(y, x, p) = Sent(s, x, p)
  BY <1>4 DEF Sent
<1>7. \A a, h : Held(y, a, h) = Held(s, a, h)
  BY <1>4, WalletsHeld
<1>8. Good(x)
  BY BurntLeads DEF Moves, Grows
<1> QED BY <1>1, <1>5, <1>6, <1>7, <1>8 DEF Kept

(* A withdrawal with ether passes by the router, which keeps nothing: of a *)
(* taxed token it cannot pass on more than has arrived.                    *)
LEMMA RemoveLiquidityEthPays ==
  ASSUME NEW s, Good(s), feeTo \in Account, NEW u \in Account \ {Zero, Router, WETH9}, Router # WETH9,
         \A a \in Asset : Held(s, a, Router) = 0,
         NEW token \in Token, NEW liquidity \in Nat, NEW min, NEW taxed,
         NEW x \in removeLiquidityETH(s, u, token, liquidity, min, taxed)
  PROVE  \A h \in Account \ {u, WETH9} : Kept(s, x, h)
<1> DEFINE p == {token, WETH}
           Got(y) == IF taxed THEN y.wallet[token][Router] ELSE Sent(s, y, p)[token]
           Ether(y) == Sent(s, y, p)[WETH]
           First(y) == <<<<token, Router, u, Got(y)>>>>
           Mid(y) == Unwrap(Router, Ether(y))
           End(y) == <<<<ETH, Router, u, Ether(y)>>>>
           T0 == Burnt(s, u, p, liquidity, min, Router)
           T1(y) == Transfers(y, First(y) \o Mid(y) \o End(y))
<1>1. PICK y \in T0 : x \in T1(y)
  <2>1. x \in Then(T0, T1)
    BY DEF removeLiquidityETH
  <2> HIDE DEF T0, T1
  <2> QED BY <2>1 DEF Then
<1>2. /\ ETH \in Asset /\ WETH \in Asset /\ token \in Asset /\ ETH # WETH /\ token # ETH /\ WETH \in p /\ token \in p
      /\ Router \in Account /\ WETH9 \in Account /\ Router \in Holder /\ WETH9 \in Holder /\ u \in Holder
      /\ WETH \notin Taxed /\ ETH \notin Taxed
  BY RouterAssumption, EtherUntaxed DEF Holder
<1> DEFINE got == Got(y)  ether == Ether(y)  sent == Sent(s, y, p)[token]
<1> HIDE DEF p
<1>3. /\ p \in DOMAIN s.pool /\ Good(y)
      /\ \A h \in Account \ {Router} : Kept(s, y, h)
      /\ \A t \in p : Sent(s, y, p)[t] \in Nat
      /\ \A a \in Asset : Held(y, a, Router) = Held(s, a, Router) + IF a \in p THEN Received(a, Sent(s, y, p)[a]) ELSE 0
  <2>1. y \in Burnt(s, u, p, liquidity, min, Router) /\ u \in Account \ {Zero} /\ Router \in Account
    BY <1>1, <1>2
  <2> HIDE DEF T0, T1
  <2> QED BY <2>1, BurntPays
<1>4. ether \in Nat /\ sent \in Nat
  BY <1>2, <1>3
<1>5. token # WETH
  <2>1. p \in Pair
    BY <1>3 DEF Good, IsState
  <2> QED BY <2>1, PairIsTwo DEF p
<1>6. /\ Held(y, token, Router) = Received(token, sent) /\ Held(y, WETH, Router) = ether /\ Held(y, ETH, Router) = 0
      /\ Received(token, sent) \in Nat /\ Received(token, sent) <= sent
  <2>1. Received(WETH, ether) = ether /\ Received(token, sent) \in Nat /\ Received(token, sent) <= sent
    BY <1>2, <1>4, ReceivedIs
  <2>2. ETH \notin p
    BY <1>2 DEF p
  <2>3. Held(y, token, Router) = 0 + Received(token, sent) /\ Held(y, WETH, Router) = 0 + Received(WETH, ether)
        /\ Held(y, ETH, Router) = 0 + 0
    BY <1>2, <1>3, <2>2
  <2> QED BY <1>4, <2>1, <2>3
<1>7. got = Held(y, token, Router) \/ got = sent
  BY DEF Held
<1>8. x \in Transfers(y, (<<<<token, Router, u, got>>>> \o <<<<WETH, Router, WETH9, ether>>, <<ETH, WETH9, Router, ether>>>>)
                           \o <<<<ETH, Router, u, ether>>>>)
  BY <1>1 DEF Unwrap
<1> HIDE DEF got, ether, sent, T0, T1
<1>9. PICK j, k, l, m :
        /\ j = <<token, Router, u, got>> /\ k = <<WETH, Router, WETH9, ether>>
        /\ l = <<ETH, WETH9, Router, ether>> /\ m = <<ETH, Router, u, ether>>
  OBVIOUS
<1>10. x \in Transfers(y, <<j, k, l, m>>)
  <2>1. x \in Transfers(y, (<<j>> \o <<k, l>>) \o <<m>>)
    BY <1>8, <1>9
  <2>2. <<j>> \o <<k, l>> = <<j, k, l>>
    BY OneAndTwo
  <2>3. <<j, k, l>> \o <<m>> = <<j, k, l, m>>
    BY ThreeAndOne
  <2> QED BY <2>1, <2>2, <2>3
<1>11. IsLeg(j) /\ IsLeg(k) /\ IsLeg(l) /\ IsLeg(m) /\ j[4] = got
  BY <1>2, <1>9, LegOf
<1>12. /\ IsState(x) /\ got \in Nat
       /\ \A b \in Asset, h \in Holder : Held(x, b, h) = Held(y, b, h) + Net(j, b, h) + Net(k, b, h) + Net(l, b, h) + Net(m, b, h)
  <2>1. IsState(y)
    BY <1>3 DEF Good
  <2>2. /\ IsState(x) /\ j[4] \in Nat
        /\ \A b \in Asset, h \in Holder : Held(x, b, h) = Held(y, b, h) + Net(j, b, h) + Net(k, b, h) + Net(l, b, h) + Net(m, b, h)
    BY <1>10, <1>11, <2>1, FourPaid
  <2> QED BY <1>11, <2>2
<1>13. Received(ETH, ether) = ether /\ Received(WETH, ether) = ether
  BY <1>2, <1>4, ReceivedIs
<1>14. \A b \in Asset, h \in Holder : Held(y, b, h) \in Nat /\ Held(x, b, h) \in Nat
  BY <1>3, <1>12, HeldType DEF Good
<1>15. ASSUME NEW h \in Account \ {u, Router, WETH9}, NEW b \in Asset PROVE Held(x, b, h) = Held(s, b, h)
  <2>1. h \in Holder
    BY AccountsApart
  <2>2. Net(j, b, h) = 0 /\ Net(k, b, h) = 0 /\ Net(l, b, h) = 0 /\ Net(m, b, h) = 0
    BY <1>9, NetOf
  <2>3. Held(y, b, h) = Held(s, b, h)
    BY <1>3 DEF Kept
  <2> QED BY <1>12, <1>14, <2>1, <2>2, <2>3
<1>16. ASSUME NEW b \in Asset PROVE Held(x, b, Router) = 0
  <2>1. Router # u /\ Router # WETH9
    OBVIOUS
  <2>2. Net(j, b, Router) = 0 - If(b = token, got) /\ Net(k, b, Router) = 0 - If(b = WETH, ether)
    BY <1>9, <2>1, NetOf DEF If
  <2>3. Net(l, b, Router) = If(b = ETH, ether) - 0 /\ Net(m, b, Router) = 0 - If(b = ETH, ether)
    BY <1>9, <1>13, <2>1, NetOf DEF If
  <2>4. Held(x, b, Router) = Held(y, b, Router) + Net(j, b, Router) + Net(k, b, Router) + Net(l, b, Router) + Net(m, b, Router)
    BY <1>2, <1>12
  <2>5. Held(y, b, Router) \in Nat /\ Held(x, b, Router) \in Nat
    BY <1>2, <1>14
  <2>6. CASE b = token
    <3>1. Held(x, b, Router) = Held(y, b, Router) - got
      BY <1>2, <1>5, <1>12, <2>2, <2>3, <2>4, <2>5, <2>6 DEF If
    <3>2. got = Received(token, sent) \/ got = sent
      BY <1>6, <1>7
    <3> QED BY <1>4, <1>6, <1>12, <2>5, <2>6, <3>1, <3>2
  <2>7. CASE b = WETH
    BY <1>2, <1>4, <1>5, <1>6, <2>2, <2>3, <2>4, <2>7 DEF If
  <2>8. CASE b = ETH
    BY <1>2, <1>4, <1>6, <2>2, <2>3, <2>4, <2>8 DEF If
  <2>9. CASE b \notin {token, WETH, ETH}
    <3>1. b \notin p
      BY <2>9 DEF p
    <3>2. Held(y, b, Router) = 0 + 0
      BY <1>2, <1>3, <3>1
    <3> QED BY <2>2, <2>3, <2>4, <2>9, <3>2 DEF If
  <2> QED BY <2>6, <2>7, <2>8, <2>9
<1> QED BY <1>15, <1>16 DEF Kept

-----------------------------------------------------------------------------
(* Contracts are empty: they hold nothing between two calls.               *)
Empty(s) == \A c \in Contracts, a \in Asset : Held(s, a, c) = 0
ContractsKept(s, x) == \A c \in Contracts : Kept(s, x, c)

(* Who is who.                                                             *)
LEMMA WhoIsWho ==
  ASSUME RolesApart
  PROVE  /\ Contracts \subseteq Account \ {Pool, Founder, Treasury, WETH9, Venue}
         /\ User \subseteq Account \ {Zero, Router, AggRouter, PublicRouter, SwapExecutor, WETH9, Venue}
         /\ Contracts \cap User = {} /\ Pool \in Account \ {SwapExecutor, WETH9, Venue}
         /\ Router # WETH9
         /\ AggRouter \notin {Venue, WETH9, Treasury} /\ PublicRouter \notin {Venue, WETH9, Treasury}
         /\ SwapExecutor \notin {Venue, WETH9}
<1>1. Contracts \subseteq Account /\ Pool \in Account
  BY RouterAssumption, SwapAssumption DEF Contracts
<1>2. /\ Router \in Contracts /\ AggRouter \in Contracts /\ PublicRouter \in Contracts /\ SwapExecutor \in Contracts
      /\ User \subseteq Account \ {Zero}
  BY PairAssumption DEF Contracts
<1>3. \A c \in Contracts : c \notin User \cup {Pool, Founder, Treasury, WETH9, Venue}
  BY DEF RolesApart
<1>4. \A u \in User : u \notin {WETH9, Venue} \cup Contracts
  BY <1>3 DEF RolesApart
<1>5. Pool \notin {WETH9, Venue}
  BY DEF RolesApart
<1> QED BY <1>1, <1>2, <1>3, <1>4, <1>5

(* What keeps the contracts keeps them empty.                              *)
LEMMA EmptyStays ==
  ASSUME NEW s, NEW x, Empty(s), ContractsKept(s, x)
  PROVE  Empty(x)
BY DEF Empty, ContractsKept, Kept

(* A call that succeeds leaves them empty if every outcome of it does.     *)
LEMMA CallEmpties ==
  ASSUME Empty(state), NEW S, \A x \in S : ContractsKept(state, x),
         \E x \in S : wallet' = x.wallet /\ pool' = x.pool
  PROVE  Empty(state')
<1>1. PICK x \in S : wallet' = x.wallet /\ pool' = x.pool
  OBVIOUS
<1>2. Empty(x)
  BY EmptyStays
<1> QED BY <1>1, <1>2 DEF Empty, Held, state

(* Seeding.                                                                *)
LEMMA SeededEmpty ==
  ASSUME RolesApart, feeTo \in Account, NEW s, Good(s), Empty(s),
         NEW seeding \in Seq(Token \X Token \X Nat \X Nat), NEW x \in Seeded(s, seeding)
  PROVE  Empty(x)
<1> DEFINE U == {y \in States : Good(y) /\ Empty(y)}
<1>1. s \in U
  BY StateIn DEF Good
<1>2. ASSUME NEW y \in U, NEW l \in Token \X Token \X Nat \X Nat PROVE Seed(y, l) \subseteq U
  <2> SUFFICES ASSUME NEW z \in Seed(y, l) PROVE z \in U
    OBVIOUS
  <2> DEFINE a == l[1]  b == l[2]  desired == <<l[3], l[4]>>  none == <<0, 0>>
  <2>1. a \in Token /\ b \in Token /\ Founder \in Account
    BY AmmAssumption
  <2>2. z \in addLiquidity(y, Founder, a, b, desired, none)
    BY DEF Seed
  <2> HIDE DEF a, b, desired, none
  <2>3. Good(z)
    BY <2>1, <2>2, AddLiquidityLeads DEF Moves, Grows
  <2>4. \A h \in Account \ {Founder} : Kept(y, z, h)
    BY <2>1, <2>2, AddLiquidityPays
  <2>5. ContractsKept(y, z)
    BY <2>4, WhoIsWho DEF ContractsKept
  <2> QED BY <2>3, <2>5, StateIn, EmptyStays DEF Good
<1> HIDE DEF U
<1>3. x \in U
  BY <1>1, <1>2, SeededStays
<1> QED BY <1>3 DEF U

(* They are empty at the start.                                            *)
LEMMA InitEmpty == ASSUME RolesApart, AmmInit PROVE Empty(state)
<1> DEFINE w == [a \in Asset |-> [h \in Holder |-> IF h \in Account THEN Supply[a][h] ELSE 0]]
           s == [wallet |-> w, pool |-> <<>>]
<1>1. feeTo \in Account
  BY AmmAssumption DEF AmmInit
<1>2. PICK seeding \in Seedings : \E x \in Seeded(s, seeding) : wallet = x.wallet /\ pool = x.pool
  BY DEF AmmInit
<1>3. w \in [Asset -> [Holder -> Nat]]
  BY PairAssumption
<1>4. \A a \in Asset, c \in Contracts : w[a][c] = 0
  BY WhoIsWho DEF RolesApart, Holder
<1> HIDE DEF w
<1>5. Good(s)
  BY <1>3, EmptyGood
<1>6. Empty(s)
  BY <1>4 DEF Empty, Held
<1> HIDE DEF s
<1>7. seeding \in Seq(Token \X Token \X Nat \X Nat)
  BY AmmAssumption
<1>8. PICK x \in Seeded(s, seeding) : wallet = x.wallet /\ pool = x.pool
  BY <1>2
<1>9. Empty(x)
  BY <1>1, <1>5, <1>6, <1>7, SeededEmpty
<1> QED BY <1>8, <1>9 DEF Empty, Held, state

(* Calls of a pair are between it and the caller.                          *)
LEMMA DirectCallEmpties == ASSUME RolesApart, PairsGood, Empty(state), DirectCall PROVE Empty(state')
<1> DEFINE s == state
<1>1. Good(s) /\ feeTo \in Account /\ s.pool = pool /\ IsState(s)
  BY DEF PairsGood, state, Good
<1>2. PICK p \in DOMAIN pool, u \in User :
        \/ \E t \in p, amount \in Amount : Call(Transfer(s, t, u, p, amount))
        \/ \E amount \in Amount : Call(TransferShares(s, p, u, p, amount))
        \/ Call(mint(s, p, u)) \/ Call(burn(s, p, u))
        \/ Call(skim(s, p, u)) \/ Call(_update(s, p))
        \/ \E t, back \in p, out, paid \in Amount : Call(swap(s, p, One(p, t, out), u, One(p, back, paid)))
  BY DEF DirectCall
<1> HIDE DEF s
<1>3. p \in DOMAIN s.pool /\ p \in Pair /\ p \in Holder /\ u \in Account /\ u \in Holder \ {Zero}
  BY <1>1, <1>2, PairAssumption, HoldersFinite DEF Good, IsState, Holder
<1>4. ASSUME NEW x, x.wallet = s.wallet PROVE ContractsKept(s, x)
  BY <1>4, WalletsHeld DEF ContractsKept, Kept
<1>5. ASSUME NEW x, \A h \in Account \ {u} : Kept(s, x, h) PROVE ContractsKept(s, x)
  BY <1>5, WhoIsWho DEF ContractsKept
<1>6. CASE \E t \in p, amount \in Amount : Call(Transfer(s, t, u, p, amount))
  <2>1. PICK t \in p, amount \in Amount : Call(Transfer(s, t, u, p, amount))
    BY <1>6
  <2>2. t \in Asset
    BY <1>3, OtherOf, PairAssumption
  <2> DEFINE S == Transfer(s, t, u, p, amount)
  <2>3. ASSUME NEW x \in S PROVE ContractsKept(s, x)
    <3>1. \A h \in Holder \ {u, p} : Kept(s, x, h)
      BY <1>1, <1>3, <2>2, TransferKeeps
    <3>2. \A h \in Account : h \in Holder /\ h # p
      BY <1>3, AccountsApart
    <3> QED BY <1>5, <3>1, <3>2
  <2>4. \E x \in S : wallet' = x.wallet /\ pool' = x.pool
    BY <2>1 DEF Call
  <2> HIDE DEF S
  <2> QED BY <2>3, <2>4, CallEmpties DEF s
<1>7. CASE \E amount \in Amount : Call(TransferShares(s, p, u, p, amount))
  <2>1. PICK amount \in Amount : Call(TransferShares(s, p, u, p, amount))
    BY <1>7
  <2>2. amount \in Nat
    BY AmmAssumption
  <2> DEFINE S == TransferShares(s, p, u, p, amount)
  <2>3. \A x \in S : ContractsKept(s, x)
    BY <1>1, <1>3, <1>4, <2>2, TransferSharesLeads
  <2>4. \E x \in S : wallet' = x.wallet /\ pool' = x.pool
    BY <2>1 DEF Call
  <2> HIDE DEF S
  <2> QED BY <2>3, <2>4, CallEmpties DEF s
<1>8. CASE Call(mint(s, p, u))
  <2> DEFINE S == mint(s, p, u)
  <2>1. \A x \in S : ContractsKept(s, x)
    BY <1>1, <1>3, <1>4, MintKeeps
  <2>2. \E x \in S : wallet' = x.wallet /\ pool' = x.pool
    BY <1>8 DEF Call
  <2> HIDE DEF S
  <2> QED BY <2>1, <2>2, CallEmpties DEF s
<1>9. CASE Call(burn(s, p, u))
  <2> DEFINE S == burn(s, p, u)
  <2>1. \A x \in S : ContractsKept(s, x)
    BY <1>1, <1>3, <1>5, BurnPays
  <2>2. \E x \in S : wallet' = x.wallet /\ pool' = x.pool
    BY <1>9 DEF Call
  <2> HIDE DEF S
  <2> QED BY <2>1, <2>2, CallEmpties DEF s
<1>10. CASE Call(skim(s, p, u))
  <2> DEFINE S == skim(s, p, u)
  <2>1. \A x \in S : ContractsKept(s, x)
    BY <1>1, <1>3, <1>5, SkimPays
  <2>2. \E x \in S : wallet' = x.wallet /\ pool' = x.pool
    BY <1>10 DEF Call
  <2> HIDE DEF S
  <2> QED BY <2>1, <2>2, CallEmpties DEF s
<1>11. CASE Call(_update(s, p))
  <2> DEFINE S == _update(s, p)
  <2>1. ASSUME NEW x \in S PROVE ContractsKept(s, x)
    <3>1. x.wallet = s.wallet
      BY <1>1 DEF _update, IsState
    <3> QED BY <1>4, <3>1
  <2>2. \E x \in S : wallet' = x.wallet /\ pool' = x.pool
    BY <1>11 DEF Call
  <2> HIDE DEF S
  <2> QED BY <2>1, <2>2, CallEmpties DEF s
<1>12. CASE \E t, back \in p, out, paid \in Amount : Call(swap(s, p, One(p, t, out), u, One(p, back, paid)))
  <2>1. PICK t \in p, back \in p, out \in Amount, paid \in Amount : Call(swap(s, p, One(p, t, out), u, One(p, back, paid)))
    BY <1>12
  <2> DEFINE o == One(p, t, out)  b == One(p, back, paid)  S == swap(s, p, o, u, b)
  <2>2. \E x \in S : wallet' = x.wallet /\ pool' = x.pool
    BY <2>1 DEF Call
  <2> HIDE DEF o, b
  <2>3. \A x \in S : ContractsKept(s, x)
    BY <1>1, <1>3, <1>5, SwapPays
  <2> HIDE DEF S
  <2> QED BY <2>2, <2>3, CallEmpties DEF s
<1> QED BY <1>2, <1>6, <1>7, <1>8, <1>9, <1>10, <1>11, <1>12

(* The router's deposits and withdrawals.                                  *)
LEMMA LiquidityCallEmpties == ASSUME RolesApart, PairsGood, Empty(state), LiquidityCall PROVE Empty(state')
<1> DEFINE s == state
<1>1. Good(s) /\ feeTo \in Account /\ Empty(s)
  BY DEF PairsGood
<1>2. PICK u \in User, ab \in Provided, m \in Minimum :
        \/ \E d \in Desired :
             \/ Call(addLiquidity(s, u, ab[1], ab[2], d, <<m, m>>))
             \/ ab[2] = WETH /\ Call(addLiquidityETH(s, u, ab[1], d, <<m, m>>))
        \/ \E x \in Amount :
             \/ Call(removeLiquidity(s, u, {ab[1], ab[2]}, x, [t \in {ab[1], ab[2]} |-> m]))
             \/ \E taxed \in BOOLEAN :
                  ab[2] = WETH /\ Call(removeLiquidityETH(s, u, ab[1], x, [t \in {ab[1], ab[2]} |-> m], taxed))
  BY DEF LiquidityCall
<1> HIDE DEF s
<1> DEFINE a == ab[1]  b == ab[2]  p == {a, b}  low == <<m, m>>  least == [t \in p |-> m]
<1>3. /\ a \in Token /\ b \in Token /\ u \in Account \ {Zero, Router, WETH9} /\ u \in Account /\ u \in Account \ {Zero}
      /\ u \in Account \ {Router, WETH9} /\ Router # WETH9 /\ Amount \subseteq Nat
  BY AmmAssumption, WhoIsWho
<1>4. \/ \E d \in Desired : Call(addLiquidity(s, u, a, b, d, low))
      \/ \E d \in Desired : Call(addLiquidityETH(s, u, a, d, low))
      \/ \E x \in Amount : Call(removeLiquidity(s, u, p, x, least))
      \/ \E x \in Amount, taxed \in BOOLEAN : Call(removeLiquidityETH(s, u, a, x, least, taxed))
  BY <1>2
<1> HIDE DEF a, b, p, low, least
<1>5. ASSUME NEW x, \A h \in Account \ {u, WETH9} : Kept(s, x, h) PROVE ContractsKept(s, x)
  BY <1>5, WhoIsWho DEF ContractsKept
<1>6. \A a2 \in Asset : Held(s, a2, Router) = 0
  BY <1>1 DEF Empty, Contracts
<1>7. CASE \E d \in Desired : Call(addLiquidity(s, u, a, b, d, low))
  <2>1. PICK d \in Desired : Call(addLiquidity(s, u, a, b, d, low))
    BY <1>7
  <2> DEFINE S == addLiquidity(s, u, a, b, d, low)
  <2>2. \A x \in S : ContractsKept(s, x)
    BY <1>1, <1>3, <1>5, AddLiquidityPays
  <2>3. \E x \in S : wallet' = x.wallet /\ pool' = x.pool
    BY <2>1 DEF Call
  <2> HIDE DEF S
  <2> QED BY <2>2, <2>3, CallEmpties DEF s
<1>8. CASE \E d \in Desired : Call(addLiquidityETH(s, u, a, d, low))
  <2>1. PICK d \in Desired : Call(addLiquidityETH(s, u, a, d, low))
    BY <1>8
  <2> DEFINE S == addLiquidityETH(s, u, a, d, low)
  <2>2. \A x \in S : ContractsKept(s, x)
    BY <1>1, <1>3, <1>5, AddLiquidityEthPays
  <2>3. \E x \in S : wallet' = x.wallet /\ pool' = x.pool
    BY <2>1 DEF Call
  <2> HIDE DEF S
  <2> QED BY <2>2, <2>3, CallEmpties DEF s
<1>9. CASE \E x \in Amount : Call(removeLiquidity(s, u, p, x, least))
  <2>1. PICK x \in Amount : Call(removeLiquidity(s, u, p, x, least))
    BY <1>9
  <2> DEFINE S == removeLiquidity(s, u, p, x, least)
  <2>2. x \in Nat
    BY <1>3
  <2>3. ASSUME NEW y \in S PROVE ContractsKept(s, y)
    <3>1. y \in Burnt(s, u, p, x, least, u)
      BY DEF removeLiquidity
    <3>2. \A h \in Account \ {u} : Kept(s, y, h)
      BY <1>1, <1>3, <2>2, <3>1, BurntPays
    <3> QED BY <1>5, <3>2
  <2>4. \E y \in S : wallet' = y.wallet /\ pool' = y.pool
    BY <2>1 DEF Call
  <2> HIDE DEF S
  <2> QED BY <2>3, <2>4, CallEmpties DEF s
<1>10. CASE \E x \in Amount, taxed \in BOOLEAN : Call(removeLiquidityETH(s, u, a, x, least, taxed))
  <2>1. PICK x \in Amount, taxed \in BOOLEAN : Call(removeLiquidityETH(s, u, a, x, least, taxed))
    BY <1>10
  <2> DEFINE S == removeLiquidityETH(s, u, a, x, least, taxed)
  <2>2. x \in Nat
    BY <1>3
  <2>3. \A y \in S : ContractsKept(s, y)
    BY <1>1, <1>3, <1>5, <1>6, <2>2, RemoveLiquidityEthPays
  <2>4. \E y \in S : wallet' = y.wallet /\ pool' = y.pool
    BY <2>1 DEF Call
  <2> HIDE DEF S
  <2> QED BY <2>3, <2>4, CallEmpties DEF s
<1> QED BY <1>4, <1>7, <1>8, <1>9, <1>10

(* A user's swaps on the router leave the contracts as they were.          *)
LEMMA SwapsKeep ==
  ASSUME RolesApart, NEW s, Good(s), Empty(s), NEW u \in User, NEW path \in Seq(Token), Len(path) >= 2, NEW ether,
         NEW x \in Nat, NEW m \in Nat,
         NEW y, y \in swapExactIn(s, u, path, x, m, ether) \cup swapExactOut(s, u, path, m, x, ether)
                   \cup swapExactInTaxed(s, u, path, x, m, ether)
  PROVE  ContractsKept(s, y)
<1>1. u \in Account \ {Router, WETH9} /\ Router # WETH9 /\ Held(s, WETH, Router) = 0
  BY WhoIsWho, EtherUntaxed DEF Empty, Contracts
<1>2. \A h \in Account \ {u, WETH9} : Kept(s, y, h)
  <2>1. CASE y \in swapExactIn(s, u, path, x, m, ether)
    BY <1>1, <2>1, SwapInPays DEF Pays
  <2>2. CASE y \in swapExactOut(s, u, path, m, x, ether)
    BY <1>1, <2>2, SwapOutPays DEF Pays
  <2>3. CASE y \in swapExactInTaxed(s, u, path, x, m, ether)
    BY <1>1, <2>3, SwapTaxedPays
  <2> QED BY <2>1, <2>2, <2>3
<1> QED BY <1>2, WhoIsWho DEF ContractsKept

(* So they stay empty.                                                     *)
LEMMA SwapCallEmpties == ASSUME RolesApart, PairsGood, Empty(state), SwapCall PROVE Empty(state')
<1> DEFINE s == state
<1>1. Good(s) /\ Empty(s)
  BY DEF PairsGood
<1>2. PICK u \in User, way \in Path, x \in Amount, m \in Minimum :
        \/ Call(swapExactIn(s, u, way.path, x, m, way.ether))
        \/ Call(swapExactOut(s, u, way.path, m, x, way.ether))
        \/ Call(swapExactInTaxed(s, u, way.path, x, m, way.ether))
  BY DEF SwapCall
<1> HIDE DEF s
<1> DEFINE path == way.path  ether == way.ether
           S == swapExactIn(s, u, path, x, m, ether) \cup swapExactOut(s, u, path, m, x, ether)
                  \cup swapExactInTaxed(s, u, path, x, m, ether)
<1>3. path \in Seq(Token) /\ Len(path) >= 2 /\ x \in Nat /\ m \in Nat
  BY AmmAssumption
<1>4. \E y \in S : wallet' = y.wallet /\ pool' = y.pool
  BY <1>2 DEF Call
<1> HIDE DEF path, ether
<1>5. \A y \in S : ContractsKept(s, y)
  BY <1>1, <1>3, SwapsKeep
<1> HIDE DEF S
<1> QED BY <1>4, <1>5, CallEmpties DEF s

(* The contracts that trade for others keep nothing either.                *)
LEMMA TradesKeep ==
  ASSUME RolesApart, NEW s, Good(s), Empty(s), NEW u \in User, NEW in \in Asset, NEW out \in Asset,
         NEW spokeIn, IsSpoke(spokeIn), NEW spokeOut, IsSpoke(spokeOut), NEW amount, NEW least,
         NEW y, \/ y \in aggSwap(s, u, in, spokeIn, out, spokeOut, amount, least)
                \/ y \in publicSwap(s, u, in, out, amount, least)
                \/ in \in Token /\ out \in Token /\ y \in executorSwap(s, in, out, amount, least)
  PROVE  ContractsKept(s, y)
<1>1. /\ \A a \in Asset : Held(s, a, AggRouter) = 0 /\ Held(s, a, PublicRouter) = 0 /\ Held(s, a, SwapExecutor) = 0
      /\ u \in Account \ {AggRouter, WETH9, Venue} /\ u \in Account \ {PublicRouter, WETH9, Venue}
      /\ AggRouter \notin {Venue, WETH9, Treasury} /\ PublicRouter \notin {Venue, WETH9, Treasury}
      /\ SwapExecutor \notin {Venue, WETH9} /\ Pool \notin {SwapExecutor, WETH9, Venue}
  BY WhoIsWho DEF Empty, Contracts
<1>2. CASE y \in aggSwap(s, u, in, spokeIn, out, spokeOut, amount, least)
  <2>1. \A h \in Account \ {u, WETH9, Venue, Treasury} : Kept(s, y, h)
    BY <1>1, <1>2, AggSwapPays
  <2> QED BY <2>1, WhoIsWho DEF ContractsKept
<1>3. CASE y \in publicSwap(s, u, in, out, amount, least)
  <2>1. \A h \in Account \ {u, WETH9, Venue, Treasury} : Kept(s, y, h)
    BY <1>1, <1>3, PublicSwapPays
  <2> QED BY <2>1, WhoIsWho DEF ContractsKept
<1>4. CASE in \in Token /\ out \in Token /\ y \in executorSwap(s, in, out, amount, least)
  <2>1. \A h \in Account \ {Pool, WETH9, Venue} : Kept(s, y, h)
    BY <1>1, <1>4, ExecutorSwapPays
  <2> QED BY <2>1, WhoIsWho DEF ContractsKept
<1> QED BY <1>2, <1>3, <1>4

(* Through any of them.                                                    *)
LEMMA AggregatorCallEmpties == ASSUME RolesApart, PairsGood, Empty(state), AggregatorCall PROVE Empty(state')
<1> DEFINE s == state
<1>1. Good(s) /\ Empty(s)
  BY DEF PairsGood
<1>2. PICK u \in User, d \in Deal, x \in Amount, m \in Minimum :
        \/ Call(aggSwap(s, u, d.in, d.spokeIn, d.out, d.spokeOut, x, m))
        \/ Call(publicSwap(s, u, d.in, d.out, x, m))
        \/ {d.in, d.out} \subseteq Token /\ Call(executorSwap(s, d.in, d.out, x, m))
  BY DEF AggregatorCall
<1> HIDE DEF s
<1> DEFINE in == d.in  out == d.out  spokeIn == d.spokeIn  spokeOut == d.spokeOut
           A == aggSwap(s, u, in, spokeIn, out, spokeOut, x, m)
           P == publicSwap(s, u, in, out, x, m)
           E == IF {in, out} \subseteq Token THEN executorSwap(s, in, out, x, m) ELSE {}
           S == A \cup P \cup E
<1>3. in \in Asset /\ out \in Asset /\ IsSpoke(spokeIn) /\ IsSpoke(spokeOut)
  BY AmmAssumption
<1>4. \E y \in S : wallet' = y.wallet /\ pool' = y.pool
  BY <1>2 DEF Call
<1> HIDE DEF in, out, spokeIn, spokeOut
<1>5. \A y \in S : ContractsKept(s, y)
  BY <1>1, <1>3, TradesKeep
<1> HIDE DEF S
<1> QED BY <1>4, <1>5, CallEmpties DEF s

(* Every call on the AMM leaves them empty.                                *)
LEMMA NextEmpties == ASSUME RolesApart, PairsGood, Empty(state), Next PROVE Empty(state')
<1>1. CASE \E account \in FeeAccount : setFeeTo(account)
  BY <1>1 DEF setFeeTo, Empty, Held, state
<1>2. CASE \E token \in Stock : setStockRoute(token)
  BY <1>2 DEF setStockRoute, Empty, Held, state
<1> QED BY <1>1, <1>2, DirectCallEmpties, LiquidityCallEmpties, SwapCallEmpties, AggregatorCallEmpties DEF Next

(* So does every transaction of the app's.                                 *)
LEMMA SentCallEmpties ==
  ASSUME RolesApart, TradesGood, Empty(state), NEW u \in User, task.at = "sent", NEW x \in CallSent(task, u)
  PROVE  ContractsKept(state, x)
<1> DEFINE s == state  t == task
<1>1. Good(s) /\ feeTo \in Account /\ Fits(t) /\ Empty(s)
  BY DEF TradesGood, PairsGood, TaskFits
<1>2. /\ u \in Account \ {Zero, Router, WETH9} /\ u \in Account \ {Router, WETH9} /\ Router # WETH9 /\ PoolToken \in Token
      /\ \A a \in Asset : Held(s, a, Router) = 0
  BY <1>1, WhoIsWho, TradesAssumption DEF Empty, Contracts
<1>3. x \in CallSent(t, u)
  OBVIOUS
<1>4. CASE t.kind \in {"page", "panel", "agent"}
  <2> DEFINE in == t.in  out == t.out  spokeIn == t.spokeIn  spokeOut == t.spokeOut  amount == t.amount  floor == t.floor
  <2>1. x \in aggSwap(s, u, in, spokeIn, out, spokeOut, amount, floor)
    BY <1>3, <1>4 DEF CallSent
  <2>2. in \in Asset /\ out \in Asset /\ IsSpoke(spokeIn) /\ IsSpoke(spokeOut)
    BY <1>1, <1>4 DEF Fits
  <2> HIDE DEF s, in, out, spokeIn, spokeOut, amount, floor
  <2>3. ContractsKept(s, x)
    BY <1>1, <2>1, <2>2, TradesKeep
  <2> QED BY <2>3 DEF s
<1>5. CASE t.kind = "private"
  <2> DEFINE in == t.in  out == t.out  amount == t.amount  floor == t.floor
  <2>1. x \in executorSwap(s, in, out, amount, floor)
    BY <1>3, <1>5 DEF CallSent
  <2>2. in \in Token /\ out \in Token /\ in \in Asset /\ out \in Asset /\ IsSpoke(NoSpoke)
    BY <1>1, <1>5, PairAssumption DEF Fits, IsSpoke, NoSpoke
  <2> HIDE DEF s, in, out, amount, floor
  <2>3. ContractsKept(s, x)
    BY <1>1, <2>1, <2>2, TradesKeep
  <2> QED BY <2>3 DEF s
<1>6. ASSUME NEW y, \A h \in Account \ {u, WETH9} : Kept(s, y, h) PROVE ContractsKept(s, y)
  BY <1>6, WhoIsWho DEF ContractsKept
<1>7. CASE t.kind = "add"
  <2> DEFINE amount == t.amount  floor == t.floor
  <2>1. x \in addLiquidityETH(s, u, PoolToken, amount, floor)
    BY <1>3, <1>7 DEF CallSent
  <2> HIDE DEF s, amount, floor
  <2>2. \A h \in Account \ {u, WETH9} : Kept(s, x, h)
    BY <1>1, <1>2, <2>1, AddLiquidityEthPays
  <2> QED BY <1>6, <2>2 DEF s
<1>8. CASE t.kind = "remove"
  <2> DEFINE amount == t.amount  floor == t.floor
  <2>1. x \in removeLiquidityETH(s, u, PoolToken, amount, floor, FALSE)
    BY <1>3, <1>8 DEF CallSent
  <2>2. amount \in Nat
    BY <1>1, <1>8 DEF Fits
  <2> HIDE DEF s, amount, floor
  <2>3. \A h \in Account \ {u, WETH9} : Kept(s, x, h)
    BY <1>1, <1>2, <2>1, <2>2, RemoveLiquidityEthPays
  <2> QED BY <1>6, <2>3 DEF s
<1>9. t.kind \in {"page", "panel", "agent", "private", "add", "remove"}
  BY <1>1 DEF Fits
<1> QED BY <1>4, <1>5, <1>7, <1>8, <1>9

(* In every step of the trades the contracts stay empty.                   *)
LEMMA TradesEmpty ==
  ASSUME RolesApart, TradesGood, Empty(state), [TradesNext]_tradeVars
  PROVE  Empty(state')
<1>1. ASSUME UNCHANGED <<wallet, pool>> PROVE Empty(state')
  BY <1>1 DEF Empty, Held, state
<1>2. CASE Others
  BY <1>2, NextEmpties DEF Others, TradesGood
<1>3. CASE approve \/ \E u \in User : send(u)
  BY <1>1, <1>3 DEF approve, send, vars
<1>4. CASE doTrade \/ \E u \in User : doSwap(u) \/ executePublicSwap(u) \/ executeSwap(u) \/ addLiq(u) \/ removeLiq(u)
  <2>1. \E t : Ask(t)
    <3>1. CASE doTrade
      BY <3>1 DEF doTrade, AskSwap
    <3>2. ASSUME NEW u \in User, doSwap(u) PROVE \E t : Ask(t)
      BY <3>2 DEF doSwap, AskSwap
    <3>3. ASSUME NEW u \in User, executePublicSwap(u) PROVE \E t : Ask(t)
      BY <3>3 DEF executePublicSwap, AskSwap
    <3>4. ASSUME NEW u \in User, executeSwap(u) PROVE \E t : Ask(t)
      BY <3>4 DEF executeSwap, AskSwap
    <3>5. ASSUME NEW u \in User, addLiq(u) PROVE \E t : Ask(t)
      BY <3>5 DEF addLiq
    <3>6. ASSUME NEW u \in User, removeLiq(u) PROVE \E t : Ask(t)
      <4>1. PICK percent \in Percent :
              LET r == pool[PoolPair]
                  liquidity == Share(r, u, percent)
              IN Ask([kind |-> "remove", in |-> PoolPair, amount |-> liquidity,
                      expected |-> [t \in PoolPair |-> (r.reserve[t] * liquidity) \div r.totalSupply]])
        BY <3>6 DEF removeLiq
      <4> QED BY <4>1
    <3> QED BY <1>4, <3>1, <3>2, <3>3, <3>4, <3>5, <3>6
  <2> QED BY <1>1, <2>1 DEF Ask, vars
<1>5. CASE \E u \in User : mine(u)
  <2>1. PICK u \in User : mine(u)
    BY <1>5
  <2>2. CASE \E x \in CallSent(task, u) : wallet' = x.wallet /\ pool' = x.pool
    <3> DEFINE S == CallSent(task, u)
    <3>1. \A x \in S : ContractsKept(state, x)
      BY <2>1, SentCallEmpties DEF mine
    <3>2. \E x \in S : wallet' = x.wallet /\ pool' = x.pool
      BY <2>2
    <3> HIDE DEF S
    <3> QED BY <3>1, <3>2, CallEmpties
  <2> QED BY <1>1, <2>1, <2>2 DEF mine
<1>6. CASE UNCHANGED tradeVars
  BY <1>1, <1>6 DEF tradeVars, vars
<1> QED BY <1>2, <1>3, <1>4, <1>5, <1>6 DEF TradesNext

-----------------------------------------------------------------------------
(* What a call that leads from s to y has paid and received.               *)
Settled(s, y, h, in, out, payments, receipts) ==
  /\ -(Held(y, in, h) - Held(s, in, h)) \in payments
  /\ Held(y, out, h) - Held(s, out, h) >= receipts
  /\ \A c \in Contracts, a \in Asset : Held(y, a, c) - Held(s, a, c) = 0

(* Paid as it should be, and no contract changed.                          *)
LEMMA SettledWhen ==
  ASSUME NEW s, IsState(s), NEW y, NEW h \in Holder, NEW in \in Asset, NEW out \in Asset, NEW paid \in Nat,
         Held(y, in, h) = Held(s, in, h) - paid, NEW payments, paid \in payments,
         NEW receipts, Held(y, out, h) - Held(s, out, h) >= receipts,
         RolesApart, ContractsKept(s, y)
  PROVE  Settled(s, y, h, in, out, payments, receipts)
<1>1. -(Held(y, in, h) - Held(s, in, h)) = paid
  BY HeldType
<1>2. ASSUME NEW c \in Contracts, NEW a \in Asset PROVE Held(y, a, c) - Held(s, a, c) = 0
  <2>1. c \in Account
    BY WhoIsWho
  <2>2. Held(s, a, c) \in Nat
    BY <2>1, AccountsApart, HeldType
  <2> QED BY <2>2 DEF ContractsKept, Kept
<1> QED BY <1>1, <1>2 DEF Settled

(* Paid by one who differs in what it pays and receives.                   *)
LEMMA PaysMeans ==
  ASSUME NEW s, IsState(s), NEW y, NEW u \in Account, NEW in \in Asset, NEW out \in Asset, in # out,
         NEW paid \in Nat, NEW got \in Nat, Pays(s, y, u, in, out, paid, got)
  PROVE  Held(y, in, u) = Held(s, in, u) - paid /\ Held(y, out, u) - Held(s, out, u) = Received(out, got)
<1>1. Held(s, in, u) \in Nat /\ Held(s, out, u) \in Nat /\ Received(out, got) \in Nat
  BY AccountsApart, HeldType, ReceivedIs
<1>2. Held(y, in, u) = Held(s, in, u) - paid + 0 /\ Held(y, out, u) = Held(s, out, u) - 0 + Received(out, got)
  BY DEF Pays, If
<1> QED BY <1>1, <1>2

(* The router's swaps settle.                                              *)
LEMMA SwapsSettle ==
  ASSUME RolesApart, NEW s, Good(s), Empty(s), NEW u \in User, NEW path \in Seq(Token), Len(path) >= 2, NEW ether,
         ether \in {"in", "out"} \/ path[1] # Last(path), NEW x \in Nat, NEW m \in Nat,
         NEW in, NEW out, in = InAsset(path, ether), out = OutAsset(path, ether)
  PROVE  /\ \A y \in swapExactIn(s, u, path, x, m, ether) : Settled(s, y, u, in, out, {x}, Least(out, m))
         /\ \A y \in swapExactOut(s, u, path, m, x, ether) : Settled(s, y, u, in, out, 0 .. x, Least(out, m))
         /\ \A y \in swapExactInTaxed(s, u, path, x, m, ether) : Settled(s, y, u, in, out, {x}, m)
<1>1. /\ u \in Account \ {Router, WETH9} /\ u \in Account /\ Router # WETH9 /\ Held(s, WETH, Router) = 0 /\ u \in Holder
      /\ IsState(s)
  BY WhoIsWho, EtherUntaxed, AccountsApart DEF Empty, Contracts, Good
<1>2. in \in Asset /\ out \in Asset /\ in # out
  BY EndsDiffer
<1>3. ASSUME NEW y \in swapExactIn(s, u, path, x, m, ether) PROVE Settled(s, y, u, in, out, {x}, Least(out, m))
  <2>1. PICK got \in Nat : got >= m /\ Pays(s, y, u, in, out, x, got)
    BY <1>1, SwapInPays
  <2>2. Held(y, in, u) = Held(s, in, u) - x /\ Held(y, out, u) - Held(s, out, u) = Received(out, got)
    BY <1>1, <1>2, <2>1, PaysMeans
  <2>3. Received(out, got) >= Least(out, m)
    BY <2>1, LeastReceived
  <2>4. ContractsKept(s, y)
    BY SwapsKeep
  <2>5. Held(y, out, u) - Held(s, out, u) >= Least(out, m)
    BY <2>2, <2>3
  <2> QED BY <1>1, <1>2, <2>2, <2>4, <2>5, SettledWhen
<1>4. ASSUME NEW y \in swapExactOut(s, u, path, m, x, ether) PROVE Settled(s, y, u, in, out, 0 .. x, Least(out, m))
  <2>1. PICK paid \in Nat : paid <= x /\ Pays(s, y, u, in, out, paid, m)
    BY <1>1, SwapOutPays
  <2>2. Held(y, in, u) = Held(s, in, u) - paid /\ Held(y, out, u) - Held(s, out, u) = Received(out, m)
    BY <1>1, <1>2, <2>1, PaysMeans
  <2>3. Received(out, m) >= Least(out, m)
    BY LeastReceived
  <2>4. ContractsKept(s, y)
    BY SwapsKeep
  <2>5. Held(y, out, u) - Held(s, out, u) >= Least(out, m) /\ paid \in 0 .. x
    BY <2>1, <2>2, <2>3
  <2> QED BY <1>1, <1>2, <2>2, <2>4, <2>5, SettledWhen
<1>5. ASSUME NEW y \in swapExactInTaxed(s, u, path, x, m, ether) PROVE Settled(s, y, u, in, out, {x}, m)
  <2>1. Held(y, in, u) = Held(s, in, u) - x /\ Held(y, out, u) - Held(s, out, u) >= m
    BY <1>1, <1>2, SwapTaxedPays
  <2>2. ContractsKept(s, y)
    BY SwapsKeep
  <2> QED BY <1>1, <1>2, <2>1, <2>2, SettledWhen
<1> QED BY <1>3, <1>4, <1>5

(* The trades that contracts make for others settle.                       *)
LEMMA DealsSettle ==
  ASSUME RolesApart, NEW s, Good(s), Empty(s), NEW u \in User, NEW in \in Asset, NEW out \in Asset, in # out,
         NEW spokeIn, IsSpoke(spokeIn), NEW spokeOut, IsSpoke(spokeOut), NEW x \in Nat, NEW m \in Nat
  PROVE  /\ \A y \in aggSwap(s, u, in, spokeIn, out, spokeOut, x, m) : Settled(s, y, u, in, out, {x}, Least(out, m))
         /\ \A y \in publicSwap(s, u, in, out, x, m) : Settled(s, y, u, in, out, {x}, Least(out, m))
         /\ in \in Token /\ out \in Token =>
              \A y \in executorSwap(s, in, out, x, m) : Settled(s, y, Pool, in, out, {x}, Least(out, m))
<1>1. /\ \A a \in Asset : Held(s, a, AggRouter) = 0 /\ Held(s, a, PublicRouter) = 0 /\ Held(s, a, SwapExecutor) = 0
      /\ u \in Account \ {AggRouter, WETH9, Venue} /\ u \in Account \ {PublicRouter, WETH9, Venue}
      /\ AggRouter \notin {Venue, WETH9, Treasury} /\ PublicRouter \notin {Venue, WETH9, Treasury}
      /\ SwapExecutor \notin {Venue, WETH9} /\ Pool \notin {SwapExecutor, WETH9, Venue}
  BY WhoIsWho DEF Empty, Contracts
<1>2. u \in Holder /\ Pool \in Holder /\ IsState(s) /\ x \in {x}
  BY <1>1, AccountsApart, SwapAssumption DEF Good, Holder
<1>3. ASSUME NEW y \in aggSwap(s, u, in, spokeIn, out, spokeOut, x, m) PROVE Settled(s, y, u, in, out, {x}, Least(out, m))
  <2>1. Held(y, in, u) = Held(s, in, u) - x /\ Held(y, out, u) - Held(s, out, u) >= Least(out, m)
    BY <1>1, AggSwapPays
  <2>2. ContractsKept(s, y)
    BY TradesKeep
  <2> QED BY <1>2, <2>1, <2>2, SettledWhen
<1>4. ASSUME NEW y \in publicSwap(s, u, in, out, x, m) PROVE Settled(s, y, u, in, out, {x}, Least(out, m))
  <2>1. Held(y, in, u) = Held(s, in, u) - x /\ Held(y, out, u) - Held(s, out, u) >= Least(out, m)
    BY <1>1, PublicSwapPays
  <2>2. ContractsKept(s, y)
    BY TradesKeep
  <2> QED BY <1>2, <2>1, <2>2, SettledWhen
<1>5. ASSUME in \in Token, out \in Token, NEW y \in executorSwap(s, in, out, x, m)
      PROVE  Settled(s, y, Pool, in, out, {x}, Least(out, m))
  <2>1. Held(y, in, Pool) = Held(s, in, Pool) - x /\ Held(y, out, Pool) - Held(s, out, Pool) >= Least(out, m)
    BY <1>1, <1>5, ExecutorSwapPays
  <2>2. ContractsKept(s, y)
    BY <1>5, TradesKeep
  <2> QED BY <1>2, <2>1, <2>2, SettledWhen
<1> QED BY <1>3, <1>4, <1>5

(* So every call settles, in every good state with empty contracts.        *)
LEMMA CallsAreSettled == ASSUME RolesApart, PairsGood, Empty(state) PROVE CallsSettle
<1> DEFINE s == state
           Gain(y, h, a) == y.wallet[a][h] - wallet[a][h]
           Settles(S, h, in, out, payments, receipts) ==
             \A y \in S : /\ -Gain(y, h, in) \in payments
                          /\ Gain(y, h, out) >= receipts
                          /\ \A c \in Contracts, a \in Asset : Gain(y, c, a) = 0
           Net2(out, amount) == IF out \in Taxed THEN amount - 1 ELSE amount
<1>1. Good(s) /\ Empty(s)
  BY DEF PairsGood
<1>2. ASSUME NEW S, NEW h, NEW in, NEW out, NEW payments, NEW receipts,
             \A y \in S : Settled(s, y, h, in, out, payments, receipts)
      PROVE  Settles(S, h, in, out, payments, receipts)
  <2>1. \A y, a, c : Held(y, a, c) - Held(s, a, c) = Gain(y, c, a)
    BY DEF Held, state
  <2> HIDE DEF Gain, s
  <2> QED BY <1>2, <2>1 DEF Settled, Contracts
<1> HIDE DEF Settles, s
<1>3. ASSUME NEW u \in User, NEW x \in Amount, NEW m \in Minimum, NEW way \in Path,
             NEW path, NEW ether, NEW in, NEW out, path = way.path, ether = way.ether,
             in = IF ether = "in" THEN ETH ELSE path[1], out = IF ether = "out" THEN ETH ELSE Last(path)
      PROVE  /\ Settles(swapExactIn(s, u, path, x, m, ether), u, in, out, {x}, Net2(out, m))
             /\ Settles(swapExactOut(s, u, path, m, x, ether), u, in, out, 0 .. x, Net2(out, m))
             /\ Settles(swapExactInTaxed(s, u, path, x, m, ether), u, in, out, {x}, m)
  <2>1. path \in Seq(Token) /\ Len(path) >= 2 /\ x \in Nat /\ m \in Nat /\ (ether \in {"in", "out"} \/ path[1] # Last(path))
    BY <1>3, AmmAssumption DEF RolesApart
  <2>2. in = InAsset(path, ether) /\ out = OutAsset(path, ether) /\ Net2(out, m) = Least(out, m)
    BY <1>3 DEF InAsset, OutAsset, Least
  <2>3. /\ \A y \in swapExactIn(s, u, path, x, m, ether) : Settled(s, y, u, in, out, {x}, Least(out, m))
        /\ \A y \in swapExactOut(s, u, path, m, x, ether) : Settled(s, y, u, in, out, 0 .. x, Least(out, m))
        /\ \A y \in swapExactInTaxed(s, u, path, x, m, ether) : Settled(s, y, u, in, out, {x}, m)
    BY <1>1, <2>1, <2>2, SwapsSettle
  <2> HIDE DEF Net2
  <2> QED BY <1>2, <2>2, <2>3
<1>4. ASSUME NEW u \in User, NEW x \in Amount, NEW m \in Minimum, NEW d \in Deal
      PROVE  /\ Settles(aggSwap(s, u, d.in, d.spokeIn, d.out, d.spokeOut, x, m), u, d.in, d.out, {x}, Net2(d.out, m))
             /\ Settles(publicSwap(s, u, d.in, d.out, x, m), u, d.in, d.out, {x}, Net2(d.out, m))
             /\ {d.in, d.out} \subseteq Token =>
                  Settles(executorSwap(s, d.in, d.out, x, m), Pool, d.in, d.out, {x}, Net2(d.out, m))
  <2> DEFINE in == d.in  out == d.out  spokeIn == d.spokeIn  spokeOut == d.spokeOut
  <2>1. /\ in \in Asset /\ out \in Asset /\ in # out /\ IsSpoke(spokeIn) /\ IsSpoke(spokeOut) /\ x \in Nat /\ m \in Nat
    BY AmmAssumption DEF RolesApart
  <2>2. Net2(out, m) = Least(out, m)
    BY DEF Least
  <2> HIDE DEF in, out, spokeIn, spokeOut
  <2>3. /\ \A y \in aggSwap(s, u, in, spokeIn, out, spokeOut, x, m) : Settled(s, y, u, in, out, {x}, Least(out, m))
        /\ \A y \in publicSwap(s, u, in, out, x, m) : Settled(s, y, u, in, out, {x}, Least(out, m))
        /\ in \in Token /\ out \in Token =>
             \A y \in executorSwap(s, in, out, x, m) : Settled(s, y, Pool, in, out, {x}, Least(out, m))
    BY <1>1, <2>1, DealsSettle
  <2> HIDE DEF Net2
  <2>4. /\ Settles(aggSwap(s, u, in, spokeIn, out, spokeOut, x, m), u, in, out, {x}, Net2(out, m))
        /\ Settles(publicSwap(s, u, in, out, x, m), u, in, out, {x}, Net2(out, m))
        /\ {in, out} \subseteq Token => Settles(executorSwap(s, in, out, x, m), Pool, in, out, {x}, Net2(out, m))
    BY <1>2, <2>2, <2>3
  <2> QED BY <2>4 DEF in, out, spokeIn, spokeOut
<1> HIDE DEF Net2
<1>5. ASSUME NEW u \in User, NEW x \in Amount, NEW m \in Minimum, NEW way \in Path
      PROVE  LET path == way.path
                 in == IF way.ether = "in" THEN ETH ELSE path[1]
                 out == IF way.ether = "out" THEN ETH ELSE Last(path)
             IN /\ Settles(swapExactIn(s, u, path, x, m, way.ether), u, in, out, {x}, Net2(out, m))
                /\ Settles(swapExactOut(s, u, path, m, x, way.ether), u, in, out, 0 .. x, Net2(out, m))
                /\ Settles(swapExactInTaxed(s, u, path, x, m, way.ether), u, in, out, {x}, m)
  <2> DEFINE path == way.path
             ether == way.ether
             in == IF ether = "in" THEN ETH ELSE path[1]
             out == IF ether = "out" THEN ETH ELSE Last(path)
  <2>1. /\ path = way.path /\ ether = way.ether
        /\ in = IF ether = "in" THEN ETH ELSE path[1]
        /\ out = IF ether = "out" THEN ETH ELSE Last(path)
    OBVIOUS
  <2> HIDE DEF path, ether, in, out
  <2>2. /\ Settles(swapExactIn(s, u, path, x, m, ether), u, in, out, {x}, Net2(out, m))
        /\ Settles(swapExactOut(s, u, path, m, x, ether), u, in, out, 0 .. x, Net2(out, m))
        /\ Settles(swapExactInTaxed(s, u, path, x, m, ether), u, in, out, {x}, m)
    BY <1>3, <2>1
  <2> QED BY <2>2 DEF path, ether, in, out
<1> QED BY <1>4, <1>5 DEF CallsSettle, Settles, s, Net2

(* In every state of the trades, between the flows of the app, a call that *)
(* succeeds has kept its word (SherwoodV2Router, AggRouter, PublicRouter,  *)
(* SwapExecutor): paid, received, and nothing left in between.             *)
THEOREM CallsCorrect ==
  ASSUME RolesApart PROVE TradesSpec => []CallsSettleBetween
<1>1. TradesInit => TradesGood /\ Empty(state)
  BY TradesStart, InitEmpty DEF TradesInit
<1>2. TradesGood /\ Empty(state) /\ [TradesNext]_tradeVars => (TradesGood /\ Empty(state))'
  <2>1. ASSUME TradesGood, Empty(state), [TradesNext]_tradeVars PROVE TradesGood' /\ Empty(state')
    BY <2>1, TradesMove, TradesEmpty
  <2> QED BY <2>1
<1>3. TradesGood /\ Empty(state) => CallsSettleBetween
  BY CallsAreSettled DEF TradesGood, CallsSettleBetween
<1> QED BY <1>1, <1>2, <1>3, PTL DEF TradesSpec
=============================================================================
