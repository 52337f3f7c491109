----------------------------- MODULE SumTheorems -----------------------------
(***************************************************************************)
(* Facts that proofs by induction over data rest on, stated about sets:    *)
(* least natural numbers, finite sets by steps, sums over finite sets      *)
(* (SumFunctionOnSet of Functions, which the accounts of the pool, of      *)
(* staking and of the client are), parts, prefixes and concatenations of   *)
(* sequences, extrema, and rings of the newest elements. They follow from  *)
(* the library's theorems about well-founded relations and finite sets.    *)
(***************************************************************************)
EXTENDS Integers, SequencesExt, FiniteSetTheorems, WellFoundedInduction, TLAPS

(* A set of natural numbers that is not empty has a least one.             *)
LEMMA LeastNatural ==
  ASSUME NEW T, T \subseteq Nat, T # {}
  PROVE  \E n \in T : \A m \in T : n <= m
<1>1. PICK n \in T : \A m \in T : ~ (<<m, n>> \in OpToRel(<, Nat))
  BY NatLessThanWellFounded, WFMin
<1>2. \A m \in T : ~ (m < n)
  BY <1>1 DEF OpToRel
<1> QED BY <1>2

(* Induction on the natural numbers, as a fact about sets.                 *)
LEMMA NaturalsBySteps ==
  ASSUME NEW T, T \subseteq Nat, 0 \in T, \A n \in T : n + 1 \in T
  PROVE  T = Nat
<1>1. SUFFICES ASSUME Nat \ T # {} PROVE FALSE
  OBVIOUS
<1>2. PICK n \in Nat \ T : \A m \in Nat \ T : n <= m
  BY <1>1, LeastNatural
<1>3. n # 0 /\ n - 1 \in Nat /\ n - 1 \notin Nat \ T
  BY <1>2
<1> QED BY <1>3

Parts(S) == SUBSET S

(* Parts of a part of a finite set, and what is left of one when an        *)
(* element goes.                                                           *)
LEMMA PartsOfPart ==
  ASSUME NEW S, IsFiniteSet(S), NEW s \in Parts(S)
  PROVE  /\ IsFiniteSet(s) /\ Cardinality(s) \in Nat /\ Cardinality(s) <= Cardinality(S)
         /\ s # {} => Cardinality(s) > 0
         /\ Parts(s) \subseteq Parts(S)
         /\ \A x \in s : /\ s \ {x} \in Parts(S) /\ s \ {x} \in Parts(s)
                         /\ Cardinality(s \ {x}) = Cardinality(s) - 1
<1>1. IsFiniteSet(s) /\ Cardinality(s) \in Nat /\ Cardinality(s) <= Cardinality(S)
  BY FS_Subset, FS_CardinalityType DEF Parts
<1>2. s # {} => Cardinality(s) # 0
  BY <1>1, FS_EmptySet
<1>3. \A x \in s : Cardinality(s \ {x}) = Cardinality(s) - 1
  BY <1>1, FS_RemoveElement
<1>4. Parts(s) \subseteq Parts(S) /\ \A x \in s : s \ {x} \in Parts(S) /\ s \ {x} \in Parts(s)
  BY DEF Parts
<1> QED BY <1>1, <1>2, <1>3, <1>4

(* Induction on the size of a part of a finite set.                        *)
LEMMA PartsBySize ==
  ASSUME NEW S, IsFiniteSet(S), NEW Good,
         \A s \in Parts(S) : (\A t \in Parts(S) : Cardinality(t) < Cardinality(s) => t \in Good) => s \in Good
  PROVE  Parts(S) \subseteq Good
<1> DEFINE Size == { Cardinality(s) : s \in Parts(S) \ Good }
<1>0. \A s \in Parts(S) : Cardinality(s) \in Nat
  BY PartsOfPart
<1>1. SUFFICES ASSUME Parts(S) \ Good # {} PROVE FALSE
  OBVIOUS
<1>2. Size \subseteq Nat /\ Size # {}
  BY <1>0, <1>1
<1>3. PICK n \in Size : \A m \in Size : n <= m
  <2> HIDE DEF Size
  <2> QED BY <1>2, LeastNatural
<1>4. PICK s \in Parts(S) \ Good : n = Cardinality(s)
  OBVIOUS
<1>5. ASSUME NEW t \in Parts(S), Cardinality(t) < Cardinality(s) PROVE t \in Good
  <2>1. SUFFICES ASSUME t \notin Good PROVE FALSE
    OBVIOUS
  <2>2. Cardinality(t) \in Size
    BY <2>1
  <2> HIDE DEF Size
  <2>3. n <= Cardinality(t)
    BY <1>3, <2>2
  <2>4. Cardinality(t) \in Nat /\ Cardinality(s) \in Nat
    BY <1>0, <1>4
  <2> QED BY <1>4, <1>5, <2>3, <2>4
<1> QED BY <1>4, <1>5

(* Induction on a finite set, as a fact about families of its parts: one   *)
(* that has the empty set and is kept when an element joins has the set.   *)
LEMMA FiniteBySteps ==
  ASSUME NEW S, IsFiniteSet(S), NEW Good, {} \in Good,
         \A T \in SUBSET S : \A x \in S \ T : T \in Good => T \cup {x} \in Good
  PROVE  S \in Good
<1>1. ASSUME NEW s \in Parts(S), \A t \in Parts(S) : Cardinality(t) < Cardinality(s) => t \in Good
      PROVE  s \in Good
  <2>1. CASE s = {}
    BY <2>1
  <2>2. CASE s # {}
    <3>1. PICK x \in s : TRUE
      BY <2>2
    <3>2. s \ {x} \in Good
      <4>1. s \ {x} \in Parts(S) /\ Cardinality(s \ {x}) < Cardinality(s)
        BY PartsOfPart
      <4> QED BY <1>1, <4>1
    <3>3. s \ {x} \in SUBSET S /\ x \in S \ (s \ {x}) /\ (s \ {x}) \cup {x} = s
      BY DEF Parts
    <3> QED BY <3>2, <3>3
  <2> QED BY <2>1, <2>2
<1>2. Parts(S) \subseteq Good
  BY <1>1, PartsBySize
<1> QED BY <1>2 DEF Parts

-----------------------------------------------------------------------------
Chosen(s) == CHOOSE x \in s : TRUE
SumStep(v, f, s) == IF s = {} THEN 0 ELSE v[Chosen(s)] + f[s \ {Chosen(s)}]
Adds(v, f, D) == f = [s \in D |-> SumStep(v, f, s)]

(* The element a sum takes next is one of the set.                         *)
LEMMA ChosenIsIn == ASSUME NEW s, s # {} PROVE Chosen(s) \in s
BY DEF Chosen

UpTo(S, n) == { s \in Parts(S) : Cardinality(s) <= n }

(* The parts of n elements or fewer: the steps by which a sum is defined.  *)
LEMMA PartsUpTo ==
  ASSUME NEW S, IsFiniteSet(S), NEW n \in Nat
  PROVE  /\ \A s \in UpTo(S, 0) : s = {}
         /\ UpTo(S, n) \subseteq UpTo(S, n + 1)
         /\ \A s \in UpTo(S, n + 1) : \A x \in s : s \ {x} \in UpTo(S, n)
         /\ UpTo(S, Cardinality(S)) = Parts(S)
<1>1. ASSUME NEW s \in Parts(S) PROVE Cardinality(s) \in Nat /\ (s # {} => Cardinality(s) > 0)
  BY PartsOfPart
<1>2. ASSUME NEW s \in Parts(S), Cardinality(s) <= 0 PROVE s = {}
  BY <1>1, <1>2
<1>3. ASSUME NEW s \in Parts(S), Cardinality(s) <= n PROVE Cardinality(s) <= n + 1
  BY <1>1, <1>3
<1>4. ASSUME NEW s \in Parts(S), Cardinality(s) <= n + 1, NEW x \in s
      PROVE  s \ {x} \in Parts(S) /\ Cardinality(s \ {x}) <= n
  BY <1>1, <1>4, PartsOfPart
<1>5. ASSUME NEW s \in Parts(S) PROVE Cardinality(s) <= Cardinality(S)
  BY PartsOfPart
<1> QED BY <1>2, <1>3, <1>4, <1>5 DEF UpTo

(* The function that CHOOSE finds in SumFunctionOnSet exists.              *)
LEMMA AddsExists ==
  ASSUME NEW v, NEW S, IsFiniteSet(S)
  PROVE  \E f : Adds(v, f, Parts(S))
<1> DEFINE N == { n \in Nat : \E f : Adds(v, f, UpTo(S, n)) }
<1>1. 0 \in N
  <2> DEFINE f == [s \in UpTo(S, 0) |-> 0]
  <2>1. \A s \in UpTo(S, 0) : s = {}
    BY PartsUpTo
  <2>2. Adds(v, f, UpTo(S, 0))
    BY <2>1 DEF Adds, SumStep
  <2> QED BY <2>2
<1>2. ASSUME NEW n \in N PROVE n + 1 \in N
  <2>1. PICK f : Adds(v, f, UpTo(S, n))
    OBVIOUS
  <2> DEFINE g == [s \in UpTo(S, n + 1) |-> SumStep(v, f, s)]
  <2>2. \A s \in UpTo(S, n) : s \in UpTo(S, n + 1)
    BY PartsUpTo
  <2>3. \A s \in UpTo(S, n) : g[s] = f[s]
    BY <2>1, <2>2 DEF Adds
  <2>4. \A s \in UpTo(S, n + 1) : s # {} => s \ {Chosen(s)} \in UpTo(S, n)
    BY PartsUpTo, ChosenIsIn
  <2>5. \A s \in UpTo(S, n + 1) : SumStep(v, f, s) = SumStep(v, g, s)
    <3> HIDE DEF g
    <3> QED BY <2>3, <2>4 DEF SumStep
  <2>6. Adds(v, g, UpTo(S, n + 1))
    BY <2>5 DEF Adds
  <2> HIDE DEF g
  <2> QED BY <2>6
<1>3. N = Nat
  <2> HIDE DEF N
  <2>1. N \subseteq Nat
    BY DEF N
  <2> QED BY <1>1, <1>2, <2>1, NaturalsBySteps
<1>4. UpTo(S, Cardinality(S)) = Parts(S)
  BY PartsUpTo, FS_CardinalityType
<1>5. Cardinality(S) \in N
  BY FS_CardinalityType, <1>3
<1> QED BY <1>4, <1>5

(* A sum is the value of a function that adds one element at a time.       *)
LEMMA SumAdds ==
  ASSUME NEW v, NEW S, IsFiniteSet(S)
  PROVE  \E f : Adds(v, f, Parts(S)) /\ SumFunctionOnSet(v, S) = f[S]
<1> DEFINE f == CHOOSE f : Adds(v, f, Parts(S))
<1>1. Adds(v, f, Parts(S))
  BY AddsExists
<1>2. SumFunctionOnSet(v, S) = f[S]
  BY DEF SumFunctionOnSet, FoldFunctionOnSet, MapThenFoldSet, Adds, SumStep, Chosen, Parts
<1> HIDE DEF f
<1> QED BY <1>1, <1>2

(* Two functions that add up the values of v agree where both are defined. *)
LEMMA AddsAgree ==
  ASSUME NEW v, NEW S, IsFiniteSet(S), NEW T \in Parts(S), NEW f, NEW g,
         Adds(v, f, Parts(S)), Adds(v, g, Parts(T))
  PROVE  f[T] = g[T]
<1> DEFINE Good == { t \in Parts(T) : f[t] = g[t] }
<1>1. IsFiniteSet(T) /\ Parts(T) \subseteq Parts(S)
  BY PartsOfPart
<1>2. ASSUME NEW s \in Parts(T), \A t \in Parts(T) : Cardinality(t) < Cardinality(s) => t \in Good
      PROVE  s \in Good
  <2>1. f[s] = SumStep(v, f, s) /\ g[s] = SumStep(v, g, s)
    BY <1>1 DEF Adds
  <2>2. ASSUME s # {} PROVE f[s \ {Chosen(s)}] = g[s \ {Chosen(s)}]
    <3>1. s \ {Chosen(s)} \in Parts(T) /\ Cardinality(s \ {Chosen(s)}) < Cardinality(s)
      BY <1>1, <2>2, PartsOfPart, ChosenIsIn
    <3> QED BY <1>2, <3>1
  <2> QED BY <2>1, <2>2 DEF SumStep
<1>3. T \in Parts(T)
  BY DEF Parts
<1>4. Parts(T) \subseteq Good
  <2> HIDE DEF Good
  <2> QED BY <1>1, <1>2, PartsBySize
<1> QED BY <1>3, <1>4

(* In which order the elements are taken does not matter.                  *)
LEMMA AddsAny ==
  ASSUME NEW v, NEW S, IsFiniteSet(S), \A x \in S : v[x] \in Int,
         NEW f, Adds(v, f, Parts(S))
  PROVE  \A s \in Parts(S) : f[s] \in Int /\ \A x \in s : f[s] = v[x] + f[s \ {x}]
<1> DEFINE Fine(s) == f[s] \in Int /\ \A x \in s : f[s] = v[x] + f[s \ {x}]
           Good == { s \in Parts(S) : Fine(s) }
<1>1. ASSUME NEW s \in Parts(S), \A t \in Parts(S) : Cardinality(t) < Cardinality(s) => t \in Good
      PROVE  s \in Good
  <2>1. f[s] = SumStep(v, f, s)
    BY DEF Adds
  <2>2. CASE s = {}
    BY <2>1, <2>2 DEF SumStep
  <2>3. CASE s # {}
    <3> DEFINE c == Chosen(s)
    <3>0. \A x \in s : s \ {x} \in Parts(S) /\ Cardinality(s \ {x}) < Cardinality(s) /\ v[x] \in Int
      BY PartsOfPart DEF Parts
    <3>1. c \in s /\ f[s] = v[c] + f[s \ {c}]
      BY <2>1, <2>3, ChosenIsIn DEF SumStep
    <3> HIDE DEF c
    <3>2. \A x \in s : Fine(s \ {x})
      BY <1>1, <3>0
    <3>3. f[s] \in Int
      <4>1. f[s \ {c}] \in Int /\ v[c] \in Int
        BY <3>0, <3>1, <3>2
      <4> HIDE DEF Fine, Good
      <4> QED BY <3>1, <4>1
    <3>4. ASSUME NEW x \in s, x # c PROVE f[s] = v[x] + f[s \ {x}]
      <4> DEFINE r == (s \ {x}) \ {c}
      <4>1. r = (s \ {c}) \ {x} /\ c \in s \ {x} /\ x \in s \ {c}
        BY <3>1, <3>4
      <4>2. f[s \ {x}] = v[c] + f[r] /\ f[s \ {c}] = v[x] + f[r]
        BY <3>1, <3>2, <4>1
      <4>3. f[r] \in Int
        <5>1. r \in Parts(S) /\ Cardinality(r) < Cardinality(s)
          <6>1. s \ {x} \in Parts(S) /\ c \in s \ {x}
            BY <3>0, <4>1
          <6>2. r \in Parts(S) /\ Cardinality(r) = Cardinality(s \ {x}) - 1 /\ Cardinality(s \ {x}) \in Nat
            BY <6>1, PartsOfPart
          <6>3. Cardinality(s \ {x}) = Cardinality(s) - 1 /\ Cardinality(s) \in Nat
            BY PartsOfPart
          <6> HIDE DEF r, Good
          <6> QED BY <6>2, <6>3
        <5> QED BY <1>1, <5>1
      <4>4. v[c] \in Int /\ v[x] \in Int
        BY <3>0, <3>1
      <4> HIDE DEF r, Fine, Good
      <4> QED BY <3>1, <4>2, <4>3, <4>4
    <3> QED BY <3>1, <3>3, <3>4
  <2> QED BY <2>2, <2>3
<1>2. Parts(S) \subseteq Good
  <2> HIDE DEF Good
  <2> QED BY <1>1, PartsBySize
<1> QED BY <1>2

-----------------------------------------------------------------------------
(* The sum over no element is 0.                                           *)
THEOREM SumEmpty ==
  ASSUME NEW v PROVE SumFunctionOnSet(v, {}) = 0
<1>1. PICK f : Adds(v, f, Parts({})) /\ SumFunctionOnSet(v, {}) = f[{}]
  BY SumAdds, FS_EmptySet
<1> QED BY <1>1 DEF Adds, SumStep, Parts

(* A sum is any one element's value and the sum over the others.           *)
THEOREM SumRemove ==
  ASSUME NEW S, IsFiniteSet(S), NEW v, \A x \in S : v[x] \in Int, NEW x \in S
  PROVE  /\ SumFunctionOnSet(v, S) \in Int
         /\ SumFunctionOnSet(v, S) = v[x] + SumFunctionOnSet(v, S \ {x})
<1>1. S \ {x} \in Parts(S) /\ S \in Parts(S) /\ IsFiniteSet(S \ {x})
  BY FS_RemoveElement DEF Parts
<1>2. PICK f : Adds(v, f, Parts(S)) /\ SumFunctionOnSet(v, S) = f[S]
  BY SumAdds
<1>3. PICK g : Adds(v, g, Parts(S \ {x})) /\ SumFunctionOnSet(v, S \ {x}) = g[S \ {x}]
  BY <1>1, SumAdds
<1>4. f[S] \in Int /\ f[S] = v[x] + f[S \ {x}]
  <2>1. Adds(v, f, Parts(S))
    BY <1>2
  <2>2. \A s \in Parts(S) : f[s] \in Int /\ \A y \in s : f[s] = v[y] + f[s \ {y}]
    BY ONLY IsFiniteSet(S), \A y \in S : v[y] \in Int, <2>1, AddsAny
  <2> QED BY <1>1, <2>2
<1>5. f[S \ {x}] = g[S \ {x}]
  BY <1>1, <1>2, <1>3, AddsAgree
<1> QED BY <1>2, <1>3, <1>4, <1>5

(* An element that joins adds its value to the sum.                        *)
THEOREM SumAdd ==
  ASSUME NEW S, IsFiniteSet(S), NEW x, x \notin S, NEW v, \A y \in S \cup {x} : v[y] \in Int
  PROVE  SumFunctionOnSet(v, S \cup {x}) = v[x] + SumFunctionOnSet(v, S)
<1>1. IsFiniteSet(S \cup {x}) /\ (S \cup {x}) \ {x} = S /\ x \in S \cup {x}
  BY FS_AddElement
<1> QED BY <1>1, SumRemove

(* Sums of integers are integers.                                          *)
THEOREM SumType ==
  ASSUME NEW S, IsFiniteSet(S), NEW v, \A x \in S : v[x] \in Int
  PROVE  SumFunctionOnSet(v, S) \in Int
<1>1. CASE S = {}
  BY <1>1, SumEmpty
<1>2. CASE S # {}
  BY <1>2, SumRemove
<1> QED BY <1>1, <1>2

(* A sum depends on the values on its set only.                            *)
THEOREM SumSame ==
  ASSUME NEW S, IsFiniteSet(S), NEW v, NEW w, \A x \in S : v[x] \in Int /\ v[x] = w[x]
  PROVE  SumFunctionOnSet(v, S) = SumFunctionOnSet(w, S)
<1> DEFINE Good == { T \in SUBSET S : SumFunctionOnSet(v, T) = SumFunctionOnSet(w, T) }
<1>1. {} \in Good
  BY SumEmpty
<1>2. ASSUME NEW T \in SUBSET S, NEW x \in S \ T, T \in Good PROVE T \cup {x} \in Good
  <2>1. IsFiniteSet(T) /\ x \notin T /\ \A y \in T \cup {x} : v[y] \in Int /\ w[y] \in Int
    BY FS_Subset
  <2>2. SumFunctionOnSet(v, T \cup {x}) = v[x] + SumFunctionOnSet(v, T)
    BY <2>1, SumAdd
  <2>3. SumFunctionOnSet(w, T \cup {x}) = w[x] + SumFunctionOnSet(w, T)
    BY <2>1, SumAdd
  <2> QED BY <1>2, <2>2, <2>3
<1> QED
  <2> HIDE DEF Good
  <2>1. S \in Good
    BY <1>1, <1>2, FiniteBySteps
  <2> QED BY <2>1 DEF Good

(* Sums of natural numbers are natural numbers.                            *)
THEOREM SumNat ==
  ASSUME NEW S, IsFiniteSet(S), NEW v, \A x \in S : v[x] \in Nat
  PROVE  SumFunctionOnSet(v, S) \in Nat
<1> DEFINE Good == { T \in SUBSET S : SumFunctionOnSet(v, T) \in Nat }
<1>1. {} \in Good
  BY SumEmpty
<1>2. ASSUME NEW T \in SUBSET S, NEW x \in S \ T, T \in Good PROVE T \cup {x} \in Good
  <2>1. IsFiniteSet(T) /\ x \notin T /\ \A y \in T \cup {x} : v[y] \in Int
    BY FS_Subset
  <2>2. SumFunctionOnSet(v, T \cup {x}) = v[x] + SumFunctionOnSet(v, T)
    BY <2>1, SumAdd
  <2> QED BY <1>2, <2>2
<1> QED
  <2> HIDE DEF Good
  <2>1. S \in Good
    BY <1>1, <1>2, FiniteBySteps
  <2> QED BY <2>1 DEF Good

(* None of the values, all natural, exceeds their sum.                     *)
THEOREM SumBound ==
  ASSUME NEW S, IsFiniteSet(S), NEW v, \A x \in S : v[x] \in Nat, NEW x \in S
  PROVE  v[x] <= SumFunctionOnSet(v, S)
<1>1. SumFunctionOnSet(v, S) = v[x] + SumFunctionOnSet(v, S \ {x})
  BY SumRemove
<1>2. SumFunctionOnSet(v, S \ {x}) \in Nat
  BY SumNat, FS_RemoveElement
<1> QED BY <1>1, <1>2

(* A value that changes changes the sum by as much.                        *)
THEOREM SumUpdate ==
  ASSUME NEW S, IsFiniteSet(S), NEW v, NEW w, NEW x \in S,
         \A y \in S : v[y] \in Int /\ w[y] \in Int, \A y \in S \ {x} : w[y] = v[y]
  PROVE  SumFunctionOnSet(w, S) = SumFunctionOnSet(v, S) - v[x] + w[x]
<1>1. IsFiniteSet(S \ {x})
  BY FS_RemoveElement
<1>2. SumFunctionOnSet(v, S) = v[x] + SumFunctionOnSet(v, S \ {x})
  BY SumRemove
<1>3. SumFunctionOnSet(w, S) = w[x] + SumFunctionOnSet(w, S \ {x})
  BY SumRemove
<1>4. SumFunctionOnSet(v, S \ {x}) = SumFunctionOnSet(w, S \ {x})
  BY <1>1, SumSame
<1>5. SumFunctionOnSet(v, S \ {x}) \in Int
  BY <1>1, SumType
<1> QED BY <1>2, <1>3, <1>4, <1>5

(* Larger values have a larger sum.                                        *)
THEOREM SumMonotone ==
  ASSUME NEW S, IsFiniteSet(S), NEW v, NEW w, \A x \in S : v[x] \in Int /\ w[x] \in Int /\ v[x] <= w[x]
  PROVE  SumFunctionOnSet(v, S) <= SumFunctionOnSet(w, S)
<1> DEFINE Good == { T \in SUBSET S : SumFunctionOnSet(v, T) <= SumFunctionOnSet(w, T) }
<1>1. {} \in Good
  BY SumEmpty
<1>2. ASSUME NEW T \in SUBSET S, NEW x \in S \ T, T \in Good PROVE T \cup {x} \in Good
  <2>1. IsFiniteSet(T) /\ x \notin T /\ \A y \in T \cup {x} : v[y] \in Int /\ w[y] \in Int
    BY FS_Subset
  <2>2. SumFunctionOnSet(v, T \cup {x}) = v[x] + SumFunctionOnSet(v, T)
    BY <2>1, SumAdd
  <2>3. SumFunctionOnSet(w, T \cup {x}) = w[x] + SumFunctionOnSet(w, T)
    BY <2>1, SumAdd
  <2>4. SumFunctionOnSet(v, T) \in Int /\ SumFunctionOnSet(w, T) \in Int
    BY <2>1, SumType
  <2>5. v[x] \in Int /\ w[x] \in Int /\ v[x] <= w[x]
    OBVIOUS
  <2> QED BY <1>2, <2>2, <2>3, <2>4, <2>5
<1> QED
  <2> HIDE DEF Good
  <2>1. S \in Good
    BY <1>1, <1>2, FiniteBySteps
  <2> QED BY <2>1 DEF Good

(* The sum of v + k * w is the sum of v and k times the sum of w.          *)
THEOREM SumLinear ==
  ASSUME NEW S, IsFiniteSet(S), NEW v, NEW w, NEW u, NEW k \in Int,
         \A x \in S : v[x] \in Int /\ w[x] \in Int /\ u[x] = v[x] + k * w[x]
  PROVE  SumFunctionOnSet(u, S) = SumFunctionOnSet(v, S) + k * SumFunctionOnSet(w, S)
<1> DEFINE Good == { T \in SUBSET S :
                       SumFunctionOnSet(u, T) = SumFunctionOnSet(v, T) + k * SumFunctionOnSet(w, T) }
<1>1. {} \in Good
  BY SumEmpty
<1>2. ASSUME NEW T \in SUBSET S, NEW x \in S \ T, T \in Good PROVE T \cup {x} \in Good
  <2>0. \A y \in S : k * w[y] \in Int
    OBVIOUS
  <2>1. IsFiniteSet(T) /\ x \notin T /\ \A y \in T \cup {x} : v[y] \in Int /\ w[y] \in Int /\ u[y] \in Int
    BY <2>0, FS_Subset
  <2>2. SumFunctionOnSet(v, T \cup {x}) = v[x] + SumFunctionOnSet(v, T)
    BY <2>1, SumAdd
  <2>3. SumFunctionOnSet(w, T \cup {x}) = w[x] + SumFunctionOnSet(w, T)
    BY <2>1, SumAdd
  <2>4. SumFunctionOnSet(u, T \cup {x}) = u[x] + SumFunctionOnSet(u, T)
    BY <2>1, SumAdd
  <2>5. SumFunctionOnSet(v, T) \in Int /\ SumFunctionOnSet(w, T) \in Int
    BY <2>1, SumType
  <2>6. v[x] \in Int /\ w[x] \in Int /\ u[x] = v[x] + k * w[x]
    OBVIOUS
  <2>7. k * (w[x] + SumFunctionOnSet(w, T)) = k * w[x] + k * SumFunctionOnSet(w, T)
    BY <2>5, <2>6
  <2>8. k * w[x] \in Int /\ k * SumFunctionOnSet(w, T) \in Int
    BY <2>5, <2>6
  <2>9. SumFunctionOnSet(u, T) = SumFunctionOnSet(v, T) + k * SumFunctionOnSet(w, T)
    BY <1>2
  <2>10. SumFunctionOnSet(u, T \cup {x})
           = SumFunctionOnSet(v, T \cup {x}) + k * SumFunctionOnSet(w, T \cup {x})
    BY <2>2, <2>3, <2>4, <2>5, <2>6, <2>7, <2>8, <2>9
  <2> QED BY <2>10
<1> QED
  <2> HIDE DEF Good
  <2>1. S \in Good
    BY <1>1, <1>2, FiniteBySteps
  <2> QED BY <2>1 DEF Good

-----------------------------------------------------------------------------
(* The concatenation of sequences of elements of a set is one.             *)
Joins(seqs, f, n) == f = [i \in 1 .. n |-> IF i = 1 THEN seqs[i] ELSE f[i-1] \o seqs[i]]

(* FlattenSeq is defined by a function; there is one on each beginning of  *)
(* the sequences.                                                          *)
LEMMA JoinsExists ==
  ASSUME NEW S, NEW seqs \in Seq(Seq(S)), NEW n \in Nat, n <= Len(seqs)
  PROVE  \E f : Joins(seqs, f, n)
<1> DEFINE N == { k \in Nat : k <= Len(seqs) => \E f : Joins(seqs, f, k) }
<1>1. 0 \in N
  <2>1. \A f : Joins(seqs, f, 0) <=> f = [i \in {} |-> 0]
    BY DEF Joins
  <2> QED BY <2>1
<1>2. ASSUME NEW k \in N PROVE k + 1 \in N
  <2> SUFFICES ASSUME k + 1 <= Len(seqs) PROVE \E f : Joins(seqs, f, k + 1)
    OBVIOUS
  <2>0. k \in Nat /\ Len(seqs) \in Nat
    OBVIOUS
  <2>1. PICK f : Joins(seqs, f, k)
    BY <2>0
  <2> DEFINE g == [i \in 1 .. k + 1 |-> IF i = 1 THEN seqs[i] ELSE f[i-1] \o seqs[i]]
  <2>2. ASSUME NEW i \in 1 .. k PROVE i \in 1 .. k + 1 /\ g[i] = f[i]
    <3>1. f[i] = IF i = 1 THEN seqs[i] ELSE f[i-1] \o seqs[i]
      BY <2>1 DEF Joins
    <3>2. i \in 1 .. k + 1
      BY <2>0
    <3> QED BY <3>1, <3>2
  <2>3. \A i \in 1 .. k + 1 : i # 1 => i - 1 \in 1 .. k
    BY <2>0
  <2>4. g = [i \in 1 .. k + 1 |-> IF i = 1 THEN seqs[i] ELSE g[i-1] \o seqs[i]]
    <3> DEFINE h == [i \in 1 .. k + 1 |-> IF i = 1 THEN seqs[i] ELSE g[i-1] \o seqs[i]]
    <3>1. \A i \in 1 .. k + 1 : h[i] = IF i = 1 THEN seqs[i] ELSE g[i-1] \o seqs[i]
      OBVIOUS
    <3>2. \A i \in 1 .. k + 1 : g[i] = IF i = 1 THEN seqs[i] ELSE f[i-1] \o seqs[i]
      OBVIOUS
    <3>3. ASSUME NEW i \in 1 .. k + 1 PROVE g[i] = h[i]
      <4> HIDE DEF g, h
      <4>1. CASE i = 1
        BY <3>1, <3>2, <4>1
      <4>2. CASE i # 1
        <5>1. g[i-1] = f[i-1]
          BY <2>2, <2>3, <4>2
        <5>2. h[i] = g[i-1] \o seqs[i] /\ g[i] = f[i-1] \o seqs[i]
          BY <3>1, <3>2, <4>2
        <5> QED BY <5>1, <5>2
      <4> QED BY <4>1, <4>2
    <3> QED BY <3>3
  <2> HIDE DEF g
  <2> QED BY <2>4 DEF Joins
<1>3. N = Nat
  <2> HIDE DEF N
  <2>1. N \subseteq Nat
    BY DEF N
  <2> QED BY <1>1, <1>2, <2>1, NaturalsBySteps
<1> QED BY <1>3

(* The concatenation of sequences over S is a sequence over S.             *)
THEOREM FlattenType ==
  ASSUME NEW S, NEW seqs \in Seq(Seq(S))
  PROVE  FlattenSeq(seqs) \in Seq(S)
<1>0. Len(seqs) \in Nat
  OBVIOUS
<1>1. CASE Len(seqs) = 0
  <2>1. FlattenSeq(seqs) = seqs
    BY <1>1 DEF FlattenSeq
  <2>2. seqs = << >>
    BY <1>1
  <2> QED BY <2>1, <2>2
<1>2. CASE Len(seqs) # 0
  <2> DEFINE n == Len(seqs)
             f == CHOOSE f : Joins(seqs, f, n)
  <2>1. Joins(seqs, f, n)
    BY <1>0, JoinsExists
  <2>2. FlattenSeq(seqs) = f[n]
    BY <1>2 DEF FlattenSeq, Joins
  <2> HIDE DEF f
  <2> DEFINE N == { k \in Nat : k + 1 <= n => f[k + 1] \in Seq(S) }
  <2>3. \A i \in 1 .. n : seqs[i] \in Seq(S)
    OBVIOUS
  <2>4. \A i \in 1 .. n : f[i] = IF i = 1 THEN seqs[i] ELSE f[i-1] \o seqs[i]
    BY <2>1 DEF Joins
  <2>5. 0 \in N
    BY <1>0, <1>2, <2>3, <2>4
  <2>6. ASSUME NEW k \in N PROVE k + 1 \in N
    <3> SUFFICES ASSUME (k + 1) + 1 <= n PROVE f[(k + 1) + 1] \in Seq(S)
      OBVIOUS
    <3>1. k \in Nat /\ f[k + 1] \in Seq(S) /\ (k + 1) + 1 \in 1 .. n
      BY <1>0
    <3> DEFINE j == (k + 1) + 1
    <3>2. j # 1 /\ j - 1 = k + 1 /\ j \in 1 .. n
      BY <3>1
    <3> HIDE DEF j, N
    <3>3. f[j] = f[j - 1] \o seqs[j] /\ seqs[j] \in Seq(S)
      BY <2>3, <2>4, <3>2
    <3>4. f[j] \in Seq(S)
      BY <3>1, <3>2, <3>3
    <3> QED BY <3>4 DEF j
  <2>7. N = Nat
    <3> HIDE DEF N
    <3>1. N \subseteq Nat
      BY DEF N
    <3> QED BY <2>5, <2>6, <3>1, NaturalsBySteps
  <2>8. n - 1 \in Nat /\ (n - 1) + 1 = n
    BY <1>0, <1>2
  <2>9. n - 1 \in N => f[(n - 1) + 1] \in Seq(S)
    BY <2>8
  <2> QED BY <2>2, <2>7, <2>8, <2>9
<1> QED BY <1>1, <1>2

(* A finite set of numbers has a greatest one.                             *)
THEOREM MaxOfFinite ==
  ASSUME NEW S, IsFiniteSet(S), S \subseteq Int, S # {}
  PROVE  Max(S) \in S /\ \A x \in S : x <= Max(S)
<1> DEFINE Has(T) == T = {} \/ \E m \in T : \A x \in T : x <= m
           Good == { T \in SUBSET S : Has(T) }
<1>1. {} \in Good
  OBVIOUS
<1>2. ASSUME NEW T \in SUBSET S, NEW x \in S \ T, T \in Good PROVE T \cup {x} \in Good
  <2>1. CASE T = {}
    BY <2>1
  <2>2. CASE T # {}
    <3>1. PICK m \in T : \A y \in T : y <= m
      BY <1>2, <2>2
    <3>2. x \in Int /\ m \in Int /\ T \subseteq Int
      OBVIOUS
    <3>3. CASE x <= m
      <4>1. \A y \in T \cup {x} : y <= m
        BY <3>1, <3>3
      <4> QED BY <3>1, <4>1
    <3>4. CASE m <= x
      <4>1. \A y \in T \cup {x} : y <= x
        BY <3>1, <3>2, <3>4
      <4> QED BY <4>1
    <3> QED BY <3>2, <3>3, <3>4
  <2> QED BY <2>1, <2>2
<1>3. S \in Good
  <2> HIDE DEF Good
  <2> QED BY <1>1, <1>2, FiniteBySteps
<1>4. PICK m \in S : \A x \in S : x <= m
  BY <1>3
<1> QED BY <1>4 DEF Max

(* Zeros add up to nothing, and ones to as many as there are.              *)
THEOREM SumZero ==
  ASSUME NEW S, IsFiniteSet(S), NEW v, \A x \in S : v[x] = 0
  PROVE  SumFunctionOnSet(v, S) = 0
<1> DEFINE n == SumFunctionOnSet(v, S)
<1>1. n = n + 1 * n
  BY SumLinear
<1>2. n \in Int
  BY SumType
<1> HIDE DEF n
<1>3. n = 0
  BY <1>1, <1>2
<1> QED BY <1>3 DEF n

(* Counting is adding ones.                                                *)
THEOREM SumOnes ==
  ASSUME NEW S, IsFiniteSet(S), NEW P, P \subseteq S, NEW v, \A x \in S : v[x] = IF x \in P THEN 1 ELSE 0
  PROVE  SumFunctionOnSet(v, S) = Cardinality(P)
<1> DEFINE Good == { T \in SUBSET S : SumFunctionOnSet(v, T) = Cardinality(P \cap T) }
<1>1. {} \in Good
  <2>1. P \cap {} = {}
    OBVIOUS
  <2> QED BY <2>1, SumEmpty, FS_EmptySet
<1>2. ASSUME NEW T \in SUBSET S, NEW x \in S \ T, T \in Good PROVE T \cup {x} \in Good
  <2>1. IsFiniteSet(T) /\ x \notin T /\ \A y \in T \cup {x} : v[y] \in Int
    BY FS_Subset
  <2>2. SumFunctionOnSet(v, T \cup {x}) = v[x] + SumFunctionOnSet(v, T)
    BY <2>1, SumAdd
  <2>3. IsFiniteSet(P \cap T) /\ Cardinality(P \cap T) \in Nat /\ x \notin P \cap T
    BY <2>1, FS_Subset, FS_CardinalityType
  <2>4. CASE x \in P
    <3>1. P \cap (T \cup {x}) = (P \cap T) \cup {x}
      BY <2>4
    <3>2. Cardinality((P \cap T) \cup {x}) = Cardinality(P \cap T) + 1
      BY <2>3, FS_AddElement
    <3>3. v[x] = 1
      BY <2>4
    <3> QED BY <1>2, <2>2, <2>3, <3>1, <3>2, <3>3
  <2>5. CASE x \notin P
    <3>1. P \cap (T \cup {x}) = P \cap T
      BY <2>5
    <3>2. v[x] = 0
      BY <2>5
    <3>3. SumFunctionOnSet(v, T) = Cardinality(P \cap T)
      BY <1>2
    <3>4. SumFunctionOnSet(v, T \cup {x}) = Cardinality(P \cap T)
      <4> DEFINE c == Cardinality(P \cap T)
                 s == SumFunctionOnSet(v, T)
      <4>1. c \in Nat /\ s = c
        BY <2>3, <3>3
      <4>2. SumFunctionOnSet(v, T \cup {x}) = 0 + s
        BY <2>2, <3>2
      <4> HIDE DEF c, s
      <4>3. SumFunctionOnSet(v, T \cup {x}) = c
        BY <4>1, <4>2
      <4> QED BY <4>3 DEF c
    <3> QED BY <3>1, <3>4
  <2> QED BY <2>4, <2>5
<1>3. S \in Good
  <2> HIDE DEF Good
  <2> QED BY <1>1, <1>2, FiniteBySteps
<1>4. P \cap S = P
  OBVIOUS
<1> QED BY <1>3, <1>4

(* Every element is counted where f sends it.                              *)
THEOREM SumClasses ==
  ASSUME NEW S, IsFiniteSet(S), NEW f
  PROVE  SumFunctionOnSet([a \in S |-> Cardinality({ b \in S : f[b] = a })], S)
           = Cardinality({ b \in S : f[b] \in S })
<1> DEFINE Class(T, a) == { b \in T : f[b] = a }
           Counts(T) == [a \in S |-> Cardinality(Class(T, a))]
           Sent(T) == { b \in T : f[b] \in S }
           Good == { T \in SUBSET S : SumFunctionOnSet(Counts(T), S) = Cardinality(Sent(T)) }
<1>1. {} \in Good
  <2>1. Sent({}) = {} /\ \A a \in S : Class({}, a) = {}
    OBVIOUS
  <2>2. \A a \in S : Counts({})[a] = 0
    BY <2>1, FS_EmptySet
  <2>3. SumFunctionOnSet(Counts({}), S) = 0
    <3> HIDE DEF Counts
    <3> QED BY <2>2, SumZero
  <2> QED BY <2>1, <2>3, FS_EmptySet
<1>2. ASSUME NEW T \in SUBSET S, NEW x \in S \ T, T \in Good PROVE T \cup {x} \in Good
  <2> DEFINE v == Counts(T)
             w == Counts(T \cup {x})
  <2>1. IsFiniteSet(T) /\ x \notin T
    BY FS_Subset
  <2>2. IsFiniteSet(Sent(T)) /\ Cardinality(Sent(T)) \in Nat
    BY <2>1, FS_Subset, FS_CardinalityType
  <2>3. \A a \in S : IsFiniteSet(Class(T, a)) /\ Cardinality(Class(T, a)) \in Nat
    BY <2>1, FS_Subset, FS_CardinalityType
  <2>4. \A a \in S : a # f[x] => Class(T \cup {x}, a) = Class(T, a)
    OBVIOUS
  <2>5. \A a \in S : v[a] = Cardinality(Class(T, a)) /\ w[a] = Cardinality(Class(T \cup {x}, a))
    OBVIOUS
  <2>6. CASE f[x] \in S
    <3>1. Class(T \cup {x}, f[x]) = Class(T, f[x]) \cup {x} /\ x \notin Class(T, f[x])
      BY <2>1
    <3>2. Sent(T \cup {x}) = Sent(T) \cup {x} /\ x \notin Sent(T)
      BY <2>1, <2>6
    <3>3. IsFiniteSet(Class(T, f[x])) /\ Cardinality(Class(T, f[x])) \in Nat
      BY <2>3, <2>6
    <3> HIDE DEF Class, Sent
    <3>4. Cardinality(Class(T \cup {x}, f[x])) = Cardinality(Class(T, f[x])) + 1
      BY <3>1, <3>3, FS_AddElement
    <3>5. Cardinality(Sent(T \cup {x})) = Cardinality(Sent(T)) + 1
      BY <2>2, <3>2, FS_AddElement
    <3> HIDE DEF v, w
    <3>6. w[f[x]] = v[f[x]] + 1
      BY <2>5, <2>6, <3>4
    <3>7. \A y \in S \ {f[x]} : w[y] = v[y]
      BY <2>4, <2>5
    <3>8. \A y \in S : v[y] \in Int
      BY <2>3, <2>5
    <3>9. \A y \in S : w[y] \in Int
      <4> SUFFICES ASSUME NEW y \in S PROVE w[y] \in Int
        OBVIOUS
      <4>1. CASE y = f[x]
        BY <2>6, <3>6, <3>8, <4>1
      <4>2. CASE y # f[x]
        BY <3>7, <3>8, <4>2
      <4> QED BY <4>1, <4>2
    <3>10. SumFunctionOnSet(w, S) = SumFunctionOnSet(v, S) - v[f[x]] + w[f[x]]
      <4> DEFINE a == f[x]
      <4>1. a \in S /\ \A y \in S \ {a} : w[y] = v[y]
        BY <2>6, <3>7
      <4>2. \A y \in S : v[y] \in Int /\ w[y] \in Int
        BY <3>8, <3>9
      <4> HIDE DEF a
      <4>3. SumFunctionOnSet(w, S) = SumFunctionOnSet(v, S) - v[a] + w[a]
        BY <4>1, <4>2, SumUpdate
      <4> QED BY <4>3 DEF a
    <3>11. SumFunctionOnSet(v, S) \in Int /\ v[f[x]] \in Int
      BY <2>6, <3>8, SumType
    <3>12. SumFunctionOnSet(v, S) = Cardinality(Sent(T))
      BY <1>2 DEF v
    <3>13. SumFunctionOnSet(w, S) = Cardinality(Sent(T \cup {x}))
      BY <2>2, <3>5, <3>6, <3>10, <3>11, <3>12
    <3> QED BY <3>13 DEF w
  <2>7. CASE f[x] \notin S
    <3>1. Sent(T \cup {x}) = Sent(T)
      BY <2>7
    <3>2. \A a \in S : Class(T \cup {x}, a) = Class(T, a)
      BY <2>7
    <3>3. Counts(T \cup {x}) = Counts(T)
      BY <3>2
    <3> HIDE DEF Counts, Sent
    <3> QED BY <1>2, <3>1, <3>3
  <2> QED BY <2>6, <2>7
<1>3. S \in Good
  <2> HIDE DEF Good
  <2> QED BY <1>1, <1>2, FiniteBySteps
<1> QED BY <1>3

(* The lesser of two numbers.                                              *)
THEOREM MinOfPair ==
  ASSUME NEW a \in Int, NEW b \in Int
  PROVE  Min({a, b}) \in Int /\ Min({a, b}) <= a /\ Min({a, b}) <= b
<1>1. \E m \in {a, b} : \A x \in {a, b} : m <= x
  OBVIOUS
<1> QED BY <1>1 DEF Min

(* The values of a function over a finite set are finite in number.        *)
THEOREM FiniteImage ==
  ASSUME NEW S, IsFiniteSet(S), NEW f
  PROVE  IsFiniteSet({ f[x] : x \in S })
<1> DEFINE T == { f[x] : x \in S }
           g == [x \in S |-> f[x]]
<1>1. g \in Surjection(S, T)
  BY DEF Surjection
<1> HIDE DEF g, T
<1>2. IsFiniteSet(T)
  BY <1>1, FS_Surjection
<1> QED BY <1>2 DEF T

(* The sum of two functions, and of multiples of one.                      *)
THEOREM SumPlus ==
  ASSUME NEW S, IsFiniteSet(S), NEW v, NEW w, NEW u,
         \A x \in S : v[x] \in Int /\ w[x] \in Int /\ u[x] = v[x] + w[x]
  PROVE  SumFunctionOnSet(u, S) = SumFunctionOnSet(v, S) + SumFunctionOnSet(w, S)
<1> DEFINE k == 1
<1>1. k \in Int /\ \A x \in S : v[x] \in Int /\ w[x] \in Int /\ u[x] = v[x] + k * w[x]
  OBVIOUS
<1> HIDE DEF k
<1>2. SumFunctionOnSet(u, S) = SumFunctionOnSet(v, S) + k * SumFunctionOnSet(w, S)
  BY <1>1, SumLinear
<1>3. SumFunctionOnSet(w, S) \in Int
  BY SumType
<1> QED BY <1>2, <1>3 DEF k

THEOREM SumTimes ==
  ASSUME NEW S, IsFiniteSet(S), NEW k \in Int, NEW w, NEW u,
         \A x \in S : w[x] \in Int /\ u[x] = k * w[x]
  PROVE  SumFunctionOnSet(u, S) = k * SumFunctionOnSet(w, S)
<1> DEFINE v == [x \in S |-> 0]
<1>1. \A x \in S : v[x] \in Int /\ w[x] \in Int /\ u[x] = v[x] + k * w[x]
  OBVIOUS
<1>2. SumFunctionOnSet(v, S) = 0
  BY SumZero
<1> HIDE DEF v
<1>3. SumFunctionOnSet(u, S) = SumFunctionOnSet(v, S) + k * SumFunctionOnSet(w, S)
  BY <1>1, SumLinear
<1>4. SumFunctionOnSet(w, S) \in Int
  BY SumType
<1> QED BY <1>2, <1>3, <1>4

Below(S, R, x) == { y \in S : <<y, x>> \in R }
OrderOn(S, R) ==
  /\ \A x \in S : <<x, x>> \notin R
  /\ \A x, y \in S : x = y \/ <<x, y>> \in R \/ <<y, x>> \in R
  /\ \A x, y, z \in S : <<x, y>> \in R /\ <<y, z>> \in R => <<x, z>> \in R
Ranks(S, R) == [x \in S |-> Cardinality(Below(S, R, x))]

(* In a finite set that is ordered, the numbers of elements below each one *)
(* are those from 0 to all but one, each once.                             *)
THEOREM RanksAreAll ==
  ASSUME NEW S, IsFiniteSet(S), NEW R, OrderOn(S, R)
  PROVE  Ranks(S, R) \in Bijection(S, 0 .. Cardinality(S) - 1)
<1> DEFINE n == Cardinality(S)
           f == Ranks(S, R)
<1>1. n \in Nat
  BY FS_CardinalityType
<1>2. \A x \in S : IsFiniteSet(Below(S, R, x)) /\ f[x] \in 0 .. n - 1
  <2> TAKE x \in S
  <2>1. Below(S, R, x) \in SUBSET (S \ {x})
    BY DEF Below, OrderOn
  <2>2. IsFiniteSet(S \ {x}) /\ Cardinality(S \ {x}) = n - 1
    BY FS_RemoveElement
  <2>3. IsFiniteSet(Below(S, R, x)) /\ Cardinality(Below(S, R, x)) <= n - 1
    BY <2>1, <2>2, FS_Subset
  <2>4. Cardinality(Below(S, R, x)) \in Nat
    BY <2>3, FS_CardinalityType
  <2> QED BY <1>1, <2>3, <2>4 DEF Ranks
<1>3. ASSUME NEW x \in S, NEW y \in S, <<x, y>> \in R PROVE f[x] # f[y]
  <2>1. Below(S, R, x) \in SUBSET Below(S, R, y)
    BY <1>3 DEF Below, OrderOn
  <2>2. x \in Below(S, R, y) /\ x \notin Below(S, R, x)
    BY <1>3 DEF Below, OrderOn
  <2>3. Cardinality(Below(S, R, x)) # Cardinality(Below(S, R, y))
    BY <1>2, <2>1, <2>2, FS_Subset
  <2> QED BY <2>3 DEF Ranks
<1>4. \A x, y \in S : x # y => f[x] # f[y]
  BY <1>3 DEF OrderOn
<1>5. f \in [S -> 0 .. n - 1]
  BY <1>2 DEF Ranks
<1>6. f \in Injection(S, 0 .. n - 1)
  BY <1>4, <1>5 DEF Injection, IsInjective
<1>7. IsFiniteSet(0 .. n - 1) /\ Cardinality(0 .. n - 1) = n
  BY <1>1, FS_Interval
<1>8. f \in Surjection(S, 0 .. n - 1)
  BY <1>6, <1>7, FS_Injection
<1> QED BY <1>6, <1>8 DEF Bijection

(* As many of them are below a number as the number says.                  *)
THEOREM RanksBelow ==
  ASSUME NEW S, IsFiniteSet(S), NEW R, OrderOn(S, R), NEW m \in Nat, m <= Cardinality(S)
  PROVE  Cardinality({ x \in S : Ranks(S, R)[x] < m }) = m
<1> DEFINE n == Cardinality(S)
           f == Ranks(S, R)
           T == { x \in S : f[x] < m }
           g == [x \in T |-> f[x]]
<1>1. n \in Nat /\ f \in Bijection(S, 0 .. n - 1)
  BY FS_CardinalityType, RanksAreAll
<1>2. /\ f \in [S -> 0 .. n - 1] /\ \A k \in 0 .. n - 1 : \E x \in S : f[x] = k
      /\ \A x, y \in S : f[x] = f[y] => x = y
  BY <1>1 DEF Bijection, Injection, Surjection, IsInjective
<1> HIDE DEF f
<1>3. g \in [T -> 0 .. m - 1]
  BY <1>1, <1>2
<1>4. \A x, y \in T : g[x] = g[y] => x = y
  BY <1>2
<1>5. \A k \in 0 .. m - 1 : \E x \in T : g[x] = k
  <2> TAKE k \in 0 .. m - 1
  <2>1. k \in 0 .. n - 1 /\ k < m
    BY <1>1
  <2>2. PICK x \in S : f[x] = k
    BY <1>2, <2>1
  <2>3. x \in T /\ g[x] = k
    BY <2>1, <2>2
  <2> QED BY <2>3
<1> HIDE DEF g
<1>6. g \in Injection(T, 0 .. m - 1) /\ g \in Surjection(T, 0 .. m - 1)
  BY <1>3, <1>4, <1>5 DEF Injection, Surjection, IsInjective
<1>7. IsFiniteSet(0 .. m - 1) /\ Cardinality(0 .. m - 1) = m
  BY FS_Interval
<1>8. Cardinality(T) = Cardinality(0 .. m - 1)
  BY <1>6, <1>7, FS_Injection
<1> QED BY <1>7, <1>8 DEF f

-----------------------------------------------------------------------------
(* Rings: an array of n slots, of which `next` is written next, that keeps *)
(* the newest elements of a sequence. The one of age a is in RingSlot.     *)
RingSlot(next, a, n) == IF a < next THEN next - 1 - a ELSE next - 1 - a + n
RingHolds(ring, next, seq, unset, n) ==
  \A a \in 0 .. n - 1 :
    ring[RingSlot(next, a, n)] = IF a < Len(seq) THEN seq[Len(seq) - a] ELSE unset

(* The slot after the last is the first.                                   *)
LEMMA NextInRing ==
  ASSUME NEW n \in Nat \ {0}, NEW s \in 0 .. n - 1
  PROVE  (s + 1) % n = IF s = n - 1 THEN 0 ELSE s + 1
<1>1. CASE s = n - 1
  BY <1>1
<1>2. CASE s # n - 1
  BY <1>2
<1> QED BY <1>1, <1>2

(* Appending to a sequence ages its elements, counted from the end, by one.*)
LEMMA AppendAges ==
  ASSUME NEW S, NEW seq \in Seq(S), NEW e \in S, NEW a \in Nat \ {0}
  PROVE  LET longer == Append(seq, e)
         IN  /\ a < Len(longer) <=> a - 1 < Len(seq)
             /\ a < Len(longer) => longer[Len(longer) - a] = seq[Len(seq) - (a - 1)]
<1>1. Len(Append(seq, e)) = Len(seq) + 1 /\ Len(seq) \in Nat
  OBVIOUS
<1>2. ASSUME a - 1 < Len(seq)
      PROVE  Append(seq, e)[Len(seq) - (a - 1)] = seq[Len(seq) - (a - 1)]
  BY <1>1, <1>2
<1>3. Len(Append(seq, e)) - a = Len(seq) - (a - 1)
  BY <1>1
<1> QED BY <1>1, <1>2, <1>3

(* Writing the next slot keeps the ring what the newest elements are.      *)
THEOREM RingStep ==
  ASSUME NEW n \in Nat \ {0}, NEW S, NEW ring \in [0 .. n - 1 -> S], NEW next \in 0 .. n - 1,
         NEW seq \in Seq(S), NEW unset, RingHolds(ring, next, seq, unset, n), NEW e \in S
  PROVE  RingHolds([ring EXCEPT ![next] = e], (next + 1) % n, Append(seq, e), unset, n)
<1> DEFINE then == (next + 1) % n
           ring2 == [ring EXCEPT ![next] = e]
           seq2 == Append(seq, e)
<1>1. then = IF next = n - 1 THEN 0 ELSE next + 1
  BY NextInRing
<1>2. Len(seq2) = Len(seq) + 1 /\ Len(seq) \in Nat /\ seq2[Len(seq) + 1] = e
  OBVIOUS
<1>3. ASSUME NEW a \in 0 .. n - 1
      PROVE  ring2[RingSlot(then, a, n)] = IF a < Len(seq2) THEN seq2[Len(seq2) - a] ELSE unset
  <2>1. CASE a = 0
    <3>1. RingSlot(then, a, n) = next
      BY <1>1, <2>1 DEF RingSlot
    <3>2. ring2[next] = e
      OBVIOUS
    <3> HIDE DEF ring2, seq2, then
    <3> QED BY <1>2, <2>1, <3>1, <3>2
  <2>2. CASE a # 0
    <3>1. /\ a - 1 \in 0 .. n - 1
          /\ RingSlot(then, a, n) = RingSlot(next, a - 1, n)
          /\ RingSlot(next, a - 1, n) \in 0 .. n - 1
          /\ RingSlot(next, a - 1, n) # next
      BY <1>1, <2>2 DEF RingSlot
    <3>2. ring2[RingSlot(then, a, n)] = ring[RingSlot(next, a - 1, n)]
      BY <3>1
    <3>3. ring[RingSlot(next, a - 1, n)] =
            IF a - 1 < Len(seq) THEN seq[Len(seq) - (a - 1)] ELSE unset
      BY <3>1 DEF RingHolds
    <3>4. /\ a < Len(seq2) <=> a - 1 < Len(seq)
          /\ a < Len(seq2) => seq2[Len(seq2) - a] = seq[Len(seq) - (a - 1)]
      <4>1. a \in Nat \ {0}
        BY <2>2
      <4> QED BY <4>1, AppendAges
    <3> HIDE DEF ring2, seq2, then
    <3> QED BY <3>2, <3>3, <3>4
  <2> QED BY <2>1, <2>2
<1> HIDE DEF ring2, seq2, then
<1>4. RingHolds(ring2, then, seq2, unset, n)
  BY <1>3 DEF RingHolds
<1> QED BY <1>4 DEF ring2, seq2, then

(* A ring in which nothing has been written holds no element.              *)
LEMMA RingEmpty ==
  ASSUME NEW n \in Nat \ {0}, NEW unset
  PROVE  RingHolds([s \in 0 .. n - 1 |-> unset], 0, << >>, unset, n)
<1>1. \A a \in 0 .. n - 1 : RingSlot(0, a, n) \in 0 .. n - 1 /\ ~(a < Len(<< >>))
  BY DEF RingSlot
<1> QED BY <1>1 DEF RingHolds

(* What is in the ring, other than in slots never written, are the newest  *)
(* n elements.                                                             *)
THEOREM RingFinds ==
  ASSUME NEW n \in Nat \ {0}, NEW S, NEW ring \in [0 .. n - 1 -> S], NEW next \in 0 .. n - 1,
         NEW seq \in Seq(S), NEW unset, RingHolds(ring, next, seq, unset, n), NEW r, r # unset
  PROVE  (\E s \in 0 .. n - 1 : ring[s] = r)
           <=> \E k \in 1 .. Len(seq) : seq[k] = r /\ Len(seq) - k < n
<1> DEFINE m == Len(seq)
<1>1. m \in Nat
  OBVIOUS
<1>2. ASSUME NEW s \in 0 .. n - 1, ring[s] = r
      PROVE  \E k \in 1 .. m : seq[k] = r /\ m - k < n
  <2> DEFINE a == IF s < next THEN next - 1 - s ELSE next - 1 - s + n
  <2>1. a \in 0 .. n - 1 /\ RingSlot(next, a, n) = s
    BY DEF RingSlot
  <2>2. a < m /\ seq[m - a] = r
    BY <1>2, <2>1 DEF RingHolds
  <2>3. m - a \in 1 .. m /\ m - (m - a) < n
    BY <1>1, <2>1, <2>2
  <2> QED BY <2>2, <2>3
<1>3. ASSUME NEW k \in 1 .. m, seq[k] = r, m - k < n
      PROVE  \E s \in 0 .. n - 1 : ring[s] = r
  <2>1. m - k \in 0 .. n - 1 /\ m - k < m /\ m - (m - k) = k
    BY <1>1, <1>3
  <2>2. ring[RingSlot(next, m - k, n)] = r /\ RingSlot(next, m - k, n) \in 0 .. n - 1
    BY <1>3, <2>1 DEF RingHolds, RingSlot
  <2> QED BY <2>2
<1> QED BY <1>2, <1>3

-----------------------------------------------------------------------------
(* Sequences: their parts, concatenations and prefixes.                     *)

(* Sequences of one length with the same elements are equal.               *)
LEMMA SeqSame ==
  ASSUME NEW S, NEW s \in Seq(S), NEW t \in Seq(S), Len(s) = Len(t), \A i \in 1 .. Len(s) : s[i] = t[i]
  PROVE  s = t
OBVIOUS

(* What a part of a sequence holds.                                        *)
LEMMA PartIs ==
  ASSUME NEW S, NEW s \in Seq(S), NEW m \in Nat \ {0}, NEW n \in Nat, n <= Len(s), m <= n + 1
  PROVE  /\ SubSeq(s, m, n) \in Seq(S) /\ Len(SubSeq(s, m, n)) = n + 1 - m
         /\ \A i \in 1 .. n + 1 - m : SubSeq(s, m, n)[i] = s[m + i - 1]
OBVIOUS

(* What two sequences hold, one after the other.                           *)
LEMMA JoinIs ==
  ASSUME NEW S, NEW s \in Seq(S), NEW t \in Seq(S)
  PROVE  /\ s \o t \in Seq(S) /\ Len(s \o t) = Len(s) + Len(t) /\ Len(s) \in Nat /\ Len(t) \in Nat
         /\ \A i \in 1 .. Len(s) : (s \o t)[i] = s[i]
         /\ \A i \in 1 .. Len(t) : (s \o t)[Len(s) + i] = t[i]
OBVIOUS

(* A part of a sequence grows by one element.                              *)
LEMMA OneMore ==
  ASSUME NEW S, NEW s \in Seq(S), NEW m \in Nat \ {0}, NEW k \in Nat, m <= k + 1, k + 1 <= Len(s)
  PROVE  SubSeq(s, m, k + 1) = Append(SubSeq(s, m, k), s[k + 1]) /\ SubSeq(s, m, k) \in Seq(S) /\ s[k + 1] \in S
OBVIOUS

(* Concatenation is associative, and the empty sequence its unit.          *)
LEMMA ConcatMore ==
  ASSUME NEW S, NEW a \in Seq(S), NEW b \in Seq(S), NEW c \in Seq(S)
  PROVE  a \o (b \o c) = (a \o b) \o c /\ a \o << >> = a /\ << >> \o a = a
OBVIOUS

(* Sequences that agree up to n.                                            *)
StartAlike(s, t, n) == \A i \in 1 .. n : s[i] = t[i]

(* Joins of sequences that begin alike agree on what they share.           *)
LEMMA JoinsAgree ==
  ASSUME NEW m \in Nat, NEW n \in Nat, n <= m, NEW s, NEW t, StartAlike(s, t, n),
         NEW f, NEW g, Joins(s, f, m), Joins(t, g, n)
  PROVE  StartAlike(f, g, n)
<1> USE DEF StartAlike
<1> DEFINE N == { k \in Nat : k + 1 <= n => f[k + 1] = g[k + 1] }
<1>0. /\ \A i \in 1 .. m : f[i] = IF i = 1 THEN s[i] ELSE f[i-1] \o s[i]
      /\ \A i \in 1 .. n : g[i] = IF i = 1 THEN t[i] ELSE g[i-1] \o t[i]
      /\ \A i \in 1 .. n : i \in 1 .. m
  <2> HIDE DEF N
  <2>1. ASSUME NEW i \in 1 .. m PROVE f[i] = IF i = 1 THEN s[i] ELSE f[i-1] \o s[i]
    BY DEF Joins
  <2>2. ASSUME NEW i \in 1 .. n PROVE g[i] = IF i = 1 THEN t[i] ELSE g[i-1] \o t[i]
    BY DEF Joins
  <2>3. \A i \in 1 .. n : i \in 1 .. m
    OBVIOUS
  <2> QED BY <2>1, <2>2, <2>3
<1>1. 0 \in N
  BY <1>0
<1>2. ASSUME NEW k \in N PROVE k + 1 \in N
  <2> SUFFICES ASSUME (k + 1) + 1 <= n PROVE f[(k + 1) + 1] = g[(k + 1) + 1]
    OBVIOUS
  <2> DEFINE j == (k + 1) + 1
  <2>1. j \in 1 .. n /\ j # 1 /\ j - 1 = k + 1 /\ f[k + 1] = g[k + 1]
    OBVIOUS
  <2> HIDE DEF j, N
  <2>2. f[j] = f[j - 1] \o s[j] /\ g[j] = g[j - 1] \o t[j] /\ s[j] = t[j]
    BY <1>0, <2>1
  <2>3. f[j] = g[j]
    BY <2>1, <2>2
  <2> QED BY <2>3 DEF j
<1>3. N = Nat
  <2> HIDE DEF N
  <2>1. N \subseteq Nat
    BY DEF N
  <2> QED BY <1>1, <1>2, <2>1, NaturalsBySteps
<1>4. ASSUME NEW k \in 1 .. n PROVE f[k] = g[k]
  <2>1. k - 1 \in Nat /\ (k - 1) + 1 = k /\ k <= n
    OBVIOUS
  <2>2. k - 1 \in N => f[(k - 1) + 1] = g[(k - 1) + 1]
    BY <2>1
  <2> HIDE DEF N
  <2> QED BY <1>3, <2>1, <2>2
<1> QED BY <1>4

(* One more sequence goes to the end of the concatenation.                 *)
THEOREM FlattenAppend ==
  ASSUME NEW S, NEW seqs \in Seq(Seq(S)), NEW x \in Seq(S)
  PROVE  FlattenSeq(Append(seqs, x)) = FlattenSeq(seqs) \o x
<1> DEFINE n == Len(seqs)
           more == Append(seqs, x)
           f == CHOOSE f : Joins(seqs, f, n)
           g == CHOOSE g : Joins(more, g, n + 1)
<1>0. /\ n \in Nat /\ n + 1 \in Nat /\ more \in Seq(Seq(S)) /\ Len(more) = n + 1 /\ more[n + 1] = x
      /\ \A i \in 1 .. n : more[i] = seqs[i]
  OBVIOUS
<1>1. Joins(seqs, f, n)
  BY <1>0, JoinsExists
<1>2. Joins(more, g, n + 1)
  <2> HIDE DEF more
  <2> QED BY <1>0, JoinsExists
<1>3. FlattenSeq(more) = g[n + 1]
  <2> HIDE DEF more
  <2> QED BY <1>0 DEF FlattenSeq, Joins
<1> HIDE DEF g, more
<1>4. g[n + 1] = IF n + 1 = 1 THEN more[n + 1] ELSE g[(n + 1) - 1] \o more[n + 1]
  <2>1. n + 1 \in 1 .. n + 1
    BY <1>0
  <2> QED BY <1>2, <2>1 DEF Joins
<1>5. CASE n = 0
  <2>1. FlattenSeq(seqs) = seqs /\ seqs = << >>
    BY <1>5 DEF FlattenSeq
  <2>2. g[n + 1] = x
    BY <1>0, <1>4, <1>5
  <2> QED BY <1>3, <2>1, <2>2 DEF more
<1>6. CASE n # 0
  <2>1. FlattenSeq(seqs) = f[n]
    BY <1>6 DEF FlattenSeq, Joins
  <2> HIDE DEF f, n
  <2>2. g[n] = f[n]
    <3>1. n <= n + 1 /\ n \in 1 .. n
      BY <1>0, <1>6
    <3>2. StartAlike(more, seqs, n)
      BY <1>0 DEF StartAlike
    <3>3. PICK m \in Nat : m = n + 1
      BY <1>0
    <3>4. n \in Nat /\ n <= m /\ Joins(more, g, m) /\ Joins(seqs, f, n)
      BY <1>0, <1>1, <1>2, <3>1, <3>3
    <3>5. StartAlike(g, f, n)
      BY ONLY <3>2, <3>4, JoinsAgree
    <3> QED BY <3>1, <3>5 DEF StartAlike
  <2>3. g[n + 1] = g[n] \o x
    BY <1>0, <1>4, <1>6
  <2> QED BY <1>3, <2>1, <2>2, <2>3 DEF more
<1> QED BY <1>5, <1>6

(* Nothing concatenated is nothing.                                        *)
LEMMA FlattenNone == FlattenSeq(<< >>) = << >>
BY DEF FlattenSeq

(* A concatenation can be cut between any two of its sequences.            *)
THEOREM FlattenCut ==
  ASSUME NEW S, NEW seqs \in Seq(Seq(S)), NEW i \in Nat, NEW k \in Nat, i <= k, k <= Len(seqs)
  PROVE  FlattenSeq(SubSeq(seqs, 1, k)) = FlattenSeq(SubSeq(seqs, 1, i)) \o FlattenSeq(SubSeq(seqs, i + 1, k))
<1> DEFINE P(j) == FlattenSeq(SubSeq(seqs, 1, j))
           Q(j) == FlattenSeq(SubSeq(seqs, i + 1, j))
           N == { d \in Nat : i + d <= Len(seqs) => P(i + d) = P(i) \o Q(i + d) }
<1>0. Len(seqs) \in Nat /\ i + 1 \in Nat \ {0} /\ 1 \in Nat \ {0}
  OBVIOUS
<1>t. ASSUME NEW j \in Nat, j <= Len(seqs) PROVE P(j) \in Seq(S) /\ Q(j) \in Seq(S)
  <2>1. SubSeq(seqs, 1, j) \in Seq(Seq(S)) /\ SubSeq(seqs, i + 1, j) \in Seq(Seq(S))
    BY <1>t
  <2> QED BY <2>1, FlattenType
<1>1. 0 \in N
  <2>1. SubSeq(seqs, i + 1, i) = << >>
    OBVIOUS
  <2>2. Q(i) = << >>
    BY <2>1, FlattenNone
  <2>3. P(i) \in Seq(S)
    BY <1>0, <1>t
  <2> HIDE DEF P, Q
  <2>4. P(i) = P(i) \o Q(i)
    BY <2>2, <2>3
  <2> QED BY <2>4
<1>2. ASSUME NEW d \in N PROVE d + 1 \in N
  <2> SUFFICES ASSUME i + (d + 1) <= Len(seqs) PROVE P(i + (d + 1)) = P(i) \o Q(i + (d + 1))
    OBVIOUS
  <2>1. d \in Nat /\ P(i + d) = P(i) \o Q(i + d)
    BY <1>0
  <2>2. PICK j \in Nat : j = i + d
    BY <2>1
  <2>3. j + 1 = i + (d + 1) /\ j + 1 <= Len(seqs) /\ i + 1 <= j + 1 /\ j + 1 \in Nat /\ j <= Len(seqs) /\ i <= Len(seqs)
    BY <1>0, <2>1, <2>2
  <2>4. PICK x \in Seq(S) : x = seqs[j + 1]
    BY <1>0, <2>3
  <2>5. P(j + 1) = P(j) \o x
    <3>1. SubSeq(seqs, 1, j + 1) = Append(SubSeq(seqs, 1, j), x) /\ SubSeq(seqs, 1, j) \in Seq(Seq(S))
      BY <1>0, <2>3, <2>4, OneMore
    <3> QED BY <3>1, FlattenAppend
  <2>6. Q(j + 1) = Q(j) \o x
    <3>1. SubSeq(seqs, i + 1, j + 1) = Append(SubSeq(seqs, i + 1, j), x) /\ SubSeq(seqs, i + 1, j) \in Seq(Seq(S))
      BY <1>0, <2>3, <2>4, OneMore
    <3> QED BY <3>1, FlattenAppend
  <2>7. P(i) \in Seq(S) /\ P(j) \in Seq(S) /\ Q(j) \in Seq(S)
    BY <1>t, <2>3
  <2> HIDE DEF P, Q, N
  <2>8. P(i) \o (Q(j) \o x) = (P(i) \o Q(j)) \o x
    <3>1. PICK a \in Seq(S), b \in Seq(S) : a = P(i) /\ b = Q(j)
      BY <2>7
    <3>2. a \o (b \o x) = (a \o b) \o x
      BY ConcatMore
    <3> QED BY <3>1, <3>2
  <2>9. P(j) = P(i) \o Q(j)
    BY <2>1, <2>2
  <2>10. P(j + 1) = P(i) \o Q(j + 1)
    BY <2>5, <2>6, <2>8, <2>9
  <2> QED BY <2>3, <2>10
<1>3. N = Nat
  <2> HIDE DEF N
  <2>1. N \subseteq Nat
    BY DEF N
  <2> QED BY <1>1, <1>2, <2>1, NaturalsBySteps
<1>4. k - i \in Nat /\ i + (k - i) = k
  OBVIOUS
<1>5. k - i \in N => P(i + (k - i)) = P(i) \o Q(i + (k - i))
  BY <1>4
<1>6. P(k) = P(i) \o Q(k)
  <2> HIDE DEF N, P, Q
  <2> QED BY <1>3, <1>4, <1>5
<1> QED BY <1>6

-----------------------------------------------------------------------------
(* Prefixes.                                                               *)
LEMMA PrefixIs ==
  ASSUME NEW S, NEW s \in Seq(S), NEW t \in Seq(S)
  PROVE  IsPrefix(s, t) <=> Len(s) <= Len(t) /\ \A i \in 1 .. Len(s) : s[i] = t[i]
<1>0. Len(s) \in Nat /\ Len(t) \in Nat
  OBVIOUS
<1>1. SubSeq(s, 1, Len(s)) = s
  OBVIOUS
<1>2. ASSUME Len(s) <= Len(t)
      PROVE  /\ SubSeq(t, 1, Len(s)) \in Seq(S) /\ Len(SubSeq(t, 1, Len(s))) = Len(s)
             /\ \A i \in 1 .. Len(s) : SubSeq(t, 1, Len(s))[i] = t[i]
  BY <1>0, <1>2
<1>3. ASSUME Len(s) <= Len(t), \A i \in 1 .. Len(s) : s[i] = t[i] PROVE s = SubSeq(t, 1, Len(s))
  <2> DEFINE u == SubSeq(t, 1, Len(s))
  <2>1. u \in Seq(S) /\ Len(u) = Len(s) /\ \A i \in 1 .. Len(s) : u[i] = s[i]
    BY <1>2, <1>3
  <2> HIDE DEF u
  <2>2. u = s
    BY <2>1
  <2> QED BY <2>2 DEF u
<1> QED BY <1>1, <1>2, <1>3 DEF IsPrefix

(* A sequence is a prefix of its concatenation with another.               *)
LEMMA PrefixJoin ==
  ASSUME NEW S, NEW s \in Seq(S), NEW t \in Seq(S)
  PROVE  IsPrefix(s, s \o t) /\ s \o t \in Seq(S)
<1>1. s \o t \in Seq(S) /\ Len(s) <= Len(s \o t) /\ \A i \in 1 .. Len(s) : (s \o t)[i] = s[i]
  OBVIOUS
<1> QED BY <1>1, PrefixIs

(* The empty sequence is a prefix of all, and a sequence of itself.        *)
LEMMA PrefixEmpty ==
  ASSUME NEW S, NEW s \in Seq(S)
  PROVE  IsPrefix(<< >>, s) /\ IsPrefix(s, s) /\ (IsPrefix(s, << >>) => s = << >>)
<1>1. << >> \in Seq(S) /\ Len(<< >>) = 0 /\ Len(s) \in Nat
  OBVIOUS
<1>2. ASSUME NEW e \in Seq(S), Len(e) = 0
      PROVE  IsPrefix(e, s) /\ (IsPrefix(s, e) => Len(s) = 0)
  <2>1. IsPrefix(e, s) <=> Len(e) <= Len(s) /\ \A i \in 1 .. Len(e) : e[i] = s[i]
    BY PrefixIs
  <2>2. IsPrefix(s, e) => Len(s) <= Len(e)
    BY PrefixIs
  <2> QED BY <1>1, <1>2, <2>1, <2>2
<1>3. IsPrefix(s, s)
  <2>1. IsPrefix(s, s) <=> Len(s) <= Len(s) /\ \A i \in 1 .. Len(s) : s[i] = s[i]
    BY PrefixIs
  <2> QED BY <1>1, <2>1
<1>4. IsPrefix(<< >>, s) /\ (IsPrefix(s, << >>) => Len(s) = 0)
  BY <1>1, <1>2
<1> QED BY <1>3, <1>4

(* A prefix of a prefix is a prefix.                                       *)
LEMMA PrefixTrans ==
  ASSUME NEW S, NEW s \in Seq(S), NEW t \in Seq(S), NEW u \in Seq(S), IsPrefix(s, t), IsPrefix(t, u)
  PROVE  IsPrefix(s, u)
BY PrefixIs

(* Two prefixes of a sequence are comparable: the shorter is a prefix of   *)
(* the longer.                                                             *)
LEMMA PrefixBoth ==
  ASSUME NEW S, NEW s \in Seq(S), NEW t \in Seq(S), NEW u \in Seq(S), IsPrefix(s, u), IsPrefix(t, u)
  PROVE  /\ Len(s) <= Len(t) => IsPrefix(s, t)
         /\ IsPrefix(s, t) \/ IsPrefix(t, s)
         /\ Len(s) = Len(t) => s = t
<1>0. Len(s) \in Nat /\ Len(t) \in Nat
  OBVIOUS
<1>1. Len(s) <= Len(t) => IsPrefix(s, t)
  BY <1>0, PrefixIs
<1>2. Len(t) <= Len(s) => IsPrefix(t, s)
  BY <1>0, PrefixIs
<1>3. ASSUME Len(s) = Len(t) PROVE s = t
  <2>1. \A i \in 1 .. Len(s) : s[i] = t[i]
    BY <1>0, <1>3, PrefixIs
  <2> QED BY <1>3, <2>1
<1> QED BY <1>0, <1>1, <1>2, <1>3

-----------------------------------------------------------------------------
(* What a concatenation holds.                                             *)
LEMMA RangeJoin ==
  ASSUME NEW S, NEW s \in Seq(S), NEW t \in Seq(S)
  PROVE  Range(s \o t) = Range(s) \cup Range(t) /\ Range(s) \subseteq S
<1>0. /\ Len(s) \in Nat /\ Len(t) \in Nat /\ DOMAIN s = 1 .. Len(s) /\ DOMAIN t = 1 .. Len(t)
      /\ s \o t \in Seq(S) /\ Len(s \o t) = Len(s) + Len(t) /\ DOMAIN (s \o t) = 1 .. Len(s \o t)
      /\ \A i \in 1 .. Len(s) : (s \o t)[i] = s[i] /\ s[i] \in S
      /\ \A i \in 1 .. Len(t) : (s \o t)[Len(s) + i] = t[i]
  OBVIOUS
<1>1. Range(s) = { s[i] : i \in 1 .. Len(s) } /\ Range(t) = { t[i] : i \in 1 .. Len(t) }
  BY <1>0 DEF Range
<1>2. PICK u \in Seq(S) : u = s \o t
  BY <1>0
<1>3. Range(s \o t) = { u[i] : i \in 1 .. Len(s) + Len(t) }
  BY <1>0, <1>2 DEF Range
<1>4. ASSUME NEW x \in Range(s) \cup Range(t) PROVE x \in Range(s \o t)
  <2>1. CASE x \in Range(s)
    <3>1. PICK i \in 1 .. Len(s) : x = s[i]
      BY <1>1, <2>1
    <3>2. i \in 1 .. Len(s) + Len(t) /\ u[i] = x
      BY <1>0, <1>2, <3>1
    <3> QED BY <1>3, <3>2
  <2>2. CASE x \in Range(t)
    <3>1. PICK i \in 1 .. Len(t) : x = t[i]
      BY <1>1, <2>2
    <3>2. Len(s) + i \in 1 .. Len(s) + Len(t) /\ u[Len(s) + i] = x
      BY <1>0, <1>2, <3>1
    <3> QED BY <1>3, <3>2
  <2> QED BY <2>1, <2>2
<1>5. ASSUME NEW x \in Range(s \o t) PROVE x \in Range(s) \cup Range(t)
  <2>1. PICK i \in 1 .. Len(s) + Len(t) : x = u[i]
    BY <1>3
  <2>2. CASE i <= Len(s)
    <3>1. i \in 1 .. Len(s) /\ x = s[i]
      BY <1>0, <1>2, <2>1, <2>2
    <3> QED BY <1>1, <3>1
  <2>3. CASE ~(i <= Len(s))
    <3>1. i - Len(s) \in 1 .. Len(t) /\ i = Len(s) + (i - Len(s))
      BY <1>0, <2>3
    <3>2. x = t[i - Len(s)]
      BY <1>0, <1>2, <2>1, <3>1
    <3> QED BY <1>1, <3>1, <3>2
  <2> QED BY <2>2, <2>3
<1> QED BY <1>0, <1>1, <1>4, <1>5

(* A prefix holds no other elements.                                       *)
LEMMA RangePrefix ==
  ASSUME NEW S, NEW s \in Seq(S), NEW t \in Seq(S), IsPrefix(s, t)
  PROVE  Range(s) \subseteq Range(t)
<1>1. Len(s) <= Len(t) /\ \A i \in 1 .. Len(s) : s[i] = t[i]
  BY PrefixIs
<1>2. DOMAIN s = 1 .. Len(s) /\ DOMAIN t = 1 .. Len(t) /\ Len(s) \in Nat /\ Len(t) \in Nat
  OBVIOUS
<1> QED BY <1>1, <1>2 DEF Range

(* An element of a concatenation is one of some sequence in it.            *)
LEMMA FlattenMember ==
  ASSUME NEW S, NEW seqs \in Seq(Seq(S)), NEW m \in Nat \ {0}, NEW k \in Nat, k <= Len(seqs),
         NEW x \in Range(FlattenSeq(SubSeq(seqs, m, k)))
  PROVE  \E b \in m .. k : x \in Range(seqs[b])
<1> DEFINE P(j) == FlattenSeq(SubSeq(seqs, m, j))
           K == { j \in Nat : j <= Len(seqs) /\ x \in Range(P(j)) }
<1>0. Len(seqs) \in Nat /\ k \in K
  OBVIOUS
<1>1. PICK j \in K : \A i \in K : j <= i
  <2>1. K \subseteq Nat /\ K # {}
    BY <1>0
  <2> HIDE DEF K
  <2> QED BY <2>1, LeastNatural
<1>2. j \in Nat /\ j <= k /\ j <= Len(seqs) /\ x \in Range(P(j))
  BY <1>0, <1>1
<1>3. m <= j
  <2>1. SUFFICES ASSUME j < m PROVE FALSE
    BY <1>2
  <2>2. SubSeq(seqs, m, j) = << >>
    BY <1>2, <2>1
  <2>3. P(j) = << >>
    BY <2>2, FlattenNone
  <2>4. Range(P(j)) = {}
    BY <2>3 DEF Range
  <2> QED BY <1>2, <2>4
<1>4. PICK i \in Nat : j = i + 1
  <2>1. j - 1 \in Nat /\ j = (j - 1) + 1
    BY <1>2, <1>3
  <2> QED BY <2>1
<1>5. SubSeq(seqs, m, i + 1) = Append(SubSeq(seqs, m, i), seqs[i + 1]) /\ SubSeq(seqs, m, i) \in Seq(Seq(S)) /\ seqs[i + 1] \in Seq(S)
  <2>1. m <= i + 1 /\ i + 1 <= Len(seqs)
    BY <1>2, <1>3, <1>4
  <2> QED BY <2>1, OneMore
<1>6. P(j) = P(i) \o seqs[i + 1] /\ P(i) \in Seq(S)
  BY <1>4, <1>5, FlattenAppend, FlattenType
<1>7. Range(P(j)) = Range(P(i)) \cup Range(seqs[i + 1])
  <2> HIDE DEF P
  <2>1. PICK a \in Seq(S), c \in Seq(S) : a = P(i) /\ c = seqs[i + 1]
    BY <1>5, <1>6
  <2>2. Range(a \o c) = Range(a) \cup Range(c)
    BY RangeJoin
  <2> QED BY <1>6, <2>1, <2>2
<1>8. x \notin Range(P(i))
  <2>1. i \in K => j <= i
    BY <1>1
  <2>2. ~(j <= i) /\ i <= Len(seqs)
    BY <1>2, <1>4
  <2> QED BY <2>1, <2>2
<1>9. x \in Range(seqs[j]) /\ j \in m .. k
  <2> HIDE DEF P, K
  <2>1. x \in Range(seqs[i + 1])
    BY <1>2, <1>7, <1>8
  <2> QED BY <2>1, <1>2, <1>3, <1>4
<1> QED BY <1>9

(* The larger of two integers.                                             *)
THEOREM MaxOfPair ==
  ASSUME NEW a \in Int, NEW b \in Int
  PROVE  Max({a, b}) = IF a <= b THEN b ELSE a
<1>1. \E m \in {a, b} : \A x \in {a, b} : x <= m
  OBVIOUS
<1>2. Max({a, b}) \in {a, b} /\ \A x \in {a, b} : x <= Max({a, b})
  BY <1>1 DEF Max
<1> QED BY <1>2
=============================================================================
