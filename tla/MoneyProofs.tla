------------------------------ MODULE MoneyProofs ------------------------------
(* What is divided, capped, granted and sponsored, for any constants: sums over    *)
(* finite sets first, then the services that are about them, and last the Merkle   *)
(* tree the payouts are claimed from.                                              *)
EXTENDS Integers, FiniteSets, Functions, PrizeDivision, FoundingPool, FoundingSettlement, MaintainerPool, Claims,
        EventSettings, MerkleTree, FiniteSetTheorems, WellFoundedInduction, TLAPS

-----------------------------------------------------------------------------
(* What the sums of the community modules do on a finite set of integers, for any *)
(* set. The library's induction theorems take a predicate, which no backend can   *)
(* instantiate; induction is done here on sets, with the least element of what    *)
(* would be left over (WFMin).                                                    *)

LEMMA NatBySets ==
  ASSUME NEW Q \in SUBSET Nat, 0 \in Q, \A n \in Q : n + 1 \in Q
  PROVE  Q = Nat
<1> SUFFICES ASSUME Nat \ Q # {} PROVE FALSE
  OBVIOUS
<1>1. \E n \in Nat \ Q : \A m \in Nat \ Q : ~(<<m, n>> \in OpToRel(<, Nat))
  BY NatLessThanWellFounded, WFMin
<1>2. PICK n \in Nat \ Q : \A m \in Nat \ Q : ~(m < n)
  BY <1>1 DEF OpToRel
<1>3. n # 0 /\ n - 1 \in Nat
  BY <1>2
<1>4. n - 1 \in Q
  BY <1>2, <1>3
<1> QED
  BY <1>2, <1>3, <1>4

LEMMA SmallerByOne ==
  ASSUME NEW T, IsFiniteSet(T), NEW x \in T
  PROVE  IsFiniteSet(T \ {x}) /\ Cardinality(T) \in Nat /\ Cardinality(T \ {x}) \in Nat
         /\ Cardinality(T) = Cardinality(T \ {x}) + 1
<1>1. IsFiniteSet(T \ {x}) /\ Cardinality(T \ {x}) = Cardinality(T) - 1
  BY FS_RemoveElement
<1>2. Cardinality(T) \in Nat /\ Cardinality(T \ {x}) \in Nat
  BY <1>1, FS_CardinalityType
<1> QED
  BY <1>1, <1>2

\* What holds of the empty set and of one element more holds of every subset.
LEMMA SubsetsBySets ==
  ASSUME NEW A, IsFiniteSet(A), NEW W \in SUBSET SUBSET A, {} \in W,
         \A T \in W : \A x \in A \ T : T \cup {x} \in W
  PROVE  W = SUBSET A
<1> DEFINE Q == {n \in Nat : \A T \in SUBSET A : Cardinality(T) = n => T \in W}
<1>0. \A T \in SUBSET A : IsFiniteSet(T) /\ Cardinality(T) \in Nat
  BY FS_Subset, FS_CardinalityType
<1>1. 0 \in Q
  BY <1>0, FS_EmptySet
<1>2. ASSUME NEW n \in Q  PROVE n + 1 \in Q
  <2> SUFFICES ASSUME NEW T \in SUBSET A, Cardinality(T) = n + 1  PROVE T \in W
    OBVIOUS
  <2>1. T # {}
    <3>1. n + 1 # 0 /\ Cardinality({}) = 0
      BY FS_EmptySet
    <3> QED
      BY <3>1
  <2>2. PICK x \in T : TRUE
    BY <2>1
  <2>3. Cardinality(T \ {x}) = n
    BY <1>0, <2>2, SmallerByOne
  <2>4. T \ {x} \in W
    BY <2>3
  <2>5. T = (T \ {x}) \cup {x} /\ x \in A \ (T \ {x})
    BY <2>2
  <2> QED
    BY <2>4, <2>5
<1>3. Q = Nat
  <2> HIDE DEF Q
  <2>1. Q \in SUBSET Nat
    BY DEF Q
  <2> QED
    BY <1>1, <1>2, <2>1, NatBySets
<1>4. \A T \in SUBSET A : T \in W
  BY <1>0, <1>3
<1> QED
  BY <1>4

-----------------------------------------------------------------------------
(* The recursion is well founded: there is one function that satisfies it.        *)

SumBody(f, sum, T) ==
  IF T = {} THEN 0 ELSE LET x == CHOOSE x \in T : TRUE IN f[x] + sum[T \ {x}]

IsSum(f, A, sum) == sum = [T \in SUBSET A |-> SumBody(f, sum, T)]

LEMMA SumUnfolds ==
  ASSUME NEW f, NEW A
  PROVE  SumFunctionOnSet(f, A) = (CHOOSE sum : IsSum(f, A, sum))[A]
BY DEF SumFunctionOnSet, FoldFunctionOnSet, MapThenFoldSet, SumBody, IsSum

LEMMA SumsAgree ==
  ASSUME NEW f, NEW A, NEW B, NEW g, NEW h, IsFiniteSet(A), B \in SUBSET A, IsSum(f, A, g), IsSum(f, B, h)
  PROVE  \A T \in SUBSET B : g[T] = h[T]
<1> DEFINE Q == {n \in Nat : \A T \in SUBSET B : Cardinality(T) = n => g[T] = h[T]}
<1>0. \A T \in SUBSET B : IsFiniteSet(T) /\ Cardinality(T) \in Nat
  BY FS_Subset, FS_CardinalityType
<1>1. \A T \in SUBSET B : g[T] = SumBody(f, g, T) /\ h[T] = SumBody(f, h, T)
  BY DEF IsSum
<1>2. 0 \in Q
  <2>1. \A T \in SUBSET B : Cardinality(T) = 0 => T = {}
    BY <1>0, FS_EmptySet
  <2> QED
    BY <1>1, <2>1 DEF SumBody
<1>3. ASSUME NEW n \in Q  PROVE n + 1 \in Q
  <2> SUFFICES ASSUME NEW T \in SUBSET B, Cardinality(T) = n + 1  PROVE g[T] = h[T]
    OBVIOUS
  <2> DEFINE x == CHOOSE x \in T : TRUE
  <2>1. T # {}
    BY FS_EmptySet
  <2>2. x \in T
    BY <2>1
  <2> HIDE DEF x
  <2>3. Cardinality(T \ {x}) = n
    BY <1>0, <2>2, SmallerByOne
  <2> USE DEF x
  <2>4. g[T \ {x}] = h[T \ {x}]
    BY <2>3
  <2>5. g[T] = f[x] + g[T \ {x}] /\ h[T] = f[x] + h[T \ {x}]
    BY <1>1, <2>1 DEF SumBody
  <2> QED
    BY <2>4, <2>5
<1>4. Q = Nat
  <2> HIDE DEF Q
  <2>1. Q \in SUBSET Nat
    BY DEF Q
  <2> QED
    BY <1>2, <1>3, <2>1, NatBySets
<1> QED
  BY <1>0, <1>4

UpTo(A, n) == {T \in SUBSET A : Cardinality(T) <= n}

LEMMA SumExists ==
  ASSUME NEW f, NEW A, IsFiniteSet(A)
  PROVE  \E sum : IsSum(f, A, sum)
<1> DEFINE Q == {n \in Nat : \E g : g = [T \in UpTo(A, n) |-> SumBody(f, g, T)]}
<1>0. \A T \in SUBSET A : IsFiniteSet(T) /\ Cardinality(T) \in Nat /\ Cardinality(T) <= Cardinality(A)
  BY FS_Subset, FS_CardinalityType
<1>1. 0 \in Q
  <2> DEFINE g == [T \in UpTo(A, 0) |-> 0]
  <2>1. \A T \in UpTo(A, 0) : T = {}
    BY <1>0, FS_EmptySet DEF UpTo
  <2>2. g = [T \in UpTo(A, 0) |-> SumBody(f, g, T)]
    BY <2>1 DEF SumBody
  <2> QED
    BY <2>2
<1>2. ASSUME NEW n \in Q  PROVE n + 1 \in Q
  <2>1. PICK g : g = [T \in UpTo(A, n) |-> SumBody(f, g, T)]
    OBVIOUS
  <2> DEFINE h == [T \in UpTo(A, n + 1) |-> SumBody(f, g, T)]
  <2>2. ASSUME NEW T \in UpTo(A, n + 1)  PROVE SumBody(f, g, T) = SumBody(f, h, T)
    <3> DEFINE x == CHOOSE x \in T : TRUE
    <3>1. CASE T = {}
      BY <3>1 DEF SumBody
    <3>2. CASE T # {}
      <4>1. x \in T /\ T \in SUBSET A
        BY <3>2 DEF UpTo
      <4>2. T \ {x} \in UpTo(A, n) /\ T \ {x} \in UpTo(A, n + 1)
        <5>1. Cardinality(T) = Cardinality(T \ {x}) + 1 /\ Cardinality(T \ {x}) \in Nat /\ Cardinality(T) <= n + 1
          BY <1>0, <4>1, SmallerByOne DEF UpTo
        <5> QED
          BY <4>1, <5>1 DEF UpTo
      <4>3. h[T \ {x}] = SumBody(f, g, T \ {x}) /\ g[T \ {x}] = SumBody(f, g, T \ {x})
        BY <2>1, <4>2
      <4>4. SumBody(f, g, T) = f[x] + g[T \ {x}] /\ SumBody(f, h, T) = f[x] + h[T \ {x}]
        BY <3>2 DEF SumBody
      <4> QED
        BY <4>3, <4>4
    <3> QED
      BY <3>1, <3>2
  <2>3. h = [T \in UpTo(A, n + 1) |-> SumBody(f, h, T)]
    <3>1. h = [T \in UpTo(A, n + 1) |-> SumBody(f, g, T)]
      OBVIOUS
    <3> HIDE DEF h
    <3> QED
      BY <2>2, <3>1
  <2> HIDE DEF h
  <2>4. n \in Nat /\ n + 1 \in Nat
    OBVIOUS
  <2>5. \E e : e = [T \in UpTo(A, n + 1) |-> SumBody(f, e, T)]
    BY <2>3
  <2> QED
    BY <2>4, <2>5
<1>3. Q = Nat
  <2> HIDE DEF Q
  <2>1. Q \in SUBSET Nat
    BY DEF Q
  <2> QED
    BY <1>1, <1>2, <2>1, NatBySets
<1>4. Cardinality(A) \in Nat /\ UpTo(A, Cardinality(A)) = SUBSET A
  BY <1>0, FS_CardinalityType DEF UpTo
<1>5. PICK g : g = [T \in UpTo(A, Cardinality(A)) |-> SumBody(f, g, T)]
  BY <1>3, <1>4
<1> QED
  BY <1>4, <1>5 DEF IsSum

\* On every subset of a finite set, the sum is one and the same function of the subset.
LEMMA SumIs ==
  ASSUME NEW f, NEW A, IsFiniteSet(A)
  PROVE  \E sum : IsSum(f, A, sum) /\ \A T \in SUBSET A : SumFunctionOnSet(f, T) = sum[T]
<1>1. PICK g : IsSum(f, A, g)
  BY SumExists
<1>2. ASSUME NEW T \in SUBSET A  PROVE SumFunctionOnSet(f, T) = g[T]
  <2>1. IsFiniteSet(T)
    BY FS_Subset
  <2>2. PICK h : IsSum(f, T, h) /\ SumFunctionOnSet(f, T) = h[T]
    <3> DEFINE e == CHOOSE sum : IsSum(f, T, sum)
    <3>1. IsSum(f, T, e)
      BY <2>1, SumExists
    <3>2. SumFunctionOnSet(f, T) = e[T]
      BY SumUnfolds
    <3> QED
      BY <3>1, <3>2
  <2>4. IsSum(f, A, g) /\ T \in SUBSET A
    BY <1>1
  <2>5. \A U \in SUBSET T : g[U] = h[U]
    BY <2>2, <2>4, SumsAgree
  <2>6. g[T] = h[T]
    BY <2>5
  <2> QED
    BY <2>2, <2>6
<1> QED
  BY <1>1, <1>2

LEMMA SumOfNone == ASSUME NEW f PROVE SumFunctionOnSet(f, {}) = 0
<1>1. IsFiniteSet({})
  BY FS_EmptySet
<1>2. PICK g : IsSum(f, {}, g) /\ \A T \in SUBSET {} : SumFunctionOnSet(f, T) = g[T]
  BY <1>1, SumIs
<1>3. g[{}] = SumBody(f, g, {})
  BY <1>2 DEF IsSum
<1> QED
  BY <1>2, <1>3 DEF SumBody

LEMMA SumPicks ==
  ASSUME NEW f, NEW A, IsFiniteSet(A), NEW T \in SUBSET A, T # {}
  PROVE  \E x \in T : SumFunctionOnSet(f, T) = f[x] + SumFunctionOnSet(f, T \ {x})
<1>1. PICK g : IsSum(f, A, g) /\ \A U \in SUBSET A : SumFunctionOnSet(f, U) = g[U]
  BY SumIs
<1> DEFINE x == CHOOSE x \in T : TRUE
<1>2. x \in T /\ T \ {x} \in SUBSET A
  OBVIOUS
<1>3. g[T] = f[x] + g[T \ {x}]
  BY <1>1 DEF IsSum, SumBody
<1> HIDE DEF x
<1> QED
  BY <1>1, <1>2, <1>3

LEMMA SumIsWhole ==
  ASSUME NEW f, NEW A, IsFiniteSet(A), NEW R \in {Nat, Int}, \A x \in A : f[x] \in R
  PROVE  SumFunctionOnSet(f, A) \in R
<1> DEFINE Q == {n \in Nat : \A T \in SUBSET A : Cardinality(T) = n => SumFunctionOnSet(f, T) \in R}
<1>0. \A T \in SUBSET A : IsFiniteSet(T) /\ Cardinality(T) \in Nat
  BY FS_Subset, FS_CardinalityType
<1>1. 0 \in Q
  <2>1. \A T \in SUBSET A : Cardinality(T) = 0 => T = {}
    BY <1>0, FS_EmptySet
  <2>2. SumFunctionOnSet(f, {}) \in R
    BY SumOfNone
  <2> QED
    BY <2>1, <2>2
<1>2. ASSUME NEW n \in Q  PROVE n + 1 \in Q
  <2> SUFFICES ASSUME NEW T \in SUBSET A, Cardinality(T) = n + 1  PROVE SumFunctionOnSet(f, T) \in R
    OBVIOUS
  <2>1. T # {}
    <3>1. n + 1 # 0 /\ Cardinality({}) = 0
      BY FS_EmptySet
    <3> QED
      BY <3>1
  <2>2. PICK x \in T : SumFunctionOnSet(f, T) = f[x] + SumFunctionOnSet(f, T \ {x})
    BY <2>1, SumPicks
  <2>3. T \ {x} \in SUBSET A /\ Cardinality(T \ {x}) = n
    BY <1>0, SmallerByOne
  <2>4. SumFunctionOnSet(f, T \ {x}) \in R /\ f[x] \in R
    BY <2>3
  <2> QED
    BY <2>2, <2>4
<1>3. Q = Nat
  <2> HIDE DEF Q
  <2>1. Q \in SUBSET Nat
    BY DEF Q
  <2> QED
    BY <1>1, <1>2, <2>1, NatBySets
<1> QED
  BY <1>0, <1>3

\* Whichever element is taken out leaves the sum of the rest.
LEMMA SumTakesOut ==
  ASSUME NEW f, NEW A, IsFiniteSet(A), \A x \in A : f[x] \in Int
  PROVE  \A x \in A : SumFunctionOnSet(f, A) = f[x] + SumFunctionOnSet(f, A \ {x})
<1> DEFINE Good(T) == \A x \in T : SumFunctionOnSet(f, T) = f[x] + SumFunctionOnSet(f, T \ {x})
           Q == {n \in Nat : \A T \in SUBSET A : Cardinality(T) = n => Good(T)}
<1>0. \A T \in SUBSET A : IsFiniteSet(T) /\ Cardinality(T) \in Nat /\ SumFunctionOnSet(f, T) \in Int
  <2> SUFFICES ASSUME NEW T \in SUBSET A
               PROVE  IsFiniteSet(T) /\ Cardinality(T) \in Nat /\ SumFunctionOnSet(f, T) \in Int
    OBVIOUS
  <2>1. IsFiniteSet(T) /\ \A x \in T : f[x] \in Int
    BY FS_Subset
  <2> QED
    BY <2>1, SumIsWhole, FS_CardinalityType
<1>1. 0 \in Q
  <2>1. \A T \in SUBSET A : Cardinality(T) = 0 => T = {}
    BY <1>0, FS_EmptySet
  <2> QED
    BY <2>1
<1>2. ASSUME NEW n \in Q  PROVE n + 1 \in Q
  <2> SUFFICES ASSUME NEW T \in SUBSET A, Cardinality(T) = n + 1, NEW y \in T
               PROVE  SumFunctionOnSet(f, T) = f[y] + SumFunctionOnSet(f, T \ {y})
    OBVIOUS
  <2>0. \A U \in SUBSET A : Cardinality(U) = n => Good(U)
    OBVIOUS
  <2>2. PICK x \in T : SumFunctionOnSet(f, T) = f[x] + SumFunctionOnSet(f, T \ {x})
    BY SumPicks
  <2>3. \A z \in T : T \ {z} \in SUBSET A /\ Cardinality(T \ {z}) = n
    BY <1>0, SmallerByOne
  <2>4. \A z \in T : Good(T \ {z})
    BY <2>0, <2>3
  <2>5. CASE y = x
    BY <2>2, <2>5
  <2>6. CASE y # x
    <3>1. (T \ {x}) \ {y} = (T \ {y}) \ {x} /\ y \in T \ {x} /\ x \in T \ {y}
      BY <2>6
    <3>2. SumFunctionOnSet(f, T \ {x}) = f[y] + SumFunctionOnSet(f, (T \ {x}) \ {y})
      BY <2>4, <3>1
    <3>3. SumFunctionOnSet(f, T \ {y}) = f[x] + SumFunctionOnSet(f, (T \ {y}) \ {x})
      BY <2>4, <3>1
    <3>4. (T \ {x}) \ {y} \in SUBSET A /\ f[x] \in Int /\ f[y] \in Int
      OBVIOUS
    <3> DEFINE rest == SumFunctionOnSet(f, (T \ {x}) \ {y})
    <3>5. rest \in Int
      BY <1>0, <3>4
    <3>6. SumFunctionOnSet(f, T \ {y}) = f[x] + rest
      BY <3>1, <3>3
    <3>7. SumFunctionOnSet(f, T) = f[x] + (f[y] + rest)
      BY <2>2, <3>2
    <3> HIDE DEF rest
    <3> QED
      BY <3>4, <3>5, <3>6, <3>7
  <2> QED
    BY <2>5, <2>6
<1>3. Q = Nat
  <2> HIDE DEF Q
  <2>1. Q \in SUBSET Nat
    BY DEF Q
  <2> QED
    BY <1>1, <1>2, <2>1, NatBySets
<1>4. Good(A)
  <2> HIDE DEF Good
  <2> QED
    BY <1>0, <1>3
<1> QED
  BY <1>4

LEMMA SumTakesIn ==
  ASSUME NEW f, NEW A, IsFiniteSet(A), \A x \in A : f[x] \in Int
  PROVE  \A T \in SUBSET A : /\ SumFunctionOnSet(f, T) \in Int
                           /\ \A x \in A \ T : SumFunctionOnSet(f, T \cup {x}) = f[x] + SumFunctionOnSet(f, T)
<1> SUFFICES ASSUME NEW T \in SUBSET A
             PROVE  /\ SumFunctionOnSet(f, T) \in Int
                    /\ \A x \in A \ T : SumFunctionOnSet(f, T \cup {x}) = f[x] + SumFunctionOnSet(f, T)
  OBVIOUS
<1>1. IsFiniteSet(T) /\ \A x \in T : f[x] \in Int
  BY FS_Subset
<1>2. SumFunctionOnSet(f, T) \in Int
  BY <1>1, SumIsWhole
<1>3. ASSUME NEW x \in A \ T  PROVE SumFunctionOnSet(f, T \cup {x}) = f[x] + SumFunctionOnSet(f, T)
  <2> DEFINE U == T \cup {x}
  <2>1. U \in SUBSET A /\ x \in U /\ U \ {x} = T /\ \A z \in U : f[z] \in Int
    OBVIOUS
  <2> HIDE DEF U
  <2>2. IsFiniteSet(U)
    BY <2>1, FS_Subset
  <2>3. SumFunctionOnSet(f, U) = f[x] + SumFunctionOnSet(f, U \ {x})
    BY <2>1, <2>2, SumTakesOut
  <2> QED
    BY <2>1, <2>3 DEF U
<1> QED
  BY <1>2, <1>3

-----------------------------------------------------------------------------
(* Two sums over the same set.                                                    *)

\* Terms that are no larger sum to no more.
LEMMA SumGrows ==
  ASSUME NEW f, NEW g, NEW A, IsFiniteSet(A), \A x \in A : f[x] \in Int /\ g[x] \in Int /\ f[x] <= g[x]
  PROVE  SumFunctionOnSet(f, A) <= SumFunctionOnSet(g, A)
<1> DEFINE W == {T \in SUBSET A : SumFunctionOnSet(f, T) <= SumFunctionOnSet(g, T)}
<1>1. {} \in W
  BY SumOfNone
<1>2. ASSUME NEW T \in W, NEW x \in A \ T  PROVE T \cup {x} \in W
  <2>1. /\ SumFunctionOnSet(f, T) \in Int /\ SumFunctionOnSet(g, T) \in Int
        /\ SumFunctionOnSet(f, T \cup {x}) = f[x] + SumFunctionOnSet(f, T)
        /\ SumFunctionOnSet(g, T \cup {x}) = g[x] + SumFunctionOnSet(g, T)
    BY SumTakesIn
  <2> QED
    BY <2>1
<1>3. W = SUBSET A
  <2> HIDE DEF W
  <2>1. W \in SUBSET SUBSET A
    BY DEF W
  <2> QED
    BY <1>1, <1>2, <2>1, SubsetsBySets
<1> QED
  BY <1>3

LEMMA SumSame ==
  ASSUME NEW f, NEW g, NEW A, IsFiniteSet(A), \A x \in A : f[x] \in Int /\ g[x] \in Int /\ f[x] = g[x]
  PROVE  SumFunctionOnSet(f, A) = SumFunctionOnSet(g, A)
<1>1. SumFunctionOnSet(f, A) <= SumFunctionOnSet(g, A) /\ SumFunctionOnSet(g, A) <= SumFunctionOnSet(f, A)
  BY SumGrows
<1>2. SumFunctionOnSet(f, A) \in Int /\ SumFunctionOnSet(g, A) \in Int
  BY SumIsWhole
<1> QED
  BY <1>1, <1>2

LEMMA SumAddsUp ==
  ASSUME NEW f, NEW g, NEW h, NEW A, IsFiniteSet(A),
         \A x \in A : f[x] \in Int /\ g[x] \in Int /\ h[x] = f[x] + g[x]
  PROVE  SumFunctionOnSet(h, A) = SumFunctionOnSet(f, A) + SumFunctionOnSet(g, A)
<1> DEFINE W == {T \in SUBSET A : SumFunctionOnSet(h, T) = SumFunctionOnSet(f, T) + SumFunctionOnSet(g, T)}
<1>0. \A x \in A : h[x] \in Int
  OBVIOUS
<1>1. {} \in W
  BY SumOfNone
<1>2. ASSUME NEW T \in W, NEW x \in A \ T  PROVE T \cup {x} \in W
  <2>1. /\ SumFunctionOnSet(f, T) \in Int /\ SumFunctionOnSet(g, T) \in Int
        /\ SumFunctionOnSet(f, T \cup {x}) = f[x] + SumFunctionOnSet(f, T)
        /\ SumFunctionOnSet(g, T \cup {x}) = g[x] + SumFunctionOnSet(g, T)
    BY SumTakesIn
  <2>2. SumFunctionOnSet(h, T \cup {x}) = h[x] + SumFunctionOnSet(h, T)
    BY <1>0, SumTakesIn
  <2> QED
    BY <2>1, <2>2
<1>3. W = SUBSET A
  <2> HIDE DEF W
  <2>1. W \in SUBSET SUBSET A
    BY DEF W
  <2> QED
    BY <1>1, <1>2, <2>1, SubsetsBySets
<1> QED
  BY <1>3

LEMMA SumScales ==
  ASSUME NEW f, NEW h, NEW A, NEW c \in Int, IsFiniteSet(A),
         \A x \in A : f[x] \in Int /\ h[x] = c * f[x]
  PROVE  SumFunctionOnSet(h, A) = c * SumFunctionOnSet(f, A)
<1> DEFINE W == {T \in SUBSET A : SumFunctionOnSet(h, T) = c * SumFunctionOnSet(f, T)}
<1>0. \A x \in A : h[x] \in Int
  OBVIOUS
<1>1. {} \in W
  BY SumOfNone
<1>2. ASSUME NEW T \in W, NEW x \in A \ T  PROVE T \cup {x} \in W
  <2>1. /\ SumFunctionOnSet(f, T) \in Int
        /\ SumFunctionOnSet(f, T \cup {x}) = f[x] + SumFunctionOnSet(f, T)
    BY SumTakesIn
  <2>2. SumFunctionOnSet(h, T \cup {x}) = h[x] + SumFunctionOnSet(h, T)
    BY <1>0, SumTakesIn
  <2>3. \A a, b \in Int : c * (a + b) = c * a + c * b
    OBVIOUS
  <2> QED
    BY <2>1, <2>2, <2>3
<1>3. W = SUBSET A
  <2> HIDE DEF W
  <2>1. W \in SUBSET SUBSET A
    BY DEF W
  <2> QED
    BY <1>1, <1>2, <2>1, SubsetsBySets
<1> QED
  BY <1>3

\* One for each element of a part counts the part.
LEMMA SumCounts ==
  ASSUME NEW f, NEW A, NEW B \in SUBSET A, IsFiniteSet(A), \A x \in A : f[x] = IF x \in B THEN 1 ELSE 0
  PROVE  SumFunctionOnSet(f, A) = Cardinality(B)
<1> DEFINE W == {T \in SUBSET A : SumFunctionOnSet(f, T) = Cardinality(T \cap B)}
<1>0. \A x \in A : f[x] \in Int
  OBVIOUS
<1>1. {} \in W
  <2>1. {} \cap B = {} /\ Cardinality({}) = 0
    BY FS_EmptySet
  <2> QED
    BY <2>1, SumOfNone
<1>2. ASSUME NEW T \in W, NEW x \in A \ T  PROVE T \cup {x} \in W
  <2>1. SumFunctionOnSet(f, T) \in Int /\ SumFunctionOnSet(f, T \cup {x}) = f[x] + SumFunctionOnSet(f, T)
    BY <1>0, SumTakesIn
  <2>2. IsFiniteSet(T \cap B)
    BY FS_Subset
  <2>3. CASE x \in B
    <3>1. (T \cup {x}) \cap B = (T \cap B) \cup {x} /\ x \notin T \cap B
      BY <2>3
    <3>2. Cardinality((T \cap B) \cup {x}) = Cardinality(T \cap B) + 1
      BY <2>2, <3>1, FS_AddElement
    <3> QED
      BY <2>1, <2>3, <3>1, <3>2
  <2>4. CASE x \notin B
    <3>1. (T \cup {x}) \cap B = T \cap B /\ f[x] = 0
      BY <2>4
    <3>2. SumFunctionOnSet(f, T \cup {x}) = SumFunctionOnSet(f, T)
      BY <2>1, <3>1
    <3>3. SumFunctionOnSet(f, T \cup {x}) = Cardinality((T \cup {x}) \cap B)
      BY <3>1, <3>2
    <3> QED
      BY <3>3
  <2> QED
    BY <2>3, <2>4
<1>3. W = SUBSET A
  <2> HIDE DEF W
  <2>1. W \in SUBSET SUBSET A
    BY DEF W
  <2> QED
    BY <1>1, <1>2, <2>1, SubsetsBySets
<1>4. A \cap B = B
  OBVIOUS
<1> QED
  BY <1>3, <1>4

\* What changes in one place changes the sum by as much.
LEMMA SumChanges ==
  ASSUME NEW A, NEW f \in [A -> Int], NEW a \in A, NEW v \in Int, IsFiniteSet(A)
  PROVE  SumFunction([f EXCEPT ![a] = v]) = SumFunction(f) - f[a] + v
<1> DEFINE g == [f EXCEPT ![a] = v]
<1>1. g \in [A -> Int] /\ g[a] = v /\ \A x \in A \ {a} : g[x] = f[x]
  OBVIOUS
<1> HIDE DEF g
<1>2. SumFunctionOnSet(f, A) = f[a] + SumFunctionOnSet(f, A \ {a})
  BY SumTakesOut
<1>3. SumFunctionOnSet(g, A) = g[a] + SumFunctionOnSet(g, A \ {a})
  BY <1>1, SumTakesOut
<1>4. IsFiniteSet(A \ {a})
  BY FS_RemoveElement
<1>5. SumFunctionOnSet(f, A \ {a}) = SumFunctionOnSet(g, A \ {a})
  BY <1>1, <1>4, SumSame
<1>6. SumFunctionOnSet(f, A \ {a}) \in Int
  BY <1>4, SumIsWhole
<1>7. SumFunction(f) = SumFunctionOnSet(f, A) /\ SumFunction(g) = SumFunctionOnSet(g, A)
  BY <1>1 DEF SumFunction
<1> QED
  BY <1>1, <1>2, <1>3, <1>5, <1>6, <1>7 DEF g

-----------------------------------------------------------------------------
(* Ranks, and what a division by largest remainders gives.                       *)

\* Where everybody is ahead of or behind everybody else, the first k are k people.
LEMMA FirstOnes ==
  ASSUME NEW S, IsFiniteSet(S), NEW ahead \in [S -> SUBSET S],
         \A x \in S : x \notin ahead[x],
         \A x, y \in S : x # y => x \in ahead[y] \/ y \in ahead[x],
         \A x, y \in S : x \in ahead[y] => ahead[x] \subseteq ahead[y],
         NEW k \in 0..Cardinality(S)
  PROVE  /\ \A x \in S : Cardinality(ahead[x]) \in Nat
         /\ \A x, y \in S : x \in ahead[y] => Cardinality(ahead[x]) < Cardinality(ahead[y])
         /\ Cardinality({x \in S : Cardinality(ahead[x]) < k}) = k
         /\ k > 0 => \E x \in S : Cardinality(ahead[x]) = k - 1
<1> DEFINE n == Cardinality(S)
           rank == [x \in S |-> Cardinality(ahead[x])]
           first == {x \in S : rank[x] < k}
           place == [x \in first |-> rank[x]]
<1>1. n \in Nat
  BY FS_CardinalityType
<1>2. ASSUME NEW x \in S  PROVE IsFiniteSet(ahead[x]) /\ rank[x] \in 0..(n - 1)
  <2>1. IsFiniteSet(S \ {x}) /\ Cardinality(S \ {x}) = n - 1
    BY FS_RemoveElement
  <2>2. ahead[x] \in SUBSET (S \ {x})
    OBVIOUS
  <2>3. IsFiniteSet(ahead[x]) /\ Cardinality(ahead[x]) <= n - 1
    BY <2>1, <2>2, FS_Subset
  <2>4. Cardinality(ahead[x]) \in Nat
    BY <2>3, FS_CardinalityType
  <2> QED
    BY <1>1, <2>3, <2>4
<1>3. ASSUME NEW x \in S, NEW y \in S, x \in ahead[y]  PROVE rank[x] < rank[y]
  <2>1. IsFiniteSet(ahead[y] \ {x}) /\ Cardinality(ahead[y] \ {x}) = Cardinality(ahead[y]) - 1
    BY <1>2, <1>3, FS_RemoveElement
  <2>2. ahead[x] \in SUBSET (ahead[y] \ {x})
    BY <1>3
  <2>3. Cardinality(ahead[x]) <= Cardinality(ahead[y]) - 1
    BY <2>1, <2>2, FS_Subset
  <2>4. rank[x] \in Nat /\ rank[y] \in Nat
    BY <1>2
  <2> QED
    BY <2>3, <2>4
<1>4. rank \in [S -> 0..(n - 1)]
  BY <1>2
<1>5. \A x, y \in S : rank[x] = rank[y] => x = y
  <2> SUFFICES ASSUME NEW x \in S, NEW y \in S, x # y  PROVE rank[x] # rank[y]
    OBVIOUS
  <2>1. rank[x] < rank[y] \/ rank[y] < rank[x]
    BY <1>3
  <2>2. rank[x] \in 0..(n - 1) /\ rank[y] \in 0..(n - 1)
    BY <1>2
  <2> QED
    BY <2>1, <2>2
<1> HIDE DEF rank
<1>6. rank \in Injection(S, 0..(n - 1))
  BY <1>4, <1>5 DEF Injection, IsInjective
<1>7. IsFiniteSet(0..(n - 1)) /\ Cardinality(0..(n - 1)) = n
  <2>1. n - 1 \in Int /\ 0 \in Int
    BY <1>1
  <2>2. IsFiniteSet(0..(n - 1)) /\ Cardinality(0..(n - 1)) = IF 0 > n - 1 THEN 0 ELSE n - 1 - 0 + 1
    BY <2>1, FS_Interval
  <2> QED
    BY <1>1, <2>2
<1>8. rank \in Surjection(S, 0..(n - 1))
  BY <1>6, <1>7, FS_Injection
<1>9. \A i \in 0..(n - 1) : \E x \in S : rank[x] = i
  BY <1>8 DEF Surjection
<1>10. k \in Nat /\ k <= n
  BY <1>1
<1>11. place \in [first -> 0..(k - 1)]
  BY <1>4, <1>10
<1>12. \A x, y \in first : place[x] = place[y] => x = y
  BY <1>5
<1>13. \A i \in 0..(k - 1) : \E x \in first : place[x] = i
  <2> SUFFICES ASSUME NEW i \in 0..(k - 1)  PROVE \E x \in first : place[x] = i
    OBVIOUS
  <2>1. i \in 0..(n - 1) /\ i < k
    BY <1>10, <1>1
  <2>2. PICK x \in S : rank[x] = i
    BY <1>9, <2>1
  <2>3. x \in first /\ place[x] = i
    BY <2>1, <2>2
  <2> QED
    BY <2>3
<1>14. IsFiniteSet(first)
  BY FS_Subset
<1>15. ExistsBijection(first, 0..(k - 1))
  <2> HIDE DEF first, place
  <2>1. place \in Bijection(first, 0..(k - 1))
    BY <1>11, <1>12, <1>13 DEF Bijection, Injection, Surjection, IsInjective
  <2> QED
    BY <2>1 DEF ExistsBijection
<1>16. Cardinality(0..(k - 1)) = Cardinality(first)
  BY <1>14, <1>15, FS_Bijection
<1>17. Cardinality(first) = k
  <2>1. Cardinality(0..(k - 1)) = k
    BY <1>10, FS_Interval
  <2> QED
    BY <1>16, <2>1
<1>18. k > 0 => \E x \in S : rank[x] = k - 1
  BY <1>9, <1>10, <1>1
<1>19. \A x \in S : rank[x] = Cardinality(ahead[x])
  BY DEF rank
<1>20. first = {x \in S : Cardinality(ahead[x]) < k}
  BY <1>19
<1>21. \A x \in S : rank[x] \in Nat
  BY <1>4
<1> HIDE DEF first
<1> QED
  BY <1>3, <1>17, <1>18, <1>19, <1>20, <1>21

\* Floors and remainders add up to what is divided.
LEMMA FloorAndRest ==
  ASSUME NEW a \in Nat, NEW total \in Nat, total # 0
  PROVE  /\ a \div total \in Nat /\ a % total \in 0..(total - 1)
         /\ a = total * (a \div total) + (a % total)
OBVIOUS

\* The exact shares of A by weight, each as its floor and its remainder.
Shares(A, w, pool, floor, rest) ==
  /\ floor = [p \in A |-> (pool * w[p]) \div SumFunction(w)]
  /\ rest = [p \in A |-> (pool * w[p]) % SumFunction(w)]

LEMMA SharesSound ==
  ASSUME NEW A, IsFiniteSet(A), NEW w \in [A -> Nat], NEW pool \in Nat, SumFunction(w) # 0,
         NEW floor, NEW rest, Shares(A, w, pool, floor, rest)
  PROVE  /\ SumFunction(w) \in Nat
         /\ floor \in [A -> Nat] /\ rest \in [A -> Nat]
         /\ \A p \in A : /\ rest[p] < SumFunction(w)
                         /\ pool * w[p] = SumFunction(w) * floor[p] + rest[p]
                         /\ w[p] = 0 => rest[p] = 0 /\ floor[p] = 0
<1> DEFINE T == SumFunction(w)
<1>1. T \in Nat
  <2>1. SumFunctionOnSet(w, A) \in Nat
    BY SumIsWhole
  <2> QED
    BY <2>1 DEF SumFunction
<1>2. ASSUME NEW p \in A
      PROVE  /\ floor[p] \in Nat /\ rest[p] \in 0..(T - 1) /\ pool * w[p] = T * floor[p] + rest[p]
             /\ w[p] = 0 => rest[p] = 0 /\ floor[p] = 0
  <2> DEFINE a == pool * w[p]
  <2>1. a \in Nat /\ (w[p] = 0 => a = 0)
    OBVIOUS
  <2>2. floor[p] = a \div T /\ rest[p] = a % T
    BY DEF Shares
  <2> HIDE DEF a, T
  <2>3. T # 0
    BY DEF T
  <2>4. a \div T \in Nat /\ a % T \in 0..(T - 1) /\ a = T * (a \div T) + (a % T)
    BY <1>1, <2>1, <2>3, FloorAndRest
  <2>5. a = 0 => a % T = 0 /\ a \div T = 0
    BY <1>1, <2>3
  <2>6. a = pool * w[p]
    BY DEF a
  <2>7. floor[p] \in Nat /\ rest[p] \in 0..(T - 1) /\ pool * w[p] = T * floor[p] + rest[p]
    BY <2>2, <2>4, <2>6
  <2> QED
    BY <2>1, <2>2, <2>5, <2>7
<1>3. floor \in [A -> Nat] /\ rest \in [A -> Nat]
  BY <1>2 DEF Shares
<1> QED
  BY <1>1, <1>2, <1>3

WithRest(A, rest) == {p \in A : rest[p] > 0}

\* What the floors leave over is at least nothing, and at most one unit for everybody with a
\* remainder.
LEMMA LeftOver ==
  ASSUME NEW A, IsFiniteSet(A), NEW w \in [A -> Nat], NEW pool \in Nat, SumFunction(w) # 0,
         NEW floor, NEW rest, Shares(A, w, pool, floor, rest)
  PROVE  pool - SumFunction(floor) \in 0..Cardinality(WithRest(A, rest))
<1> DEFINE T == SumFunction(w)
           E == {p \in A : rest[p] > 0}
           left == pool - SumFunction(floor)
           scaled == [p \in A |-> T * floor[p]]
           exact == [p \in A |-> pool * w[p]]
           one == [p \in A |-> IF p \in E THEN 1 ELSE 0]
           most == [p \in A |-> (T - 1) * one[p]]
<1>1. /\ T \in Nat /\ T # 0 /\ floor \in [A -> Nat] /\ rest \in [A -> Nat]
      /\ \A p \in A : rest[p] < T /\ pool * w[p] = T * floor[p] + rest[p]
  BY SharesSound
<1> HIDE DEF T
<1>2. /\ SumFunction(w) = SumFunctionOnSet(w, A) /\ SumFunction(floor) = SumFunctionOnSet(floor, A)
  BY <1>1 DEF SumFunction
<1>3. SumFunctionOnSet(floor, A) \in Nat /\ SumFunctionOnSet(rest, A) \in Nat
  <2>1. SumFunctionOnSet(floor, A) \in Nat
    BY <1>1, SumIsWhole
  <2>2. SumFunctionOnSet(rest, A) \in Nat
    BY <1>1, SumIsWhole
  <2> QED
    BY <2>1, <2>2
<1>4. SumFunctionOnSet(exact, A) = pool * T
  <2>1. \A p \in A : w[p] \in Int /\ exact[p] = pool * w[p]
    OBVIOUS
  <2> HIDE DEF exact
  <2>2. SumFunctionOnSet(exact, A) = pool * SumFunctionOnSet(w, A)
    BY <2>1, SumScales
  <2> QED
    BY <1>2, <2>2 DEF T
<1>5. SumFunctionOnSet(scaled, A) = T * SumFunctionOnSet(floor, A)
  <2>1. \A p \in A : floor[p] \in Int /\ scaled[p] = T * floor[p]
    BY <1>1
  <2> HIDE DEF scaled
  <2> QED
    BY <1>1, <2>1, SumScales
<1>6. SumFunctionOnSet(exact, A) = SumFunctionOnSet(scaled, A) + SumFunctionOnSet(rest, A)
  <2>1. \A p \in A : scaled[p] \in Int /\ rest[p] \in Int /\ exact[p] = scaled[p] + rest[p]
    BY <1>1
  <2> HIDE DEF exact, scaled
  <2> QED
    BY <2>1, SumAddsUp
<1>7. E \in SUBSET A /\ IsFiniteSet(E) /\ Cardinality(E) \in Nat
  <2>1. E \in SUBSET A
    OBVIOUS
  <2>2. IsFiniteSet(E)
    BY <2>1, FS_Subset
  <2> QED
    BY <2>1, <2>2, FS_CardinalityType
<1>8. SumFunctionOnSet(one, A) = Cardinality(E)
  <2>1. \A p \in A : one[p] = IF p \in E THEN 1 ELSE 0
    OBVIOUS
  <2> HIDE DEF one, E
  <2> QED
    BY <1>7, <2>1, SumCounts
<1>9. SumFunctionOnSet(most, A) = (T - 1) * Cardinality(E)
  <2>1. \A p \in A : one[p] \in Int /\ most[p] = (T - 1) * one[p]
    OBVIOUS
  <2>2. T - 1 \in Int
    BY <1>1
  <2> HIDE DEF one, most, E
  <2>3. SumFunctionOnSet(most, A) = (T - 1) * SumFunctionOnSet(one, A)
    BY <2>1, <2>2, SumScales
  <2> QED
    BY <1>8, <2>3
<1>10. SumFunctionOnSet(rest, A) <= SumFunctionOnSet(most, A)
  <2>1. \A p \in A : rest[p] \in Int /\ most[p] \in Int /\ rest[p] <= most[p]
    <3> SUFFICES ASSUME NEW p \in A  PROVE rest[p] \in Int /\ most[p] \in Int /\ rest[p] <= most[p]
      OBVIOUS
    <3>1. rest[p] \in Nat /\ rest[p] < T
      BY <1>1
    <3>2. CASE p \in E
      <4>1. most[p] = T - 1
        BY <1>1, <3>2
      <4> QED
        BY <1>1, <3>1, <4>1
    <3>3. CASE p \notin E
      <4>1. most[p] = 0 /\ ~(rest[p] > 0)
        BY <1>1, <3>3
      <4> QED
        BY <3>1, <4>1
    <3> QED
      BY <3>2, <3>3
  <2> HIDE DEF most
  <2> QED
    BY <2>1, SumGrows
<1> HIDE DEF E, one, most, scaled, exact
<1> DEFINE F == SumFunctionOnSet(floor, A)
           R == SumFunctionOnSet(rest, A)
           e == Cardinality(E)
<1>11. pool * T = T * F + R /\ R <= (T - 1) * e /\ R \in Nat /\ F \in Nat /\ e \in Nat
  BY <1>3, <1>4, <1>5, <1>6, <1>7, <1>9, <1>10
<1>12. left = pool - F
  BY <1>2
<1> HIDE DEF F, R, e, left
<1>13. left \in Int /\ T * left = R
  BY <1>1, <1>11, <1>12
<1>14. left >= 0
  <2> SUFFICES ASSUME left <= -1  PROVE FALSE
    BY <1>13
  <2>1. T * left <= T * (-1)
    BY <1>1, <1>13
  <2> QED
    BY <1>1, <1>11, <1>13, <2>1
<1>15. left <= e
  <2> SUFFICES ASSUME left >= e + 1  PROVE FALSE
    BY <1>11, <1>13
  <2>1. T * left >= T * (e + 1)
    BY <1>1, <1>11, <1>13
  <2>2. T * (e + 1) = (T - 1) * e + e + T
    BY <1>1, <1>11
  <2> QED
    BY <1>1, <1>11, <1>13, <2>1, <2>2
<1>16. left \in 0..e
  BY <1>11, <1>13, <1>14, <1>15
<1> QED
  BY <1>16 DEF left, e, E, WithRest

\* Everybody gets the floor, and the units left over go one each to those whose remainder is
\* the largest, ties to the lower id.
AheadOf(A, w, rest, p) == {q \in A : w[q] > 0 /\ (rest[q] > rest[p] \/ (rest[q] = rest[p] /\ q < p))}
Divided(A, w, floor, rest, left) ==
  [p \in A |-> IF w[p] > 0 /\ Cardinality(AheadOf(A, w, rest, p)) < left THEN floor[p] + 1 ELSE floor[p]]

\* Rounding some up adds as many units.
LEMMA RoundedUp ==
  ASSUME NEW A, IsFiniteSet(A), NEW floor \in [A -> Nat], NEW C \in SUBSET A,
         NEW out \in [A -> Nat], \A p \in A : out[p] = IF p \in C THEN floor[p] + 1 ELSE floor[p]
  PROVE  SumFunction(floor) \in Nat /\ SumFunction(out) = SumFunction(floor) + Cardinality(C)
<1> DEFINE more == [p \in A |-> IF p \in C THEN 1 ELSE 0]
<1>1. \A p \in A : floor[p] \in Int /\ more[p] \in Int /\ out[p] = floor[p] + more[p]
  OBVIOUS
<1>2. \A p \in A : more[p] = IF p \in C THEN 1 ELSE 0
  OBVIOUS
<1> HIDE DEF more
<1>3. SumFunctionOnSet(more, A) = Cardinality(C)
  BY <1>2, SumCounts
<1>4. SumFunctionOnSet(out, A) = SumFunctionOnSet(floor, A) + SumFunctionOnSet(more, A)
  BY <1>1, SumAddsUp
<1>5. SumFunction(out) = SumFunctionOnSet(out, A) /\ SumFunction(floor) = SumFunctionOnSet(floor, A)
  BY DEF SumFunction
<1>6. SumFunctionOnSet(floor, A) \in Nat
  BY SumIsWhole
<1> QED
  BY <1>3, <1>4, <1>5, <1>6

\* What is divided is the whole pool, and some remainder tells who was rounded up from who
\* was not.
LEMMA DividesTheWhole ==
  ASSUME NEW A, IsFiniteSet(A), \A p \in A : p \in Nat, NEW w \in [A -> Nat], NEW pool \in Nat, SumFunction(w) # 0,
         NEW floor, NEW rest, Shares(A, w, pool, floor, rest),
         NEW out, out = Divided(A, w, floor, rest, pool - SumFunction(floor))
  PROVE  /\ out \in [A -> Nat] /\ SumFunction(out) = pool
         /\ \E mark \in Nat :
              /\ mark < SumFunction(w)
              /\ \A p \in A : \/ out[p] = floor[p] /\ rest[p] <= mark
                              \/ out[p] = floor[p] + 1 /\ rest[p] >= mark /\ rest[p] > 0
         /\ \A p, q \in A : p < q /\ w[p] = w[q] => out[q] <= out[p]
<1> DEFINE T == SumFunction(w)
           left == pool - SumFunction(floor)
           P == {p \in A : w[p] > 0}
           E == {p \in A : rest[p] > 0}
           ahead == [p \in P |-> AheadOf(A, w, rest, p)]
           C == {p \in P : Cardinality(ahead[p]) < left}
<1>1. /\ T \in Nat /\ T # 0 /\ floor \in [A -> Nat] /\ rest \in [A -> Nat]
      /\ \A p \in A : rest[p] < T /\ (w[p] = 0 => rest[p] = 0)
  BY SharesSound
<1> HIDE DEF T
<1>2. left \in 0..Cardinality(E)
  <2> HIDE DEF ahead, C, P
  <2>1. pool - SumFunction(floor) \in 0..Cardinality(WithRest(A, rest))
    BY LeftOver
  <2> QED
    BY <2>1 DEF WithRest
<1>3. E \in SUBSET P /\ IsFiniteSet(P) /\ IsFiniteSet(E)
  <2>1. E \in SUBSET P
    <3> SUFFICES ASSUME NEW p \in A, rest[p] > 0  PROVE w[p] > 0
      OBVIOUS
    <3>1. w[p] \in Nat /\ rest[p] # 0
      OBVIOUS
    <3> QED
      BY <1>1, <3>1
  <2>2. IsFiniteSet(P)
    BY FS_Subset
  <2> QED
    BY <2>1, <2>2, FS_Subset
<1>4. Cardinality(E) <= Cardinality(P) /\ Cardinality(E) \in Nat /\ Cardinality(P) \in Nat
  BY <1>3, FS_Subset, FS_CardinalityType
<1>5. \A p \in P : ahead[p] \in SUBSET P /\ ahead[p] = AheadOf(A, w, rest, p)
  BY DEF AheadOf
<1>6. ahead \in [P -> SUBSET P]
  BY <1>5
<1>7. \A p, q \in P : q \in ahead[p] <=> (rest[q] > rest[p] \/ (rest[q] = rest[p] /\ q < p))
  BY <1>5 DEF AheadOf
<1>8. \A p \in P : rest[p] \in Nat /\ p \in Nat /\ p \in A
  BY <1>1
<1>9. left \in 0..Cardinality(P)
  BY <1>2, <1>4
<1>91. out = [p \in A |-> IF w[p] > 0 /\ Cardinality(AheadOf(A, w, rest, p)) < left THEN floor[p] + 1 ELSE floor[p]]
  BY DEF Divided
<1>92. \A p \in A : p \in C <=> w[p] > 0 /\ Cardinality(AheadOf(A, w, rest, p)) < left
  OBVIOUS
<1>93. out = [p \in A |-> IF p \in C THEN floor[p] + 1 ELSE floor[p]]
  BY <1>91, <1>92
<1>94. \A p \in P : p \in C <=> Cardinality(ahead[p]) < left
  OBVIOUS
<1>95. C \in SUBSET P /\ C = {p \in P : Cardinality(ahead[p]) < left}
  OBVIOUS
<1>96. \A p \in A : p \notin P => w[p] = 0
  OBVIOUS
<1>97. P \in SUBSET A
  OBVIOUS
<1> HIDE DEF ahead, left, C
<1>10. \A p \in P : p \notin ahead[p]
  BY <1>7, <1>8
<1>11. \A p, q \in P : p # q => p \in ahead[q] \/ q \in ahead[p]
  BY <1>7, <1>8
<1>12. \A p, q \in P : p \in ahead[q] => ahead[p] \subseteq ahead[q]
  <2> SUFFICES ASSUME NEW p \in P, NEW q \in P, p \in ahead[q], NEW x \in ahead[p]  PROVE x \in ahead[q]
    OBVIOUS
  <2>1. x \in P
    BY <1>6
  <2> QED
    BY <1>7, <1>8, <2>1
<1> HIDE DEF P
<1>13. /\ \A p \in P : Cardinality(ahead[p]) \in Nat
       /\ \A p, q \in P : p \in ahead[q] => Cardinality(ahead[p]) < Cardinality(ahead[q])
       /\ Cardinality({p \in P : Cardinality(ahead[p]) < left}) = left
       /\ left > 0 => \E p \in P : Cardinality(ahead[p]) = left - 1
  BY <1>3, <1>6, <1>9, <1>10, <1>11, <1>12, FirstOnes
<1>14. Cardinality(C) = left
  BY <1>13, <1>95
<1>15. \A p \in C : rest[p] > 0
  <2> SUFFICES ASSUME NEW p \in C, ~(rest[p] > 0)  PROVE FALSE
    OBVIOUS
  <2>1. p \in P /\ rest[p] = 0
    BY <1>8, <1>95
  <2>2. \A q \in E : q \in ahead[p]
    BY <1>3, <1>7, <1>8, <2>1
  <2>3. IsFiniteSet(ahead[p])
    BY <1>3, <1>6, <2>1, FS_Subset
  <2>4. Cardinality(E) <= Cardinality(ahead[p])
    BY <2>2, <2>3, FS_Subset
  <2>5. Cardinality(ahead[p]) < left /\ Cardinality(ahead[p]) \in Nat
    BY <1>13, <1>94, <2>1
  <2> QED
    BY <1>2, <1>4, <2>4, <2>5
<1>16. out \in [A -> Nat]
  BY <1>1, <1>93
<1>17. SumFunction(out) = pool
  <2>1. C \in SUBSET A
    BY <1>95, <1>97
  <2>2. SumFunction(floor) \in Nat /\ SumFunction(out) = SumFunction(floor) + Cardinality(C)
    <3>1. \A p \in A : out[p] = IF p \in C THEN floor[p] + 1 ELSE floor[p]
      BY <1>93
    <3> QED
      BY <1>1, <1>16, <2>1, <3>1, RoundedUp
  <2> QED
    BY <1>14, <2>2 DEF left
<1>18. \A p, q \in A : p < q /\ w[p] = w[q] => out[q] <= out[p]
  <2> SUFFICES ASSUME NEW p \in A, NEW q \in A, p < q, w[p] = w[q]  PROVE out[q] <= out[p]
    OBVIOUS
  <2>1. floor[p] = floor[q] /\ rest[p] = rest[q] /\ floor[p] \in Nat
    BY <1>1 DEF Shares
  <2>2. CASE q \notin C
    BY <1>93, <2>1, <2>2
  <2>3. CASE q \in C
    <3>1. q \in P /\ p \in P
      BY <1>95, <2>3 DEF P
    <3>2. p \in ahead[q]
      BY <1>7, <2>1, <3>1
    <3>3. Cardinality(ahead[p]) < left
      BY <1>2, <1>4, <1>13, <1>94, <2>3, <3>1, <3>2
    <3>4. p \in C
      BY <1>94, <3>1, <3>3
    <3> QED
      BY <1>93, <2>1, <2>3, <3>4
  <2> QED
    BY <2>2, <2>3
<1> DEFINE Marks(mark) == \A p \in A : \/ out[p] = floor[p] /\ rest[p] <= mark
                                       \/ out[p] = floor[p] + 1 /\ rest[p] >= mark /\ rest[p] > 0
<1>19. \E mark \in Nat : mark < T /\ Marks(mark)
  <2>1. CASE left = 0
    <3>1. \A p \in A : p \notin C
      BY <1>13, <1>94, <1>95, <2>1
    <3>2. T - 1 \in Nat /\ T - 1 < T
      BY <1>1
    <3>3. Marks(T - 1)
      BY <1>1, <1>93, <3>1
    <3> HIDE DEF T, Marks
    <3> QED
      BY <3>2, <3>3
  <2>2. CASE left > 0
    <3>1. PICK x \in P : Cardinality(ahead[x]) = left - 1
      BY <1>13, <2>2
    <3>2. rest[x] \in Nat /\ rest[x] < T
      BY <1>1, <1>8, <1>97, <3>1
    <3>3. ASSUME NEW p \in A  PROVE \/ out[p] = floor[p] /\ rest[p] <= rest[x]
                                    \/ out[p] = floor[p] + 1 /\ rest[p] >= rest[x] /\ rest[p] > 0
      <4>1. CASE p \in C
        <5>1. p \in P /\ Cardinality(ahead[p]) < left /\ Cardinality(ahead[p]) \in Nat
          BY <1>13, <1>94, <1>95, <4>1
        <5>2. x \notin ahead[p]
          <6> SUFFICES ASSUME x \in ahead[p]  PROVE FALSE
            OBVIOUS
          <6>1. left - 1 < Cardinality(ahead[p])
            BY <1>13, <3>1, <5>1
          <6> QED
            BY <1>2, <1>4, <5>1, <6>1
        <5>3. rest[p] >= rest[x]
          BY <1>7, <1>8, <1>11, <3>1, <5>1, <5>2
        <5> QED
          BY <1>15, <1>93, <4>1, <5>3
      <4>2. CASE p \notin C /\ p \in P
        <5>1. p # x /\ p \notin ahead[x]
          <6>1. Cardinality(ahead[p]) >= left /\ Cardinality(ahead[p]) \in Nat
            BY <1>2, <1>4, <1>13, <1>94, <4>2
          <6>2. p \in ahead[x] => Cardinality(ahead[p]) < left - 1
            BY <1>13, <3>1, <4>2
          <6> QED
            BY <1>2, <1>4, <3>1, <6>1, <6>2
        <5>2. x \in ahead[p]
          BY <1>11, <3>1, <4>2, <5>1
        <5>3. rest[p] <= rest[x]
          BY <1>7, <1>8, <3>1, <4>2, <5>2
        <5> QED
          BY <1>93, <4>2, <5>3
      <4>3. CASE p \notin P
        <5>1. p \notin C /\ rest[p] = 0
          BY <1>1, <1>95, <1>96, <4>3
        <5> QED
          BY <1>93, <3>2, <5>1
      <4> QED
        BY <4>1, <4>2, <4>3
    <3> HIDE DEF T
    <3> QED
      BY <3>2, <3>3
  <2> QED
    BY <1>2, <1>4, <2>1, <2>2
<1> QED
  BY <1>16, <1>17, <1>18, <1>19 DEF T, Marks

-----------------------------------------------------------------------------
(* Sponsored claims and reminders. The excess over a cap, or over one reminder,  *)
(* is counted by the actors that were past the check when it came to bite: the   *)
(* requests past the rate check, and the notifiers past the table of what was    *)
(* sent.                                                                         *)

LEMMA CardSub == ASSUME NEW A, IsFiniteSet(A), NEW X \in SUBSET A
                 PROVE  IsFiniteSet(X) /\ Cardinality(X) \in Nat /\ Cardinality(X) <= Cardinality(A)
BY FS_Subset, FS_CardinalityType

LEMMA CardMinus == ASSUME NEW A, IsFiniteSet(A), NEW x \in A, NEW X \in SUBSET (A \ {x})
                   PROVE  Cardinality(X) + 1 <= Cardinality(A)
<1>1. IsFiniteSet(A \ {x}) /\ Cardinality(A \ {x}) = Cardinality(A) - 1
  BY FS_RemoveElement
<1>2. Cardinality(A) \in Nat /\ Cardinality(X) \in Nat /\ Cardinality(X) <= Cardinality(A \ {x})
  BY <1>1, CardSub, FS_CardinalityType
<1> QED
  BY <1>1, <1>2

LEMMA CardApart == ASSUME NEW A, IsFiniteSet(A), NEW X \in SUBSET A, NEW Y \in SUBSET A, X \cap Y = {}
                   PROVE  Cardinality(X) + Cardinality(Y) <= Cardinality(A)
<1>1. IsFiniteSet(X) /\ IsFiniteSet(Y) /\ Cardinality(X) \in Nat /\ Cardinality(Y) \in Nat /\ Cardinality(A) \in Nat
  BY CardSub, FS_CardinalityType
<1>2. Cardinality(X \cup Y) = Cardinality(X) + Cardinality(Y) - Cardinality(X \cap Y) /\ Cardinality(X \cap Y) = 0
  BY <1>1, FS_Union, FS_EmptySet
<1>3. X \cup Y \in SUBSET A /\ Cardinality(X \cup Y) <= Cardinality(A)
  BY CardSub
<1> QED
  BY <1>1, <1>2, <1>3

InRecord(u) == {q \in SponsorRequest : sponsorship[q].pc = "record" /\ sponsorship[q].user = u}
PastRate(u) == {q \in SponsorRequest : sponsorship[q].pc \in {"balance", "submit", "record"} /\ sponsorship[q].user = u}

Sponsorship == [pc : {"idle", "rate", "balance", "submit", "record"}, user : Claimant \cup {"none"}]

SponsorTypes ==
  /\ sponsorship \in [SponsorRequest -> Sponsorship] /\ lostRecords \in Nat
  /\ submitted \in [Claimant -> Nat] /\ sponsoredClaims \in [Claimant -> Nat]

SponsorCounts ==
  \A u \in Claimant :
    /\ submitted[u] <= sponsoredClaims[u] + Cardinality(InRecord(u)) + lostRecords
    /\ sponsoredClaims[u] + Cardinality(PastRate(u)) + 1 <= SponsorshipCap + Cardinality(SponsorRequest)

SponsorInv == SponsorTypes /\ SponsorCounts

LEMMA RequestCards ==
  ASSUME NEW u
  PROVE  /\ IsFiniteSet(InRecord(u)) /\ Cardinality(InRecord(u)) \in Nat
         /\ IsFiniteSet(PastRate(u)) /\ Cardinality(PastRate(u)) \in Nat
         /\ Cardinality(InRecord(u)) <= Cardinality(PastRate(u))
         /\ Cardinality(PastRate(u)) <= Cardinality(SponsorRequest) /\ Cardinality(SponsorRequest) \in Nat
<1>1. PastRate(u) \in SUBSET SponsorRequest /\ InRecord(u) \in SUBSET PastRate(u) /\ IsFiniteSet(SponsorRequest)
  BY ClaimsAssumption DEF PastRate, InRecord
<1> HIDE DEF PastRate, InRecord
<1> QED
  BY <1>1, CardSub, FS_CardinalityType

LEMMA SponsorsBegin == ClaimsInit => SponsorInv
<1> SUFFICES ASSUME ClaimsInit PROVE SponsorInv
  OBVIOUS
<1>1. NoSponsorship \in Sponsorship /\ NoSponsorship.pc = "idle"
  BY DEF NoSponsorship, Sponsorship
<1>2. SponsorTypes
  BY <1>1 DEF ClaimsInit, SponsorTypes
<1>3. \A u \in Claimant : InRecord(u) = {} /\ PastRate(u) = {}
  BY <1>1 DEF ClaimsInit, InRecord, PastRate
<1>4. Cardinality({}) = 0 /\ Cardinality(SponsorRequest) \in Nat /\ SponsorshipCap \in Nat \ {0}
  BY FS_EmptySet, FS_CardinalityType, ClaimsAssumption
<1>5. SponsorCounts
  <2> SUFFICES ASSUME NEW u \in Claimant
               PROVE  /\ submitted[u] <= sponsoredClaims[u] + Cardinality(InRecord(u)) + lostRecords
                      /\ sponsoredClaims[u] + Cardinality(PastRate(u)) + 1 <= SponsorshipCap + Cardinality(SponsorRequest)
    BY DEF SponsorCounts
  <2>1. Cardinality(InRecord(u)) = 0 /\ Cardinality(PastRate(u)) = 0
    BY <1>3, <1>4
  <2>2. submitted[u] = 0 /\ sponsoredClaims[u] = 0 /\ lostRecords = 0
    BY DEF ClaimsInit
  <2> QED
    BY <1>4, <2>1, <2>2
<1> QED
  BY <1>2, <1>5 DEF SponsorInv

\* A request that moves without being counted or submitting: it enters, or passes the
\* rate check below the cap, or goes on, or ends before it has submitted.
LEMMA RequestMoves ==
  ASSUME SponsorInv, NEW q \in SponsorRequest, NEW r \in Sponsorship, sponsorship' = [sponsorship EXCEPT ![q] = r],
         UNCHANGED <<submitted, sponsoredClaims, lostRecords>>,
         sponsorship[q].pc # "record", r.pc # "record",
         \/ r.pc \in {"idle", "rate"}
         \/ r.user = sponsorship[q].user /\ sponsorship[q].pc \in {"balance", "submit"}
         \/ r.user = sponsorship[q].user /\ (r.user \in Claimant => sponsoredClaims[r.user] < SponsorshipCap)
  PROVE  SponsorInv'
<1> USE DEF SponsorInv
<1>1. /\ sponsorship'[q] = r /\ \A p \in SponsorRequest \ {q} : sponsorship'[p] = sponsorship[p]
      /\ sponsorship' \in [SponsorRequest -> Sponsorship]
  BY DEF SponsorTypes
<1>2. SponsorTypes'
  BY <1>1 DEF SponsorTypes
<1>3. ASSUME NEW u \in Claimant
      PROVE  /\ submitted'[u] <= sponsoredClaims'[u] + Cardinality(InRecord(u)') + lostRecords'
             /\ sponsoredClaims'[u] + Cardinality(PastRate(u)') + 1 <= SponsorshipCap + Cardinality(SponsorRequest)
  <2>1. InRecord(u)' = InRecord(u)
    BY <1>1 DEF InRecord
  <2>2. CASE PastRate(u)' \in SUBSET PastRate(u)
    <3>1. Cardinality(PastRate(u)') <= Cardinality(PastRate(u)) /\ Cardinality(PastRate(u)') \in Nat
      BY <2>2, RequestCards, CardSub
    <3> QED
      BY <2>1, <3>1, RequestCards, ClaimsAssumption DEF SponsorCounts, SponsorTypes
  <2>3. CASE ~(PastRate(u)' \in SUBSET PastRate(u))
    <3>1. r.user = u /\ sponsoredClaims[u] < SponsorshipCap
      BY <1>1, <2>3 DEF PastRate
    <3>2. PastRate(u)' \in SUBSET SponsorRequest
      BY DEF PastRate
    <3>3. Cardinality(PastRate(u)') <= Cardinality(SponsorRequest) /\ Cardinality(PastRate(u)') \in Nat
      BY <3>2, CardSub, ClaimsAssumption
    <3> QED
      BY <2>1, <3>1, <3>3, RequestCards, ClaimsAssumption DEF SponsorCounts, SponsorTypes
  <2> QED
    BY <2>2, <2>3
<1>4. SponsorCounts'
  BY <1>3 DEF SponsorCounts
<1> QED
  BY <1>2, <1>4

LEMMA SponsorStep == ASSUME SponsorInv, PayingNext \/ RemindersNext PROVE SponsorInv'
<1> USE DEF SponsorshipGoes, SponsorshipEnds
<1>0. /\ SponsorTypes /\ NoSponsorship \in Sponsorship /\ NoSponsorship.pc = "idle"
      /\ \A q \in SponsorRequest : sponsorship[q] \in Sponsorship
  BY DEF SponsorInv, SponsorTypes, NoSponsorship, Sponsorship
<1>1. ASSUME UNCHANGED <<sponsorship, submitted, sponsoredClaims, lostRecords>>  PROVE SponsorInv'
  BY <1>1 DEF SponsorInv, SponsorTypes, SponsorCounts, InRecord, PastRate
<1>2. CASE RemindersNext
  BY <1>1, <1>2 DEF RemindersNext, PayingStands, payingVars, DayPasses, ExtendDeadline, LeafIsClaimed, Sweep, sendOnce,
     recordSent, RecordIsLost, considerOne, AskTheChain, NotifyInApp
<1>3. ASSUME NEW q \in SponsorRequest, NEW u \in Claimant, NEW read \in BOOLEAN, PostSponsorClaim(q, u, read)
      PROVE  SponsorInv'
  <2> DEFINE r == [pc |-> "rate", user |-> u]
  <2>1. /\ sponsorship' = [sponsorship EXCEPT ![q] = r] /\ sponsorship[q].pc = "idle"
        /\ UNCHANGED <<submitted, sponsoredClaims, lostRecords>>
    BY <1>3 DEF PostSponsorClaim
  <2>2. r \in Sponsorship /\ r.pc = "rate"
    BY DEF Sponsorship
  <2> HIDE DEF r
  <2> QED
    BY <2>1, <2>2, RequestMoves
<1>4. ASSUME NEW q \in SponsorRequest, SponsorshipFails(q)  PROVE SponsorInv'
  BY <1>0, <1>4, RequestMoves DEF SponsorshipFails
<1>5. ASSUME NEW q \in SponsorRequest, CheckRate(q)  PROVE SponsorInv'
  <2> DEFINE r == [sponsorship[q] EXCEPT !.pc = "balance"]
  <2>1. sponsorship[q].pc = "rate" /\ UNCHANGED <<submitted, sponsoredClaims, lostRecords>>
    BY <1>5 DEF CheckRate
  <2>2. CASE sponsoredClaims[sponsorship[q].user] >= SponsorshipCap
    BY <1>0, <1>5, <2>1, <2>2, RequestMoves DEF CheckRate
  <2>3. CASE ~(sponsoredClaims[sponsorship[q].user] >= SponsorshipCap)
    <3>1. sponsorship' = [sponsorship EXCEPT ![q] = r]
      BY <1>5, <2>3 DEF CheckRate
    <3>2. r \in Sponsorship /\ r.pc = "balance" /\ r.user = sponsorship[q].user
      BY <1>0 DEF Sponsorship
    <3>3. r.user \in Claimant => sponsoredClaims[r.user] < SponsorshipCap
      BY <1>0, <2>3, <3>2, ClaimsAssumption DEF SponsorTypes
    <3> HIDE DEF r
    <3> QED
      BY <2>1, <3>1, <3>2, <3>3, RequestMoves
  <2> QED
    BY <2>2, <2>3
<1>6. ASSUME NEW q \in SponsorRequest, NEW ok \in BOOLEAN, CheckBalance(q, ok)  PROVE SponsorInv'
  <2> DEFINE r == [sponsorship[q] EXCEPT !.pc = "submit"]
  <2>1. sponsorship[q].pc = "balance" /\ UNCHANGED <<submitted, sponsoredClaims, lostRecords>>
    BY <1>6 DEF CheckBalance
  <2>2. sponsorship' = [sponsorship EXCEPT ![q] = NoSponsorship] \/ sponsorship' = [sponsorship EXCEPT ![q] = r]
    BY <1>6 DEF CheckBalance
  <2>3. r \in Sponsorship /\ r.pc = "submit" /\ r.user = sponsorship[q].user
    BY <1>0 DEF Sponsorship
  <2> HIDE DEF r
  <2> QED
    BY <1>0, <2>1, <2>2, <2>3, RequestMoves
<1>7. ASSUME NEW q \in SponsorRequest, SubmitSponsored(q)  PROVE SponsorInv'
  <2> DEFINE r == [sponsorship[q] EXCEPT !.pc = "record"]
             o == sponsorship[q].user
  <2>1. /\ sponsorship[q].pc = "submit" /\ sponsorship' = [sponsorship EXCEPT ![q] = r]
        /\ submitted' = [submitted EXCEPT ![o] = submitted[o] + 1] /\ UNCHANGED <<sponsoredClaims, lostRecords>>
    BY <1>7 DEF SubmitSponsored
  <2>2. r \in Sponsorship /\ r.pc = "record" /\ r.user = o
    BY <1>0 DEF Sponsorship
  <2> HIDE DEF r
  <2>3. /\ sponsorship'[q] = r /\ \A p \in SponsorRequest \ {q} : sponsorship'[p] = sponsorship[p]
        /\ SponsorTypes'
    <3>1. /\ sponsorship'[q] = r /\ \A p \in SponsorRequest \ {q} : sponsorship'[p] = sponsorship[p]
          /\ sponsorship' \in [SponsorRequest -> Sponsorship]
      BY <1>0, <2>1, <2>2 DEF SponsorTypes
    <3>2. submitted' \in [Claimant -> Nat]
      <4>1. o \in Claimant => submitted[o] + 1 \in Nat
        BY <1>0 DEF SponsorTypes
      <4>2. submitted \in [Claimant -> Nat] /\ submitted' = [submitted EXCEPT ![o] = submitted[o] + 1]
        BY <1>0, <2>1 DEF SponsorTypes
      <4> HIDE DEF o
      <4> QED
        BY <4>1, <4>2
    <3> QED
      BY <1>0, <2>1, <3>1, <3>2 DEF SponsorTypes
  <2>4. ASSUME NEW u \in Claimant
        PROVE  /\ submitted'[u] <= sponsoredClaims'[u] + Cardinality(InRecord(u)') + lostRecords'
               /\ sponsoredClaims'[u] + Cardinality(PastRate(u)') + 1 <= SponsorshipCap + Cardinality(SponsorRequest)
    <3>1. PastRate(u)' = PastRate(u)
      BY <2>1, <2>2, <2>3 DEF PastRate
    <3>2. CASE u = o
      <4>1. InRecord(u)' = InRecord(u) \cup {q} /\ q \notin InRecord(u)
        BY <2>1, <2>2, <2>3, <3>2 DEF InRecord
      <4>2. Cardinality(InRecord(u)') = Cardinality(InRecord(u)) + 1
        BY <4>1, RequestCards, FS_AddElement
      <4>3. submitted'[u] = submitted[u] + 1
        BY <1>0, <2>1, <3>2 DEF SponsorTypes
      <4> QED
        BY <1>0, <2>1, <3>1, <4>2, <4>3, RequestCards DEF SponsorInv, SponsorCounts, SponsorTypes
    <3>3. CASE u # o
      <4>1. InRecord(u)' = InRecord(u)
        BY <2>1, <2>2, <2>3, <3>3 DEF InRecord
      <4>2. submitted'[u] = submitted[u]
        BY <1>0, <2>1, <3>3 DEF SponsorTypes
      <4> QED
        BY <1>0, <2>1, <3>1, <4>1, <4>2 DEF SponsorInv, SponsorCounts, SponsorTypes
    <3> QED
      BY <3>2, <3>3
  <2> QED
    BY <2>3, <2>4 DEF SponsorInv, SponsorCounts
<1>8. ASSUME NEW q \in SponsorRequest, NEW ok \in BOOLEAN, RecordSponsorship(q, ok)  PROVE SponsorInv'
  <2> DEFINE o == sponsorship[q].user
  <2>1. /\ sponsorship[q].pc = "record" /\ sponsorship' = [sponsorship EXCEPT ![q] = NoSponsorship] /\ UNCHANGED submitted
        /\ \/ sponsoredClaims' = [sponsoredClaims EXCEPT ![o] = sponsoredClaims[o] + 1] /\ UNCHANGED lostRecords
           \/ lostRecords' = lostRecords + 1 /\ UNCHANGED sponsoredClaims
    BY <1>8 DEF RecordSponsorship
  <2>2. /\ sponsorship'[q] = NoSponsorship /\ \A p \in SponsorRequest \ {q} : sponsorship'[p] = sponsorship[p]
        /\ SponsorTypes'
    BY <1>0, <2>1 DEF SponsorTypes
  <2>3. ASSUME NEW u \in Claimant
        PROVE  /\ submitted'[u] <= sponsoredClaims'[u] + Cardinality(InRecord(u)') + lostRecords'
               /\ sponsoredClaims'[u] + Cardinality(PastRate(u)') + 1 <= SponsorshipCap + Cardinality(SponsorRequest)
    <3>1. CASE u = o
      <4>1. /\ InRecord(u)' = InRecord(u) \ {q} /\ q \in InRecord(u)
            /\ PastRate(u)' = PastRate(u) \ {q} /\ q \in PastRate(u)
        BY <1>0, <2>1, <2>2, <3>1 DEF InRecord, PastRate
      <4>2. /\ Cardinality(InRecord(u)') = Cardinality(InRecord(u)) - 1
            /\ Cardinality(PastRate(u)') = Cardinality(PastRate(u)) - 1
        BY <4>1, RequestCards, FS_RemoveElement
      <4>3. \/ sponsoredClaims'[u] = sponsoredClaims[u] + 1 /\ lostRecords' = lostRecords
            \/ sponsoredClaims'[u] = sponsoredClaims[u] /\ lostRecords' = lostRecords + 1
        BY <1>0, <2>1, <3>1 DEF SponsorTypes
      <4> QED
        BY <1>0, <2>1, <4>2, <4>3, RequestCards, ClaimsAssumption DEF SponsorInv, SponsorCounts, SponsorTypes
    <3>2. CASE u # o
      <4>1. InRecord(u)' = InRecord(u) /\ PastRate(u)' = PastRate(u)
        BY <1>0, <2>1, <2>2, <3>2 DEF InRecord, PastRate
      <4>2. sponsoredClaims'[u] = sponsoredClaims[u] /\ lostRecords' >= lostRecords
        BY <1>0, <2>1, <3>2 DEF SponsorTypes
      <4> QED
        BY <1>0, <2>1, <2>2, <4>1, <4>2, RequestCards DEF SponsorInv, SponsorCounts, SponsorTypes
    <3> QED
      BY <3>1, <3>2
  <2> QED
    BY <2>2, <2>3 DEF SponsorInv, SponsorCounts
<1>9. ASSUME NEW u \in Claimant, NEW a \in PayAddress, PostNewAddress(u, a)  PROVE SponsorInv'
  BY <1>1, <1>9 DEF PostNewAddress, SponsorStands
<1>10. ASSUME NEW u \in Claimant, ChainExecutes(u) \/ ClaimAlone(u)  PROVE SponsorInv'
  BY <1>1, <1>10 DEF ChainExecutes, ClaimAlone
<1>11. ASSUME NEW e \in EscrowAddress, cmdPublish(e) \/ RecordPublication(e) \/ \E root \in {"ours", "another"} : PublishRoot(e, root)
       PROVE  SponsorInv'
  BY <1>1, <1>11 DEF cmdPublish, RecordPublication, PublishRoot, SponsorStands
<1> QED
  BY <1>2, <1>3, <1>4, <1>5, <1>6, <1>7, <1>8, <1>9, <1>10, <1>11 DEF PayingNext

LEMMA SponsorsSound == ClaimsSpec => []SponsorBounded
<1>1. SponsorInv /\ UNCHANGED claimsVars => SponsorInv'
  BY DEF claimsVars, payingVars, SponsorInv, SponsorTypes, SponsorCounts, InRecord, PastRate
<1>2. ASSUME SponsorInv, NEW u \in Claimant
      PROVE  submitted[u] + 1 <= SponsorshipCap + Cardinality(SponsorRequest) + lostRecords
  BY <1>2, RequestCards, ClaimsAssumption DEF SponsorInv, SponsorTypes, SponsorCounts
<1>3. SponsorInv => SponsorBounded
  BY <1>2 DEF SponsorBounded
<1> QED
  BY <1>1, <1>3, SponsorsBegin, SponsorStep, PTL DEF ClaimsSpec

Urgent == {CHOOSE m \in due : \A k \in due : Schedule[m] <= Schedule[k] : due \in SUBSET DOMAIN Schedule}
Considered == [pc : {"idle", "leaf", "ask", "tell", "record"}, rows : 0..2, deadline : Nat,
               milestone : Urgent \cup {"passed", "none"}]
About(r) == <<r.milestone, r.deadline>>
Deciding(c) == {n \in Notifier : notifier[n].pc \in {"ask", "tell"} /\ About(notifier[n]) = c}
Delivered(c) == {n \in Notifier : notifier[n].pc = "record" /\ About(notifier[n]) = c}

ReminderTypes ==
  /\ notifier \in [Notifier -> Considered] /\ told \in [Reminder -> Nat] /\ lostReminders \in Nat /\ deadlineNo \in Nat

ReminderCounts ==
  \A c \in Reminder :
    /\ c \notin reminded => told[c] <= lostReminders + Cardinality(Delivered(c))
    /\ told[c] + Cardinality(Deciding(c)) <= Cardinality(Notifier) + lostReminders

ReminderInv == ReminderTypes /\ ReminderCounts

LEMMA NotifierCards ==
  ASSUME NEW c
  PROVE  /\ IsFiniteSet(Deciding(c)) /\ Cardinality(Deciding(c)) \in Nat
         /\ IsFiniteSet(Delivered(c)) /\ Cardinality(Delivered(c)) \in Nat /\ Cardinality(Notifier) \in Nat
         /\ Cardinality(Deciding(c)) + Cardinality(Delivered(c)) <= Cardinality(Notifier)
<1>1. /\ Deciding(c) \in SUBSET Notifier /\ Delivered(c) \in SUBSET Notifier /\ IsFiniteSet(Notifier)
      /\ Deciding(c) \cap Delivered(c) = {}
  BY ClaimsAssumption DEF Deciding, Delivered
<1> HIDE DEF Deciding, Delivered
<1> QED
  BY <1>1, CardSub, CardApart, FS_CardinalityType

LEMMA MilestoneKnown == ASSUME NEW d PROVE milestoneFor(d) \in Urgent \cup {"passed", "none"}
BY DEF milestoneFor, Urgent

LEMMA RemindersBegin == ClaimsInit => ReminderInv
<1> SUFFICES ASSUME ClaimsInit PROVE ReminderInv
  OBVIOUS
<1>1. NotConsidering \in Considered /\ NotConsidering.pc = "idle"
  BY DEF NotConsidering, Considered
<1>2. ReminderTypes
  BY <1>1 DEF ClaimsInit, ReminderTypes
<1>3. ASSUME NEW c \in Reminder
      PROVE  /\ told[c] <= lostReminders + Cardinality(Delivered(c))
             /\ told[c] + Cardinality(Deciding(c)) <= Cardinality(Notifier) + lostReminders
  <2>1. told[c] = 0 /\ lostReminders = 0 /\ Deciding(c) = {}
    BY <1>1 DEF ClaimsInit, Deciding
  <2> QED
    BY <2>1, NotifierCards, FS_EmptySet
<1> QED
  BY <1>2, <1>3 DEF ReminderInv, ReminderCounts

\* A notifier goes on, with nothing delivered or recorded: what it decides to tell is
\* not recorded, and what it had told and not recorded counts as lost.
LEMMA NotifierMoves ==
  ASSUME ReminderInv, NEW n \in Notifier, NEW r \in Considered, notifier' = [notifier EXCEPT ![n] = r],
         UNCHANGED <<told, reminded, deadlineNo>>, lostReminders' \in Nat, r.pc # "record",
         lostReminders' = lostReminders + (IF notifier[n].pc = "record" THEN 1 ELSE 0),
         r.pc \in {"ask", "tell"} => \/ About(r) \notin reminded
                                     \/ notifier[n].pc \in {"ask", "tell"} /\ About(r) = About(notifier[n])
  PROVE  ReminderInv'
<1> USE DEF ReminderInv
<1>1. /\ notifier'[n] = r /\ \A m \in Notifier \ {n} : notifier'[m] = notifier[m]
      /\ notifier' \in [Notifier -> Considered]
  BY DEF ReminderTypes
<1>2. ReminderTypes'
  BY <1>1 DEF ReminderTypes
<1>3. ASSUME NEW c \in Reminder
      PROVE  /\ c \notin reminded => told[c] <= lostReminders' + Cardinality(Delivered(c)')
             /\ told[c] + Cardinality(Deciding(c)') <= Cardinality(Notifier) + lostReminders'
  <2>0. told[c] \in Nat /\ lostReminders \in Nat /\ lostReminders' >= lostReminders
    BY DEF ReminderTypes
  <2>9. Delivered(c)' \in SUBSET Notifier /\ Deciding(c)' \in SUBSET Notifier /\ Deciding(c)' \cap Delivered(c)' = {}
    BY DEF Delivered, Deciding
  <2>8. Cardinality(Deciding(c)') + Cardinality(Delivered(c)') <= Cardinality(Notifier)
    BY <2>9, CardApart, ClaimsAssumption
  <2>7. Cardinality(Delivered(c)') \in Nat /\ Cardinality(Deciding(c)') \in Nat
    BY <2>9, CardSub, ClaimsAssumption
  <2>1. c \notin reminded => told[c] <= lostReminders' + Cardinality(Delivered(c)')
    <3>1. CASE n \in Delivered(c)
      <4>1. Delivered(c)' = Delivered(c) \ {n} /\ lostReminders' = lostReminders + 1
        BY <1>1, <3>1 DEF Delivered
      <4>2. Cardinality(Delivered(c)') = Cardinality(Delivered(c)) - 1
        BY <3>1, <4>1, NotifierCards, FS_RemoveElement
      <4> QED
        BY <2>0, <4>1, <4>2, NotifierCards DEF ReminderCounts
    <3>2. CASE n \notin Delivered(c)
      <4>1. Delivered(c)' = Delivered(c)
        BY <1>1, <3>2 DEF Delivered
      <4> QED
        BY <2>0, <4>1, NotifierCards DEF ReminderCounts
    <3> QED
      BY <3>1, <3>2
  <2>2. CASE c \notin reminded
    BY <2>0, <2>1, <2>2, <2>7, <2>8, NotifierCards
  <2>3. CASE c \in reminded
    <3>1. Deciding(c)' \in SUBSET Deciding(c)
      BY <1>1, <2>3 DEF Deciding
    <3>2. Cardinality(Deciding(c)') <= Cardinality(Deciding(c))
      BY <3>1, NotifierCards, CardSub
    <3> QED
      BY <2>0, <2>3, <2>7, <3>2, NotifierCards DEF ReminderCounts
  <2> QED
    BY <2>1, <2>2, <2>3
<1> QED
  BY <1>2, <1>3 DEF ReminderCounts

\* NextRow leaves a row that tells nothing.
LEMMA RowAfter ==
  ASSUME ReminderInv, NEW n \in Notifier, NextRow(n)
  PROVE  \E r \in Considered : notifier' = [notifier EXCEPT ![n] = r] /\ r.pc \in {"idle", "leaf"}
<1>1. NotConsidering \in Considered /\ NotConsidering.pc = "idle" /\ notifier[n] \in Considered
  BY DEF NotConsidering, Considered, ReminderInv, ReminderTypes
<1>2. CASE notifier[n].rows = 1
  BY <1>1, <1>2 DEF NextRow
<1>3. CASE notifier[n].rows # 1
  <2> DEFINE r == [notifier[n] EXCEPT !.pc = "leaf", !.rows = 1, !.milestone = "none"]
  <2>1. r \in Considered /\ r.pc = "leaf"
    <3>1. 1 \in 0..2 /\ "none" \in Urgent \cup {"passed", "none"}
      OBVIOUS
    <3>2. [notifier[n] EXCEPT !.pc = "leaf", !.rows = 1] \in Considered
      BY <1>1, <3>1 DEF Considered
    <3> QED
      BY <1>1, <3>1, <3>2 DEF Considered
  <2>2. notifier' = [notifier EXCEPT ![n] = r]
    BY <1>3 DEF NextRow
  <2> HIDE DEF r
  <2> QED
    BY <2>1, <2>2
<1> QED
  BY <1>2, <1>3

LEMMA ReminderStep == ASSUME ReminderInv, PayingNext \/ RemindersNext PROVE ReminderInv'
<1> USE DEF EscrowStands
<1>0. /\ ReminderTypes /\ NotConsidering \in Considered /\ NotConsidering.pc = "idle" /\ lostReminders \in Nat
      /\ \A n \in Notifier : notifier[n] \in Considered
  BY DEF ReminderInv, ReminderTypes, NotConsidering, Considered
<1>1. ASSUME UNCHANGED <<told, reminded, lostReminders, notifier>>, deadlineNo' \in Nat  PROVE ReminderInv'
  BY <1>1 DEF ReminderInv, ReminderTypes, ReminderCounts, Deciding, Delivered, About
<1>2. CASE PayingNext
  <2>1. UNCHANGED <<told, reminded, lostReminders, notifier, deadlineNo>>
    BY <1>2 DEF PayingNext, RemindersStand, reminderVars, PublishRoot, cmdPublish, RecordPublication, PostNewAddress,
       ChainExecutes, ClaimAlone, PostSponsorClaim, CheckRate, SubmitSponsored, SponsorshipFails, CheckBalance,
       RecordSponsorship
  <2> QED
    BY <1>0, <1>1, <2>1 DEF ReminderTypes
<1>3. CASE DayPasses \/ ExtendDeadline \/ LeafIsClaimed \/ Sweep
  <2>1. UNCHANGED <<told, reminded, lostReminders, notifier>>
    BY <1>3 DEF DayPasses, ExtendDeadline, LeafIsClaimed, Sweep
  <2>2. deadlineNo' \in Nat
    BY <1>0, <1>3 DEF DayPasses, ExtendDeadline, LeafIsClaimed, Sweep, ReminderTypes
  <2> QED
    BY <1>1, <2>1, <2>2
<1>4. ASSUME NEW n \in Notifier, NextRow(n), notifier[n].pc # "record",
             UNCHANGED <<told, reminded, lostReminders, deadlineNo>>
      PROVE  ReminderInv'
  <2>1. PICK r \in Considered : notifier' = [notifier EXCEPT ![n] = r] /\ r.pc \in {"idle", "leaf"}
    BY <1>4, RowAfter
  <2>2. lostReminders' \in Nat /\ lostReminders' = lostReminders + (IF notifier[n].pc = "record" THEN 1 ELSE 0)
    BY <1>0, <1>4
  <2> QED
    BY <1>4, <2>1, <2>2, NotifierMoves
<1>5. ASSUME NEW n \in Notifier, sendOnce(n)  PROVE ReminderInv'
  <2>1. PICK rows \in 1..2 : notifier' = [notifier EXCEPT ![n] = [NotConsidering EXCEPT !.pc = "leaf", !.rows = rows]]
    BY <1>5 DEF sendOnce
  <2> DEFINE r == [NotConsidering EXCEPT !.pc = "leaf", !.rows = rows]
  <2>2. r \in Considered /\ r.pc = "leaf"
    <3>1. rows \in 0..2
      OBVIOUS
    <3> QED
      BY <1>0, <3>1 DEF Considered
  <2>3. notifier' = [notifier EXCEPT ![n] = r]
    BY <2>1
  <2>4. notifier[n].pc = "idle" /\ UNCHANGED <<told, reminded, lostReminders, deadlineNo>>
    BY <1>5 DEF sendOnce
  <2>5. lostReminders' \in Nat /\ lostReminders' = lostReminders + (IF notifier[n].pc = "record" THEN 1 ELSE 0)
    BY <1>0, <2>4
  <2> HIDE DEF r
  <2> QED
    BY <2>2, <2>3, <2>4, <2>5, NotifierMoves
<1>6. ASSUME NEW n \in Notifier, NEW ok \in BOOLEAN, considerOne(n, ok)  PROVE ReminderInv'
  <2> DEFINE d == IF notifier[n].deadline = 0 THEN deadlineNo ELSE notifier[n].deadline
             m == milestoneFor(d)
             r == [notifier[n] EXCEPT !.pc = "ask", !.deadline = d, !.milestone = m]
  <2>1. notifier[n].pc = "leaf" /\ UNCHANGED <<told, reminded, lostReminders, deadlineNo>>
    BY <1>6 DEF considerOne
  <2>2. CASE NextRow(n)
    BY <1>4, <2>1, <2>2
  <2>3. CASE ~NextRow(n)
    <3>1. notifier' = [notifier EXCEPT ![n].pc = "ask", ![n].deadline = d, ![n].milestone = m] /\ <<m, d>> \notin reminded
      BY <1>6, <2>3 DEF considerOne
    <3>2. d \in Nat
      BY <1>0 DEF ReminderTypes, Considered
    <3>3. m \in Urgent \cup {"passed", "none"}
      BY MilestoneKnown
    <3> HIDE DEF d, m
    <3>4. r \in Considered /\ r.pc = "ask" /\ About(r) = <<m, d>>
      BY <1>0, <3>2, <3>3 DEF Considered, About
    <3>5. notifier' = [notifier EXCEPT ![n] = r]
      BY <1>0, <3>1 DEF ReminderTypes
    <3>6. lostReminders' \in Nat /\ lostReminders' = lostReminders + (IF notifier[n].pc = "record" THEN 1 ELSE 0)
      BY <1>0, <2>1
    <3> HIDE DEF r
    <3> QED
      BY <2>1, <3>1, <3>4, <3>5, <3>6, NotifierMoves
  <2> QED
    BY <2>2, <2>3
<1>7. ASSUME NEW n \in Notifier, NEW ok \in BOOLEAN, AskTheChain(n, ok)  PROVE ReminderInv'
  <2> DEFINE r == [notifier[n] EXCEPT !.pc = "tell"]
  <2>1. notifier[n].pc = "ask" /\ UNCHANGED <<told, reminded, lostReminders, deadlineNo>>
    BY <1>7 DEF AskTheChain
  <2>2. CASE NextRow(n)
    BY <1>4, <2>1, <2>2
  <2>3. CASE ~NextRow(n)
    <3>1. notifier' = [notifier EXCEPT ![n] = r]
      BY <1>7, <2>3 DEF AskTheChain
    <3>4. r \in Considered /\ r.pc = "tell" /\ About(r) = About(notifier[n])
      BY <1>0 DEF Considered, About
    <3>6. lostReminders' \in Nat /\ lostReminders' = lostReminders + (IF notifier[n].pc = "record" THEN 1 ELSE 0)
      BY <1>0, <2>1
    <3> HIDE DEF r
    <3> QED
      BY <2>1, <3>1, <3>4, <3>6, NotifierMoves
  <2> QED
    BY <2>2, <2>3
<1>8. ASSUME NEW n \in Notifier, RecordIsLost(n)  PROVE ReminderInv'
  <2>1. PICK r \in Considered : notifier' = [notifier EXCEPT ![n] = r] /\ r.pc \in {"idle", "leaf"}
    BY <1>0, <1>8, RowAfter DEF RecordIsLost
  <2>2. notifier[n].pc = "record" /\ lostReminders' = lostReminders + 1 /\ UNCHANGED <<told, reminded, deadlineNo>>
    BY <1>8 DEF RecordIsLost
  <2>3. lostReminders' \in Nat /\ lostReminders' = lostReminders + (IF notifier[n].pc = "record" THEN 1 ELSE 0)
    BY <1>0, <2>2
  <2> QED
    BY <2>1, <2>2, <2>3, NotifierMoves
<1>9. ASSUME NEW n \in Notifier, NEW ok \in BOOLEAN, NotifyInApp(n, ok)  PROVE ReminderInv'
  <2>1. notifier[n].pc = "tell" /\ UNCHANGED <<reminded, lostReminders, deadlineNo>>
    BY <1>9 DEF NotifyInApp
  <2>2. CASE ~ok
    BY <1>4, <1>9, <2>1, <2>2 DEF NotifyInApp
  <2>3. CASE ok
    <3> DEFINE r == [notifier[n] EXCEPT !.pc = "record"]
               p == About(notifier[n])
    <3>1. notifier' = [notifier EXCEPT ![n] = r] /\ told' = [told EXCEPT ![p] = told[p] + 1]
      BY <1>9, <2>3 DEF NotifyInApp, About
    <3>2. r \in Considered /\ r.pc = "record" /\ About(r) = p
      BY <1>0 DEF Considered, About
    <3> HIDE DEF r, p
    <3>3. /\ notifier'[n] = r /\ \A m \in Notifier \ {n} : notifier'[m] = notifier[m]
          /\ notifier' \in [Notifier -> Considered]
      BY <1>0, <3>1, <3>2 DEF ReminderTypes
    <3>4. /\ told' \in [Reminder -> Nat] /\ \A c \in Reminder \ {p} : told'[c] = told[c]
          /\ p \in Reminder => told'[p] = told[p] + 1
      <4>1. p \in Reminder => told[p] + 1 \in Nat
        BY <1>0 DEF ReminderTypes
      <4>2. told \in [Reminder -> Nat]
        BY <1>0 DEF ReminderTypes
      <4> QED
        BY <3>1, <4>1, <4>2
    <3>5. ReminderTypes'
      BY <1>0, <2>1, <3>3, <3>4 DEF ReminderTypes
    <3>6. ASSUME NEW c \in Reminder
          PROVE  /\ c \notin reminded => told'[c] <= lostReminders + Cardinality(Delivered(c)')
                 /\ told'[c] + Cardinality(Deciding(c)') <= Cardinality(Notifier) + lostReminders
      <4>0. told[c] \in Nat
        BY <1>0 DEF ReminderTypes
      <4>1. CASE c = p
        <5>1. /\ Delivered(c)' = Delivered(c) \cup {n} /\ n \notin Delivered(c)
              /\ Deciding(c)' = Deciding(c) \ {n} /\ n \in Deciding(c)
          BY <2>1, <3>2, <3>3, <4>1 DEF Delivered, Deciding, p
        <5>2. /\ Cardinality(Delivered(c)') = Cardinality(Delivered(c)) + 1
              /\ Cardinality(Deciding(c)') = Cardinality(Deciding(c)) - 1
          <6>1. Cardinality(Delivered(c) \cup {n}) = Cardinality(Delivered(c)) + 1
            BY <5>1, NotifierCards, FS_AddElement
          <6>2. Cardinality(Deciding(c) \ {n}) = Cardinality(Deciding(c)) - 1
            BY <5>1, NotifierCards, FS_RemoveElement
          <6> QED
            BY <5>1, <6>1, <6>2
        <5> QED
          BY <1>0, <3>4, <4>0, <4>1, <5>2, NotifierCards DEF ReminderInv, ReminderCounts
      <4>2. CASE c # p
        <5>1. Delivered(c)' = Delivered(c) /\ Deciding(c)' = Deciding(c)
          BY <2>1, <3>2, <3>3, <4>2 DEF Delivered, Deciding, p
        <5> QED
          BY <1>0, <3>4, <4>0, <4>2, <5>1 DEF ReminderInv, ReminderCounts
      <4> QED
        BY <4>1, <4>2
    <3> QED
      BY <2>1, <3>5, <3>6 DEF ReminderInv, ReminderCounts
  <2> QED
    BY <2>2, <2>3
<1>10. ASSUME NEW n \in Notifier, recordSent(n)  PROVE ReminderInv'
  <2> DEFINE p == About(notifier[n])
  <2>1. /\ notifier[n].pc = "record" /\ reminded' = reminded \cup {p}
        /\ UNCHANGED <<told, lostReminders, deadlineNo>> /\ NextRow(n)
    BY <1>10 DEF recordSent, About
  <2>2. PICK r \in Considered : notifier' = [notifier EXCEPT ![n] = r] /\ r.pc \in {"idle", "leaf"}
    BY <2>1, RowAfter
  <2>3. /\ notifier'[n] = r /\ \A m \in Notifier \ {n} : notifier'[m] = notifier[m]
        /\ notifier' \in [Notifier -> Considered]
    BY <1>0, <2>2 DEF ReminderTypes
  <2>4. ReminderTypes'
    BY <1>0, <2>1, <2>3 DEF ReminderTypes
  <2>5. ASSUME NEW c \in Reminder
        PROVE  /\ c \notin reminded' => told[c] <= lostReminders + Cardinality(Delivered(c)')
               /\ told[c] + Cardinality(Deciding(c)') <= Cardinality(Notifier) + lostReminders
    <3>1. Deciding(c)' = Deciding(c)
      BY <2>1, <2>2, <2>3 DEF Deciding
    <3>2. CASE c \notin reminded'
      <4>1. c \notin reminded /\ c # p
        BY <2>1, <3>2
      <4>2. Delivered(c)' = Delivered(c)
        BY <2>1, <2>2, <2>3, <4>1 DEF Delivered
      <4> QED
        BY <3>1, <4>1, <4>2 DEF ReminderInv, ReminderCounts
    <3>3. CASE c \in reminded'
      BY <3>1, <3>3 DEF ReminderInv, ReminderCounts
    <3> QED
      BY <3>2, <3>3
  <2> QED
    BY <2>1, <2>4, <2>5 DEF ReminderInv, ReminderCounts
<1> QED
  BY <1>2, <1>3, <1>5, <1>6, <1>7, <1>8, <1>9, <1>10 DEF RemindersNext

LEMMA RemindersSound == ClaimsSpec => []RemindedOnce
<1>1. ReminderInv /\ UNCHANGED claimsVars => ReminderInv'
  BY DEF claimsVars, reminderVars, ReminderInv, ReminderTypes, ReminderCounts, Deciding, Delivered, About
<1>2. ASSUME ReminderInv, NEW c \in Reminder
      PROVE  told[c] <= Cardinality(Notifier) + lostReminders
  BY <1>2, NotifierCards DEF ReminderInv, ReminderTypes, ReminderCounts
<1>3. ReminderInv => RemindedOnce
  BY <1>2 DEF RemindedOnce
<1> QED
  BY <1>1, <1>3, RemindersBegin, ReminderStep, PTL DEF ClaimsSpec

-----------------------------------------------------------------------------
(* The founding programme. An approval that is counted and not committed holds    *)
(* the only lock there is, over a row that nobody else moves meanwhile: the place *)
(* that was counted is still free when the commit takes it. Whoever is verified   *)
(* and approved has a seat or a task that has not passed the assignment yet; one  *)
(* task at a time holds a number, the next one, with the boundaries in force.     *)

Submission == [Contributor -> {"none", "pending", "approved", "rejected", "revoked"}]

ApprovalInv ==
  /\ submission \in Submission /\ approving \in SUBSET Contributor
  /\ \A p, q \in approving : p = q
  /\ \A p \in approving : submission[p] = "pending"
  /\ Cardinality(Approved) <= ApprovalCap
  /\ approving # {} => Cardinality(Approved) < ApprovalCap

LEMMA ApprovedFinite ==
  ASSUME NEW A, A \in SUBSET Contributor
  PROVE  IsFiniteSet(A) /\ Cardinality(A) \in Nat
<1>1. IsFiniteSet(A)
  BY FoundingAssumption, FS_Subset
<1> QED
  BY <1>1, FS_CardinalityType

LEMMA ApprovalsBegin == FoundingInit => ApprovalInv
<1> SUFFICES ASSUME FoundingInit PROVE ApprovalInv
  OBVIOUS
<1>1. submission \in Submission /\ approving = {} /\ Approved = {}
  BY FoundingAssumption DEF FoundingInit, Submission, Approved
<1>2. Cardinality(Approved) = 0
  BY <1>1, FS_EmptySet
<1> QED
  BY <1>1, <1>2, FoundingAssumption DEF ApprovalInv

\* A decision over a row whose approval is not under way: it frees a place or none.
LEMMA FewerApproved ==
  ASSUME ApprovalInv, NEW p \in Contributor, p \notin approving, UNCHANGED approving,
         NEW s \in {"pending", "rejected", "revoked"}, submission' = [submission EXCEPT ![p] = s]
  PROVE  ApprovalInv'
<1>1. submission' \in Submission /\ Approved' \subseteq Approved /\ Approved \in SUBSET Contributor
  BY DEF ApprovalInv, Submission, Approved
<1>2. Cardinality(Approved') <= Cardinality(Approved) /\ Cardinality(Approved) \in Nat
      /\ Cardinality(Approved') \in Nat
  BY <1>1, ApprovedFinite, FS_Subset
<1>3. \A q \in approving : submission'[q] = submission[q]
  BY DEF ApprovalInv, Submission
<1> QED
  BY <1>1, <1>2, <1>3, FoundingAssumption DEF ApprovalInv

LEMMA ApprovalStep == ASSUME ApprovalInv, [FoundingNext]_foundingVars PROVE ApprovalInv'
<1>1. CASE UNCHANGED <<submission, approving>>
  BY <1>1 DEF ApprovalInv, Approved
<1>2. ASSUME NEW p \in Contributor, SubmitAll(p)  PROVE ApprovalInv'
  BY <1>2, FewerApproved DEF SubmitAll
<1>3. ASSUME NEW p \in Contributor, NEW to \in {"rejected", "revoked"}, decide(p, to)  PROVE ApprovalInv'
  BY <1>3, FewerApproved DEF decide
<1>4. ASSUME NEW p \in Contributor, CountApproved(p)  PROVE ApprovalInv'
  BY <1>4 DEF CountApproved, ApprovalInv, Approved, socialFollowCanTransition
<1>5. ASSUME NEW p \in Contributor, ApprovalRollsBack(p)  PROVE ApprovalInv'
  BY <1>5 DEF ApprovalRollsBack, ApprovalInv, Approved
<1>6. ASSUME NEW p \in Contributor, NEW t \in Task, CommitApproval(t, p)  PROVE ApprovalInv'
  <2>1. /\ p \in approving /\ approving' = {} /\ submission' = [submission EXCEPT ![p] = "approved"]
        /\ Cardinality(Approved) < ApprovalCap
    BY <1>6 DEF CommitApproval, ApprovalInv
  <2>2. submission' \in Submission /\ Approved' = Approved \cup {p} /\ p \notin Approved /\ Approved \in SUBSET Contributor
    BY <2>1 DEF ApprovalInv, Submission, Approved
  <2>3. IsFiniteSet(Approved) /\ Cardinality(Approved) \in Nat
    BY <2>2, ApprovedFinite
  <2>4. Cardinality(Approved') = Cardinality(Approved) + 1
    BY <2>2, <2>3, FS_AddElement
  <2> QED
    BY <2>1, <2>2, <2>3, <2>4, FoundingAssumption DEF ApprovalInv
<1> QED
  BY <1>1, <1>2, <1>3, <1>4, <1>5, <1>6 DEF FoundingNext, foundingVars, FactsStand, Verified, Unverified, SetBoundaries,
     LoadConfig, OnSocialFollowApproved, AssignWave, Allocate, CommitSeat, grantCapped, CommitGrant,
     maybeCompleteReferral, TaskLost

LEMMA ApprovalsSound == FoundingSpec => []ApprovalsCapped
<1>1. ApprovalInv => ApprovalsCapped
  BY DEF ApprovalInv, ApprovalsCapped
<1> QED
  BY <1>1, ApprovalsBegin, ApprovalStep, PTL DEF FoundingSpec

TaskFields == {"pc", "event", "who", "cfg", "value"}
Taking == {"load", "status", "assign", "lock", "seat"}   \* steps after which a seat still comes

\* What is known of a task; the shares it is granted are counted elsewhere.
TaskSound(r) ==
  /\ DOMAIN r = TaskFields /\ r.who \in Contributor /\ r.event \in {"none", "verified", "approved"}
  /\ r.pc \in Taking \cup {"none", "cap", "grant", "refer"} /\ r.cfg \in Boundaries \cup {Unset}
  /\ r.pc \in Taking \ {"load"} => r.cfg \in Boundaries

SeatTypes ==
  /\ DOMAIN task = Task /\ \A t \in Task : TaskSound(task[t])
  /\ seats \in Seq(Contributor \X {"founding", "wave_two", "open"})
  /\ config \in Boundaries /\ frozen \in Boundaries \cup {Unset} /\ submission \in Submission

\* The number a task holds is the next one, and its boundaries are those in force.
HoldsNext(r, f, s) == r.pc = "seat" => r.value = Len(s) + 1 /\ (f = Unset \/ r.cfg = f)
NumbersApart ==
  /\ \A t \in Task : HoldsNext(task[t], frozen, seats)
  /\ \A t, u \in Task : task[t].pc = "seat" /\ task[u].pc = "seat" => t = u

Coming(p) == \E t \in Task : task[t].who = p /\ task[t].pc \in Taking
SeatComes == \A p \in passed \cap Approved : Seated(p) \/ p \in stranded \/ Coming(p)

SeatInv == SeatTypes /\ NumbersApart /\ WavesAsAnnounced /\ SeatComes

LEMMA SeatsBegin == FoundingInit => SeatInv
<1> SUFFICES ASSUME FoundingInit PROVE SeatInv
  OBVIOUS
<1>1. TaskSound(NoTask) /\ NoTask.pc = "none"
  BY FoundingAssumption DEF NoTask, TaskSound, TaskFields, Taking
<1>2. SeatTypes
  BY <1>1, FoundingAssumption DEF FoundingInit, SeatTypes, Submission
<1>3. NumbersApart
  BY <1>1 DEF FoundingInit, NumbersApart, HoldsNext
<1>4. WavesAsAnnounced
  BY DEF FoundingInit, WavesAsAnnounced
<1>5. SeatComes
  BY FoundingAssumption DEF FoundingInit, SeatComes, Approved
<1> QED
  BY <1>2, <1>3, <1>4, <1>5 DEF SeatInv

\* One task goes on, and no seat is given: either it still holds what its person is
\* waiting for, or nobody waits for it any more.
LEMMA TaskMoves ==
  ASSUME SeatInv, NEW t \in Task, NEW r, TaskSound(r), task' = [task EXCEPT ![t] = r],
         UNCHANGED <<seats, submission, passed, config>>, stranded \subseteq stranded',
         frozen' \in Boundaries \cup {Unset},
         \/ frozen' = frozen
         \/ frozen' # Unset /\ frozen = Unset /\ task[t].pc = "seat" /\ r.pc # "seat",
         r.pc = "seat" => /\ r.value = Len(seats) + 1 /\ (frozen = Unset \/ r.cfg = frozen)
                          /\ frozen' = frozen /\ \A u \in Task : task[u].pc # "seat",
         \/ r.pc \in Taking /\ r.who = task[t].who
         \/ task[t].pc \notin Taking
         \/ task[t].who \notin passed \cap Approved \/ task[t].who \in stranded' \/ Seated(task[t].who)
  PROVE  SeatInv'
<1> USE DEF SeatInv
<1>1. task'[t] = r /\ DOMAIN task' = Task /\ \A u \in Task \ {t} : task'[u] = task[u]
  BY DEF SeatTypes
<1>2. SeatTypes'
  BY <1>1 DEF SeatTypes
<1>3. NumbersApart'
  <2>1. \A u \in Task \ {t} : HoldsNext(task[u], frozen, seats)' 
    BY <1>1 DEF NumbersApart, HoldsNext
  <2>2. HoldsNext(task[t], frozen, seats)'
    BY <1>1 DEF HoldsNext
  <2>3. \A u, v \in Task : task'[u].pc = "seat" /\ task'[v].pc = "seat" => u = v
    BY <1>1 DEF NumbersApart
  <2> QED
    BY <2>1, <2>2, <2>3 DEF NumbersApart
<1>4. WavesAsAnnounced'
  <2> SUFFICES ASSUME NEW n \in DOMAIN seats  PROVE frozen' # Unset /\ seats[n][2] = WaveFor(frozen', n)
    BY DEF WavesAsAnnounced
  <2>1. frozen # Unset /\ seats[n][2] = WaveFor(frozen, n)
    BY DEF WavesAsAnnounced
  <2> QED
    BY <2>1
<1>5. SeatComes'
  <2> SUFFICES ASSUME NEW p \in passed \cap Approved, ~Seated(p), p \notin stranded'  PROVE Coming(p)'
    BY DEF SeatComes, Approved, Seated
  <2>1. PICK u \in Task : task[u].who = p /\ task[u].pc \in Taking
    BY DEF SeatComes, Coming
  <2> QED
    BY <1>1, <2>1 DEF Coming
<1> QED
  BY <1>2, <1>3, <1>4, <1>5

\* Somebody becomes verified or approved, and a free task begins for them.
LEMMA TaskBegins ==
  ASSUME SeatInv, NEW t \in Task, NEW p \in Contributor, NEW event \in {"verified", "approved"},
         Starts(t, event, p), UNCHANGED <<seats, frozen, stranded, config>>,
         submission' \in Submission, \A q \in Contributor \ {p} : submission'[q] = submission[q],
         passed' \subseteq passed \cup {p}
  PROVE  SeatInv'
<1> DEFINE r == [NoTask EXCEPT !.pc = "load", !.event = event, !.who = p]
<1>1. task' = [task EXCEPT ![t] = r] /\ task[t].pc = "none"
  BY DEF Starts
<1>2. TaskSound(r) /\ r.pc = "load" /\ r.who = p
  BY DEF NoTask, TaskSound, TaskFields, Taking
<1> HIDE DEF r
<1> USE DEF SeatInv
<1>3. task'[t] = r /\ DOMAIN task' = Task /\ \A u \in Task \ {t} : task'[u] = task[u]
  BY <1>1 DEF SeatTypes
<1>4. SeatTypes'
  BY <1>2, <1>3 DEF SeatTypes
<1>5. NumbersApart' /\ WavesAsAnnounced'
  BY <1>2, <1>3 DEF NumbersApart, HoldsNext, WavesAsAnnounced
<1>6. SeatComes'
  <2> SUFFICES ASSUME NEW q \in passed' \cap Approved', ~Seated(q), q \notin stranded  PROVE Coming(q)'
    BY DEF SeatComes, Seated
  <2>1. CASE q = p
    BY <1>2, <1>3, <2>1 DEF Coming, Taking
  <2>2. CASE q # p
    <3>1. PICK u \in Task : task[u].who = q /\ task[u].pc \in Taking
      BY <2>2 DEF SeatComes, Coming, Approved
    <3> QED
      BY <1>1, <1>3, <3>1 DEF Coming, Taking
  <2> QED
    BY <2>1, <2>2
<1> QED
  BY <1>4, <1>5, <1>6

\* A task that leaves the seat behind, given or not.
LEMMA AfterSeatSound ==
  ASSUME SeatInv, NEW t \in Task, AfterSeat(t)
  PROVE  \E r : /\ TaskSound(r) /\ task' = [task EXCEPT ![t] = r] /\ r.pc \notin Taking
<1>1. CASE task[t].event = "verified"
  <2> DEFINE r == [task[t] EXCEPT !.pc = "cap"]
  <2>1. TaskSound(r) /\ r.pc \notin Taking
    BY DEF SeatInv, SeatTypes, TaskSound, TaskFields, Taking
  <2>2. task' = [task EXCEPT ![t] = r]
    BY <1>1 DEF AfterSeat, GoesOn, SeatInv, SeatTypes
  <2> QED
    BY <2>1, <2>2
<1>2. CASE task[t].event # "verified"
  <2>1. TaskSound(NoTask) /\ NoTask.pc \notin Taking
    BY FoundingAssumption DEF NoTask, TaskSound, TaskFields, Taking
  <2> QED
    BY <1>2, <2>1 DEF AfterSeat, Drop
<1> QED
  BY <1>1, <1>2

\* The seat is given: the next number, the wave of the boundaries in force.
LEMMA SeatGiven ==
  ASSUME SeatInv, NEW t \in Task, NEW r, TaskSound(r), r.pc \notin Taking, task' = [task EXCEPT ![t] = r],
         task[t].pc = "seat", UNCHANGED <<submission, passed, config, stranded>>,
         seats' = Append(seats, <<task[t].who, WaveFor(task[t].cfg, task[t].value)>>),
         frozen' = IF frozen = Unset THEN task[t].cfg ELSE frozen
  PROVE  SeatInv'
<1> USE DEF SeatInv
<1> DEFINE w == WaveFor(task[t].cfg, task[t].value)
<1>1. task'[t] = r /\ DOMAIN task' = Task /\ \A u \in Task \ {t} : task'[u] = task[u]
  BY DEF SeatTypes
<1>2. /\ task[t].cfg \in Boundaries /\ task[t].value = Len(seats) + 1 /\ task[t].who \in Contributor
      /\ frozen' = task[t].cfg /\ frozen' # Unset /\ (frozen # Unset => frozen' = frozen)
  BY FoundingAssumption DEF SeatTypes, TaskSound, Taking, NumbersApart, HoldsNext
<1>3. w \in {"founding", "wave_two", "open"}
  BY DEF WaveFor
<1> HIDE DEF w
<1>4. /\ seats' \in Seq(Contributor \X {"founding", "wave_two", "open"}) /\ Len(seats') = Len(seats) + 1
      /\ \A n \in DOMAIN seats : seats'[n] = seats[n]
      /\ seats'[Len(seats) + 1] = <<task[t].who, w>> /\ DOMAIN seats' = DOMAIN seats \cup {Len(seats) + 1}
      /\ seats' = Append(seats, <<task[t].who, w>>)
  <2>1. seats \in Seq(Contributor \X {"founding", "wave_two", "open"}) /\ seats' = Append(seats, <<task[t].who, w>>)
    BY DEF SeatTypes, w
  <2>2. <<task[t].who, w>> \in Contributor \X {"founding", "wave_two", "open"}
    BY <1>2, <1>3
  <2> QED
    BY <2>1, <2>2
<1>5. SeatTypes'
  BY <1>1, <1>2, <1>4 DEF SeatTypes
<1>6. NumbersApart'
  BY <1>1 DEF NumbersApart, HoldsNext, Taking
<1>7. WavesAsAnnounced'
  <2> SUFFICES ASSUME NEW n \in DOMAIN seats'  PROVE seats'[n][2] = WaveFor(frozen', n)
    BY <1>2 DEF WavesAsAnnounced
  <2>1. CASE n \in DOMAIN seats
    <3>1. frozen # Unset /\ seats[n][2] = WaveFor(frozen, n)
      BY <2>1 DEF WavesAsAnnounced
    <3> QED
      BY <1>2, <1>4, <2>1, <3>1
  <2>2. CASE n = Len(seats) + 1
    <3>1. w = WaveFor(frozen', n)
      BY <1>2, <2>2 DEF w
    <3> QED
      BY <1>4, <2>2, <3>1
  <2> QED
    BY <1>4, <2>1, <2>2
<1>8. SeatComes'
  <2> SUFFICES ASSUME NEW p \in passed \cap Approved, p \notin stranded  PROVE Seated(p)' \/ Coming(p)'
    BY DEF SeatComes, Approved
  <2>1. CASE p = task[t].who
    <3>1. Len(seats) + 1 \in DOMAIN seats' /\ seats'[Len(seats) + 1][1] = p
      BY <1>4, <2>1
    <3> QED
      BY <3>1 DEF Seated
  <2>2. CASE p # task[t].who
    <3>1. CASE Seated(p)
      BY <1>4, <3>1 DEF Seated
    <3>2. CASE Coming(p)
      BY <1>1, <2>2, <3>2 DEF Coming
    <3> QED
      BY <3>1, <3>2 DEF SeatComes
  <2> QED
    BY <2>1, <2>2
<1> QED
  BY <1>5, <1>6, <1>7, <1>8

LEMMA SeatStep == ASSUME SeatInv, [FoundingNext]_foundingVars PROVE SeatInv'
<1> USE DEF SeatInv
<1>0. /\ TaskSound(NoTask) /\ NoTask.pc = "none" /\ SeatTypes
      /\ \A t \in Task : TaskSound(task[t])
  BY FoundingAssumption DEF NoTask, TaskSound, TaskFields, Taking, SeatTypes
\* Nothing but who is passed and what is decided changes, and nobody comes in.
<1>1. CASE /\ UNCHANGED <<frozen, seats, task, stranded>> /\ config' \in Boundaries /\ submission' \in Submission
           /\ passed' \subseteq passed /\ Approved' \subseteq Approved
  <2>1. SeatTypes' /\ NumbersApart' /\ WavesAsAnnounced'
    BY <1>1 DEF SeatTypes, NumbersApart, WavesAsAnnounced
  <2>2. SeatComes'
    BY <1>1 DEF SeatComes, Seated, Coming
  <2> QED
    BY <2>1, <2>2
<1>2. ASSUME NEW p \in Contributor, SubmitAll(p)  PROVE SeatInv'
  BY <1>0, <1>1, <1>2 DEF SubmitAll, SeatTypes, Submission, Approved
<1>3. ASSUME NEW p \in Contributor, NEW to \in {"rejected", "revoked"}, decide(p, to)  PROVE SeatInv'
  BY <1>0, <1>1, <1>3 DEF decide, SeatTypes, Submission, Approved
<1>4. ASSUME NEW p \in Contributor, Unverified(p) \/ CountApproved(p) \/ ApprovalRollsBack(p)  PROVE SeatInv'
  BY <1>0, <1>1, <1>4 DEF Unverified, CountApproved, ApprovalRollsBack, SeatTypes, Approved
<1>5. ASSUME NEW b \in Boundaries, SetBoundaries(b)  PROVE SeatInv'
  BY <1>0, <1>1, <1>5 DEF SetBoundaries, SeatTypes, Approved
<1>6. CASE UNCHANGED foundingVars
  BY <1>0, <1>1, <1>6 DEF foundingVars, SeatTypes, Approved
<1>7. ASSUME NEW t \in Task, NEW p \in Contributor, Verified(t, p)  PROVE SeatInv'
  BY <1>0, <1>7, TaskBegins DEF Verified, SeatTypes
<1>8. ASSUME NEW t \in Task, NEW p \in Contributor, CommitApproval(t, p)  PROVE SeatInv'
  <2>1. submission' \in Submission /\ \A q \in Contributor \ {p} : submission'[q] = submission[q]
    BY <1>0, <1>8 DEF CommitApproval, SeatTypes, Submission
  <2> QED
    BY <1>8, <2>1, TaskBegins DEF CommitApproval
<1>9. ASSUME NEW t \in Task, LoadConfig(t)  PROVE SeatInv'
  <2> DEFINE r == [task[t] EXCEPT !.cfg = config, !.pc = IF task[t].event = "approved" THEN "status" ELSE "assign"]
  <2>1. TaskSound(r) /\ r.pc \in Taking \ {"seat"} /\ r.who = task[t].who
    BY <1>0 DEF SeatTypes, TaskSound, TaskFields, Taking
  <2>2. task' = [task EXCEPT ![t] = r] /\ UNCHANGED <<seats, submission, passed, config, frozen, stranded>>
    BY <1>0, <1>9 DEF LoadConfig, FactsStand, SeatTypes
  <2> HIDE DEF r
  <2> QED
    BY <1>0, <2>1, <2>2, TaskMoves DEF SeatTypes
<1>10. ASSUME NEW t \in Task, OnSocialFollowApproved(t)  PROVE SeatInv'
  <2>1. UNCHANGED <<seats, submission, passed, config, frozen, stranded>> /\ task[t].pc = "status"
    BY <1>10 DEF OnSocialFollowApproved, FactsStand
  <2>2. CASE task[t].who \in passed
    <3> DEFINE r == [task[t] EXCEPT !.pc = "assign"]
    <3>1. TaskSound(r) /\ r.pc \in Taking \ {"seat"} /\ r.who = task[t].who
      BY <1>0, <2>1 DEF SeatTypes, TaskSound, TaskFields, Taking
    <3>2. task' = [task EXCEPT ![t] = r]
      BY <1>0, <1>10, <2>2 DEF OnSocialFollowApproved, GoesOn, SeatTypes
    <3> HIDE DEF r
    <3> QED
      BY <1>0, <2>1, <3>1, <3>2, TaskMoves DEF SeatTypes
  <2>3. CASE task[t].who \notin passed
    <3>1. task' = [task EXCEPT ![t] = NoTask]
      BY <1>10, <2>3 DEF OnSocialFollowApproved, Drop
    <3> QED
      BY <1>0, <2>1, <2>3, <3>1, TaskMoves DEF SeatTypes
  <2> QED
    BY <2>2, <2>3
<1>11. ASSUME NEW t \in Task, AssignWave(t)  PROVE SeatInv'
  <2>1. UNCHANGED <<seats, submission, passed, config, frozen, stranded>> /\ task[t].pc = "assign"
    BY <1>11 DEF AssignWave, FactsStand
  <2>2. CASE Seated(task[t].who) \/ submission[task[t].who] # "approved"
    <3>1. AfterSeat(t)
      BY <1>11, <2>2 DEF AssignWave
    <3>2. PICK r : TaskSound(r) /\ task' = [task EXCEPT ![t] = r] /\ r.pc \notin Taking
      BY <3>1, AfterSeatSound
    <3> QED
      BY <1>0, <2>1, <2>2, <3>2, TaskMoves DEF SeatTypes, Taking, Approved
  <2>3. CASE ~(Seated(task[t].who) \/ submission[task[t].who] # "approved")
    <3> DEFINE r == [task[t] EXCEPT !.pc = "lock"]
    <3>1. TaskSound(r) /\ r.pc \in Taking \ {"seat"} /\ r.who = task[t].who
      BY <1>0, <2>1 DEF SeatTypes, TaskSound, TaskFields, Taking
    <3>2. task' = [task EXCEPT ![t] = r]
      BY <1>0, <1>11, <2>3 DEF AssignWave, GoesOn, SeatTypes
    <3> HIDE DEF r
    <3> QED
      BY <1>0, <2>1, <3>1, <3>2, TaskMoves DEF SeatTypes
  <2> QED
    BY <2>2, <2>3
<1>12. ASSUME NEW t \in Task, Allocate(t)  PROVE SeatInv'
  <2> DEFINE r == [task[t] EXCEPT !.pc = "seat", !.value = Len(seats) + 1, !.cfg = BoundsInForce(t)]
  <2>1. /\ UNCHANGED <<seats, submission, passed, config, frozen, stranded>> /\ task[t].pc = "lock"
        /\ \A u \in Task : task[u].pc # "seat"
    BY <1>12 DEF Allocate, FactsStand
  <2>2. BoundsInForce(t) \in Boundaries /\ (frozen = Unset \/ BoundsInForce(t) = frozen)
    BY <1>0, <2>1 DEF BoundsInForce, SeatTypes, TaskSound, Taking
  <2>3. /\ TaskSound(r) /\ r.pc = "seat" /\ r.who = task[t].who /\ r.value = Len(seats) + 1
        /\ r.cfg = BoundsInForce(t)
    BY <1>0, <2>1, <2>2 DEF SeatTypes, TaskSound, TaskFields, Taking
  <2>4. task' = [task EXCEPT ![t] = r]
    BY <1>0, <1>12 DEF Allocate, SeatTypes
  <2> HIDE DEF r
  <2> QED
    BY <1>0, <2>1, <2>2, <2>3, <2>4, TaskMoves DEF SeatTypes, Taking
<1>13. ASSUME NEW t \in Task, CommitSeat(t)  PROVE SeatInv'
  <2>1. /\ UNCHANGED <<submission, passed, config>> /\ task[t].pc = "seat"
        /\ frozen' = IF frozen = Unset THEN task[t].cfg ELSE frozen
    BY <1>13 DEF CommitSeat, FactsStand
  <2>2. task[t].cfg \in Boundaries /\ task[t].value = Len(seats) + 1 /\ Len(seats) \in Nat
    BY <1>0, <2>1 DEF SeatTypes, TaskSound, Taking, NumbersApart, HoldsNext
  <2>3. frozen' \in Boundaries /\ (frozen' = frozen \/ frozen = Unset) /\ frozen' # Unset
    BY <1>0, <2>1, <2>2, FoundingAssumption DEF SeatTypes
  <2>4. AfterSeat(t)
    BY <1>13, <2>2 DEF CommitSeat
  <2>5. PICK r : TaskSound(r) /\ task' = [task EXCEPT ![t] = r] /\ r.pc \notin Taking
    BY <2>4, AfterSeatSound
  <2>6. CASE Seated(task[t].who)
    <3>1. UNCHANGED <<seats, stranded>>
      BY <1>13, <2>6 DEF CommitSeat
    <3> QED
      BY <2>1, <2>3, <2>5, <2>6, <3>1, TaskMoves DEF Taking
  <2>7. CASE ~Seated(task[t].who)
    <3>1. /\ seats' = Append(seats, <<task[t].who, WaveFor(task[t].cfg, task[t].value)>>)
          /\ UNCHANGED stranded
      BY <1>13, <2>2, <2>7 DEF CommitSeat
    <3> QED
      BY <2>1, <2>5, <3>1, SeatGiven
  <2> QED
    BY <2>6, <2>7
\* The shares: these tasks are past the seat.
<1>14. ASSUME NEW t \in Task, NEW r, DOMAIN r = TaskFields, r.who = task[t].who, r.event = task[t].event,
              r.cfg = task[t].cfg, r.pc \in {"grant", "refer"}, task[t].pc \in {"cap", "grant"},
              task' = [task EXCEPT ![t] = r], UNCHANGED <<seats, submission, passed, config, frozen, stranded>>
       PROVE  SeatInv'
  <2>1. TaskSound(r) /\ r.pc \notin Taking /\ task[t].pc \notin Taking
    BY <1>0, <1>14 DEF TaskSound, Taking
  <2> QED
    BY <1>0, <1>14, <2>1, TaskMoves DEF SeatTypes, Taking
<1>15. ASSUME NEW t \in Task, grantCapped(t)  PROVE SeatInv'
  <2>1. /\ UNCHANGED <<seats, submission, passed, config, frozen, stranded>> /\ task[t].pc = "cap"
    BY <1>15 DEF grantCapped, FactsStand
  <2>2. DOMAIN task = Task /\ DOMAIN task[t] = TaskFields
    BY <1>0 DEF SeatTypes, TaskSound
  <2> DEFINE r == [task[t] EXCEPT !.pc = "refer"]
             g == [task[t] EXCEPT !.pc = "grant", !.value = Smaller(ReferralShare, ReferralCap - ReferralTotal)]
  <2>3. task' = [task EXCEPT ![t] = r] \/ task' = [task EXCEPT ![t] = g]
    BY <1>15, <2>2 DEF grantCapped, GoesOn
  <2>4. /\ DOMAIN r = TaskFields /\ r.who = task[t].who /\ r.event = task[t].event /\ r.cfg = task[t].cfg
        /\ r.pc = "refer" /\ DOMAIN g = TaskFields /\ g.who = task[t].who /\ g.event = task[t].event
        /\ g.cfg = task[t].cfg /\ g.pc = "grant"
    BY <2>2 DEF TaskFields
  <2> HIDE DEF r, g
  <2> QED
    BY <1>14, <2>1, <2>3, <2>4
<1>16. ASSUME NEW t \in Task, CommitGrant(t)  PROVE SeatInv'
  <2>1. /\ UNCHANGED <<seats, submission, passed, config, frozen, stranded>> /\ task[t].pc = "grant"
    BY <1>16 DEF CommitGrant, FactsStand
  <2>2. DOMAIN task = Task /\ DOMAIN task[t] = TaskFields
    BY <1>0 DEF SeatTypes, TaskSound
  <2> DEFINE r == [task[t] EXCEPT !.pc = "refer"]
  <2>3. task' = [task EXCEPT ![t] = r]
    BY <1>16, <2>2 DEF CommitGrant, GoesOn
  <2>4. DOMAIN r = TaskFields /\ r.who = task[t].who /\ r.event = task[t].event /\ r.cfg = task[t].cfg /\ r.pc = "refer"
    BY <2>2 DEF TaskFields
  <2> HIDE DEF r
  <2> QED
    BY <1>14, <2>1, <2>3, <2>4
<1>17. ASSUME NEW t \in Task, maybeCompleteReferral(t) \/ TaskLost(t)  PROVE SeatInv'
  <2>1. /\ UNCHANGED <<seats, submission, passed, config, frozen>> /\ task' = [task EXCEPT ![t] = NoTask]
        /\ stranded \subseteq stranded' /\ (task[t].pc = "refer" \/ task[t].who \in stranded')
    BY <1>17 DEF maybeCompleteReferral, TaskLost, FactsStand, Drop
  <2> QED
    BY <1>0, <2>1, TaskMoves DEF SeatTypes, Taking
<1> QED
  BY <1>2, <1>3, <1>4, <1>5, <1>6, <1>7, <1>8, <1>9, <1>10, <1>11, <1>12, <1>13, <1>15, <1>16, <1>17 DEF FoundingNext

LEMMA SeatsComeInWaves == FoundingSpec => [](NobodyStranded /\ WavesAsAnnounced)
<1>1. SeatInv => NobodyStranded /\ WavesAsAnnounced
  BY DEF SeatInv, SeatComes, Coming, NobodyStranded, Taking
<1> QED
  BY <1>1, SeatsBegin, SeatStep, PTL DEF FoundingSpec

(* What referrals earn: the one grant there is at a time was sized under the lock, *)
(* from a total that nothing else moves until it is committed.                     *)

ReferralInv ==
  /\ earned \in [Contributor -> Nat] /\ ReferralTotal <= ReferralCap
  /\ \A t \in Task : task[t].pc = "grant" => /\ task[t].value \in Nat
                                             /\ ReferralTotal + task[t].value <= ReferralCap
  /\ \A t, u \in Task : task[t].pc = "grant" /\ task[u].pc = "grant" => t = u

LEMMA ReferralSums ==
  ASSUME earned \in [Contributor -> Nat]
  PROVE  ReferralTotal = SumFunction(earned) /\ ReferralTotal \in Nat
<1>1. ReferralTotal = SumFunction(earned)
  BY DEF ReferralTotal
<1>2. SumFunctionOnSet(earned, Contributor) \in Nat
  BY FoundingAssumption, SumIsWhole
<1>3. DOMAIN earned = Contributor
  OBVIOUS
<1> QED
  BY <1>1, <1>2, <1>3 DEF SumFunction

LEMMA ReferralsBegin == FoundingInit => ReferralInv
<1> SUFFICES ASSUME FoundingInit PROVE ReferralInv
  OBVIOUS
<1>1. earned \in [Contributor -> Nat] /\ \A t \in Task : task[t].pc = "none"
  BY DEF FoundingInit, NoTask
<1>2. ReferralTotal <= ReferralCap
  <2> DEFINE none == [p \in Contributor |-> 0]
  <2>1. \A p \in Contributor : none[p] = IF p \in {} THEN 1 ELSE 0
    OBVIOUS
  <2>2. earned = none /\ DOMAIN none = Contributor
    BY DEF FoundingInit
  <2> HIDE DEF none
  <2>3. SumFunctionOnSet(none, Contributor) = Cardinality({}) /\ Cardinality({}) = 0
    BY <2>1, FoundingAssumption, SumCounts, FS_EmptySet
  <2>4. ReferralTotal = 0
    BY <1>1, <2>2, <2>3, ReferralSums DEF SumFunction
  <2> QED
    BY <2>4, FoundingAssumption
<1> QED
  BY <1>1, <1>2 DEF ReferralInv

\* Only grantCapped brings a task to its grant.
LEMMA GrantsAreCapped ==
  ASSUME SeatInv, [FoundingNext]_foundingVars, NEW u \in Task, task'[u].pc = "grant", task'[u] # task[u]
  PROVE  grantCapped(u)
<1> USE DEF SeatInv
<1>0. DOMAIN task = Task /\ \A t \in Task : DOMAIN task[t] = TaskFields
  BY DEF SeatTypes, TaskSound
<1>1. ASSUME NEW t \in Task, NEW r, task' = [task EXCEPT ![t] = r], r.pc # "grant"  PROVE FALSE
  BY <1>0, <1>1
<1>2. ASSUME NEW t \in Task, NEW pc, GoesOn(t, pc), pc # "grant"  PROVE FALSE
  BY <1>0, <1>2 DEF GoesOn, TaskFields
<1>3. NoTask.pc = "none"
  BY DEF NoTask
<1>4. ASSUME NEW t \in Task, Drop(t) \/ AfterSeat(t)  PROVE FALSE
  BY <1>1, <1>2, <1>3, <1>4 DEF Drop, AfterSeat
<1>5. ASSUME NEW t \in Task, NEW e, NEW p, Starts(t, e, p)  PROVE FALSE
  <2> DEFINE r == [NoTask EXCEPT !.pc = "load", !.event = e, !.who = p]
  <2>1. r.pc = "load" /\ task' = [task EXCEPT ![t] = r]
    BY <1>5 DEF Starts, NoTask
  <2> HIDE DEF r
  <2> QED
    BY <1>1, <2>1
<1>6. ASSUME NEW t \in Task, LoadConfig(t)  PROVE FALSE
  <2> DEFINE r == [task[t] EXCEPT !.cfg = config, !.pc = IF task[t].event = "approved" THEN "status" ELSE "assign"]
  <2>1. r.pc \in {"status", "assign"} /\ task' = [task EXCEPT ![t] = r]
    BY <1>0, <1>6 DEF LoadConfig, TaskFields
  <2> HIDE DEF r
  <2> QED
    BY <1>1, <2>1
<1>7. ASSUME NEW t \in Task, Allocate(t)  PROVE FALSE
  <2> DEFINE r == [task[t] EXCEPT !.pc = "seat", !.value = Len(seats) + 1, !.cfg = BoundsInForce(t)]
  <2>1. r.pc = "seat" /\ task' = [task EXCEPT ![t] = r]
    BY <1>0, <1>7 DEF Allocate, TaskFields
  <2> HIDE DEF r
  <2> QED
    BY <1>1, <2>1
<1>8. ASSUME NEW t \in Task, grantCapped(t)  PROVE grantCapped(u)
  <2>1. CASE t = u
    BY <1>8, <2>1
  <2>2. CASE t # u
    BY <1>0, <1>8, <2>2 DEF grantCapped, GoesOn
  <2> QED
    BY <2>1, <2>2
<1>9. ASSUME NEW t \in Task, OnSocialFollowApproved(t) \/ AssignWave(t) \/ CommitSeat(t) \/ CommitGrant(t)
                             \/ maybeCompleteReferral(t) \/ TaskLost(t)
      PROVE  FALSE
  BY <1>2, <1>4, <1>9 DEF OnSocialFollowApproved, AssignWave, CommitSeat, CommitGrant, maybeCompleteReferral, TaskLost
<1>10. CASE UNCHANGED task
  BY <1>10
<1> QED
  BY <1>5, <1>6, <1>7, <1>8, <1>9, <1>10 DEF FoundingNext, foundingVars, Verified, Unverified, SubmitAll, decide,
     CountApproved, ApprovalRollsBack, CommitApproval, SetBoundaries

LEMMA ReferralStep == ASSUME SeatInv, ReferralInv, [FoundingNext]_foundingVars PROVE ReferralInv'
<1>0. /\ DOMAIN task = Task /\ \A t \in Task : TaskSound(task[t])
      /\ earned \in [Contributor -> Nat] /\ ReferralTotal \in Nat
  BY ReferralSums DEF SeatInv, SeatTypes, ReferralInv
<1>1. ASSUME UNCHANGED earned  PROVE ReferralInv'
  <2>1. ReferralTotal' = ReferralTotal
    BY <1>1 DEF ReferralTotal
  <2>2. ASSUME NEW u \in Task, task'[u].pc = "grant", task'[u] # task[u]
        PROVE  /\ task'[u].value \in Nat /\ ReferralTotal + task'[u].value <= ReferralCap
               /\ \A t \in Task : task[t].pc # "grant"
               /\ \A t \in Task \ {u} : task'[t] = task[t]
    <3>1. grantCapped(u)
      BY <2>2, GrantsAreCapped
    <3>2. DOMAIN task[u] = TaskFields
      BY <1>0 DEF TaskSound
    <3>3. ~(task[u].who = Referrer \/ ReferralTotal >= ReferralCap)
      BY <1>0, <2>2, <3>1, <3>2 DEF grantCapped, GoesOn, TaskFields
    <3> DEFINE v == Smaller(ReferralShare, ReferralCap - ReferralTotal)
               r == [task[u] EXCEPT !.pc = "grant", !.value = v]
    <3>4. task' = [task EXCEPT ![u] = r] /\ \A t \in Task : task[t].pc # "grant"
      BY <1>0, <3>1, <3>3 DEF grantCapped
    <3>5. v \in Nat /\ ReferralTotal + v <= ReferralCap
      BY <1>0, <3>3, FoundingAssumption DEF Smaller
    <3> HIDE DEF v
    <3>6. r.value = v
      BY <3>2 DEF TaskFields
    <3> HIDE DEF r
    <3> QED
      BY <1>0, <3>4, <3>5, <3>6
  <2>3. \A t \in Task : task'[t].pc = "grant" =>
          /\ task'[t].value \in Nat /\ ReferralTotal + task'[t].value <= ReferralCap
    BY <2>2 DEF ReferralInv
  <2>4. \A t, u \in Task : task'[t].pc = "grant" /\ task'[u].pc = "grant" => t = u
    BY <2>2 DEF ReferralInv
  <2> QED
    BY <1>1, <2>1, <2>3, <2>4 DEF ReferralInv
<1>2. ASSUME NEW t \in Task, CommitGrant(t)  PROVE ReferralInv'
  <2> DEFINE p == task[t].who
             v == IF earned[p] = 0 THEN task[t].value ELSE earned[p]
  <2>1. p \in Contributor /\ task[t].value \in Nat /\ ReferralTotal + task[t].value <= ReferralCap
    BY <1>0, <1>2 DEF TaskSound, ReferralInv, CommitGrant
  <2>2. earned' = [earned EXCEPT ![p] = v] /\ v \in Nat
    BY <1>0, <1>2, <2>1 DEF CommitGrant
  <2>3. earned' \in [Contributor -> Nat]
    BY <1>0, <2>1, <2>2
  <2>4. ReferralTotal' = ReferralTotal - earned[p] + v
    <3>0. earned \in [Contributor -> Int] /\ v \in Int /\ IsFiniteSet(Contributor)
      BY <1>0, <2>2, FoundingAssumption
    <3> HIDE DEF p, v
    <3>1. SumFunction([earned EXCEPT ![p] = v]) = SumFunction(earned) - earned[p] + v
      BY <2>1, <3>0, SumChanges
    <3>2. ReferralTotal' = SumFunction(earned') /\ ReferralTotal = SumFunction(earned)
      BY DEF ReferralTotal
    <3> QED
      BY <2>2, <3>1, <3>2
  <2>5. ReferralTotal' <= ReferralCap
    <3>1. earned[p] \in Nat
      BY <1>0, <2>1
    <3>2. CASE earned[p] = 0
      BY <1>0, <2>1, <2>4, <3>2, FoundingAssumption
    <3>3. CASE earned[p] # 0
      BY <1>0, <2>1, <2>4, <3>1, <3>3, FoundingAssumption DEF ReferralInv
    <3> QED
      BY <3>2, <3>3
  <2>6. ASSUME NEW u \in Task  PROVE task'[u].pc # "grant"
    <3>1. CASE u = t
      BY <1>0, <1>2, <3>1 DEF CommitGrant, GoesOn, TaskSound, TaskFields
    <3>2. CASE u # t
      BY <1>0, <1>2, <3>2 DEF CommitGrant, GoesOn, ReferralInv
    <3> QED
      BY <3>1, <3>2
  <2> QED
    BY <2>3, <2>5, <2>6 DEF ReferralInv
<1> QED
  BY <1>1, <1>2 DEF FoundingNext, foundingVars, FactsStand, Verified, Unverified, SubmitAll, decide, CountApproved,
     CommitApproval, ApprovalRollsBack, SetBoundaries, LoadConfig, OnSocialFollowApproved, AssignWave, Allocate,
     CommitSeat, grantCapped, maybeCompleteReferral, TaskLost

LEMMA ReferralsSound == FoundingSpec => []ReferralsCapped
<1>1. ReferralInv => ReferralsCapped
  BY DEF ReferralInv, ReferralsCapped
<1> QED
  BY <1>1, SeatsBegin, SeatStep, ReferralsBegin, ReferralStep, PTL DEF FoundingSpec

(* The grants for merged pull requests: what a run has taken up and not finished is *)
(* the pull request of its referrer, whose author has been granted.                 *)

Grant == [pc : {"idle", "awards", "referrer", "done"}, loaded : SUBSET Accepted, left : SUBSET Accepted,
          now : Accepted \cup {"none"}, whole : BOOLEAN]

SharesGiven(v, given) == AuthorShare(v) \in given /\ ReferrerShare(v) \subseteq given

GrantSound(r, given) ==
  /\ r \in Grant
  /\ r.pc = "done" => r.left = {}
  /\ r.whole = TRUE => /\ \A v \in r.loaded \ r.left : SharesGiven(v, given) \/ (r.pc = "referrer" /\ v = r.now)
                       /\ r.pc = "referrer" => AuthorShare(r.now) \in given

GrantInv ==
  /\ landedPRs \in SUBSET Accepted /\ DOMAIN granting = GrantRun
  /\ \A g \in GrantRun : GrantSound(granting[g], granted)

LEMMA GrantsBegin == FoundingSettlementInit => GrantInv
<1>1. ASSUME FoundingSettlementInit PROVE GrantInv
  <2>1. GrantSound(NotGranting, granted)
    BY DEF NotGranting, GrantSound, Grant
  <2> QED
    BY <1>1, <2>1 DEF FoundingSettlementInit, GrantInv
<1> QED
  BY <1>1

\* Nothing granted is taken back, so the runs that do not move stay as they are.
LEMMA GrantMoves ==
  ASSUME GrantInv, NEW g \in GrantRun, NEW r, granting' = [granting EXCEPT ![g] = r],
         granted \subseteq granted', UNCHANGED landedPRs, GrantSound(r, granted')
  PROVE  GrantInv'
<1>1. granting'[g] = r /\ DOMAIN granting' = GrantRun /\ \A h \in GrantRun \ {g} : granting'[h] = granting[h]
  BY DEF GrantInv
<1>2. ASSUME NEW h \in GrantRun  PROVE GrantSound(granting'[h], granted')
  <2>1. CASE h = g
    BY <1>1, <2>1 DEF GrantSound, SharesGiven, AuthorShare, ReferrerShare
  <2>2. CASE h # g
    <3>1. GrantSound(granting[h], granted) /\ granting'[h] = granting[h]
      BY <1>1, <2>2 DEF GrantInv
    <3>2. \A v : SharesGiven(v, granted) => SharesGiven(v, granted')
      BY DEF SharesGiven, AuthorShare, ReferrerShare
    <3> QED
      BY <3>1, <3>2 DEF GrantSound, AuthorShare
  <2> QED
    BY <2>1, <2>2
<1> QED
  BY <1>1, <1>2 DEF GrantInv

LEMMA GrantStep == ASSUME GrantInv, [FoundingSettlementNext]_foundingSettlementVars PROVE GrantInv'
<1>1. CASE UNCHANGED <<granted, granting>> /\ landedPRs' \in SUBSET Accepted
  BY <1>1 DEF GrantInv, GrantSound, SharesGiven, AuthorShare, ReferrerShare
<1>2. ASSUME NEW g \in GrantRun, GrantMergedPRShares(g)  PROVE GrantInv'
  <2> DEFINE r == [NotGranting EXCEPT !.pc = "awards", !.loaded = landedPRs, !.left = landedPRs]
  <2>1. GrantSound(r, granted')
    BY DEF NotGranting, GrantSound, Grant, GrantInv
  <2>2. granting' = [granting EXCEPT ![g] = r] /\ UNCHANGED <<landedPRs, granted>>
    BY <1>2 DEF GrantMergedPRShares
  <2> HIDE DEF r
  <2> QED
    BY <2>1, <2>2, GrantMoves
<1>3. ASSUME NEW g \in GrantRun, NEW fails \in BOOLEAN, NEW v \in Accepted, OnMergedPR(g, v, fails)  PROVE GrantInv'
  <2> DEFINE r == [granting[g] EXCEPT !.pc = "referrer", !.now = v, !.left = granting[g].left \ {v},
                                      !.whole = granting[g].whole /\ ~fails]
  <2>a. GrantSound(granting[g], granted)
    BY DEF GrantInv
  <2>0. GrantSound(granting[g], granted) /\ granting[g] \in Grant /\ granting[g].pc = "awards"
    BY <1>3, <2>a DEF GrantSound, OnMergedPR
  <2>b. granting' = [granting EXCEPT ![g] = r] /\ UNCHANGED landedPRs
    BY <1>3 DEF OnMergedPR
  <2>1. /\ granting' = [granting EXCEPT ![g] = r] /\ UNCHANGED landedPRs /\ granted \subseteq granted'
        /\ ~fails => AuthorShare(v) \in granted'
    <3> HIDE DEF r
    <3>1. granted' = IF fails THEN granted ELSE granted \cup {AuthorShare(v)}
      BY <1>3 DEF OnMergedPR
    <3> QED
      BY <2>b, <3>1
  <2>2. /\ r \in Grant /\ r.pc = "referrer" /\ r.now = v /\ r.left = granting[g].left \ {v}
        /\ r.loaded = granting[g].loaded /\ (r.whole = TRUE => granting[g].whole = TRUE /\ ~fails)
    BY <2>0 DEF Grant
  <2> HIDE DEF r
  <2>3. \A w : SharesGiven(w, granted) => SharesGiven(w, granted')
    BY <2>1 DEF SharesGiven, AuthorShare, ReferrerShare
  <2>4. GrantSound(r, granted')
    BY <2>0, <2>1, <2>2, <2>3 DEF GrantSound, AuthorShare
  <2> QED
    BY <2>1, <2>4, GrantMoves
<1>4. ASSUME NEW g \in GrantRun, NEW fails \in BOOLEAN, GrantReferrer(g, fails)  PROVE GrantInv'
  <2> DEFINE r == [granting[g] EXCEPT !.pc = "awards", !.whole = granting[g].whole /\ ~fails]
             v == granting[g].now
  <2>a. GrantSound(granting[g], granted)
    BY DEF GrantInv
  <2>0. GrantSound(granting[g], granted) /\ granting[g] \in Grant /\ granting[g].pc = "referrer"
    BY <1>4, <2>a DEF GrantSound, GrantReferrer
  <2>b. granting' = [granting EXCEPT ![g] = r] /\ UNCHANGED landedPRs
    BY <1>4 DEF GrantReferrer
  <2>1. /\ granting' = [granting EXCEPT ![g] = r] /\ UNCHANGED landedPRs /\ granted \subseteq granted'
        /\ ~fails => ReferrerShare(v) \subseteq granted'
    <3>1. granted' = IF fails THEN granted ELSE granted \cup ReferrerShare(v)
      BY <1>4 DEF GrantReferrer
    <3> HIDE DEF r
    <3> QED
      BY <2>b, <3>1
  <2>2. /\ r \in Grant /\ r.pc = "awards" /\ r.left = granting[g].left
        /\ r.loaded = granting[g].loaded /\ (r.whole = TRUE => granting[g].whole = TRUE /\ ~fails)
    BY <2>0 DEF Grant
  <2> HIDE DEF r
  <2>3. \A w : SharesGiven(w, granted) => SharesGiven(w, granted')
    BY <2>1 DEF SharesGiven, AuthorShare, ReferrerShare
  <2>4. r.whole = TRUE => SharesGiven(v, granted')
    BY <2>0, <2>1, <2>2 DEF GrantSound, SharesGiven, AuthorShare, ReferrerShare
  <2>5. GrantSound(r, granted')
    BY <2>0, <2>2, <2>3, <2>4 DEF GrantSound
  <2> QED
    BY <2>1, <2>5, GrantMoves
<1>5. ASSUME NEW g \in GrantRun, GrantsDone(g)  PROVE GrantInv'
  <2> DEFINE r == [granting[g] EXCEPT !.pc = "done"]
  <2>a. GrantSound(granting[g], granted)
    BY DEF GrantInv
  <2>0. GrantSound(granting[g], granted) /\ granting[g] \in Grant /\ granting[g].pc = "awards" /\ granting[g].left = {}
    BY <1>5, <2>a DEF GrantSound, GrantsDone
  <2>1. granting' = [granting EXCEPT ![g] = r] /\ UNCHANGED <<landedPRs, granted>>
    BY <1>5 DEF GrantsDone, GrantInv
  <2>2. /\ r \in Grant /\ r.pc = "done" /\ r.left = {}
        /\ r.loaded = granting[g].loaded /\ r.whole = granting[g].whole
    BY <2>0 DEF Grant
  <2> HIDE DEF r
  <2>3. GrantSound(r, granted')
    BY <2>0, <2>1, <2>2 DEF GrantSound, SharesGiven, AuthorShare, ReferrerShare
  <2> QED
    BY <2>1, <2>3, GrantMoves
<1>6. ASSUME NEW g \in GrantRun, GrantDies(g)  PROVE GrantInv'
  <2>1. GrantSound(NotGranting, granted')
    BY DEF NotGranting, GrantSound, Grant
  <2> QED
    BY <1>6, <2>1, GrantMoves DEF GrantDies
<1>7. ASSUME NEW v \in Accepted, MergeMirrored(v)  PROVE GrantInv'
  BY <1>1, <1>7 DEF MergeMirrored, GrantInv
<1>8. CASE UNCHANGED <<landedPRs, granted, granting>>
  BY <1>1, <1>8 DEF GrantInv
<1> QED
  BY <1>2, <1>3, <1>4, <1>5, <1>6, <1>7, <1>8 DEF FoundingSettlementNext, foundingSettlementVars, GateMoves,
     LoadMembers, DryRunDone, Eligible

LEMMA GrantsComplete == FoundingSettlementSpec => []GrantsReachAll
<1>1. ASSUME GrantInv, NEW g \in GrantRun, granting[g].pc = "done", granting[g].whole, NEW v \in granting[g].loaded
      PROVE  {AuthorShare(v)} \cup ReferrerShare(v) \subseteq granted
  <2>a. GrantSound(granting[g], granted)
    BY <1>1 DEF GrantInv
  <2>b. granting[g] \in Grant /\ granting[g].left = {}
    BY <1>1, <2>a DEF GrantSound
  <2>1. GrantSound(granting[g], granted) /\ granting[g].whole = TRUE /\ granting[g].left = {}
    BY <1>1, <2>a, <2>b DEF Grant
  <2>2. SharesGiven(v, granted)
    BY <1>1, <2>1 DEF GrantSound
  <2> QED
    BY <2>2 DEF SharesGiven
<1>2. GrantInv => GrantsReachAll
  BY <1>1 DEF GrantsReachAll
<1> QED
  BY <1>2, GrantsBegin, GrantStep, PTL DEF FoundingSettlementSpec

-----------------------------------------------------------------------------
(* The maintainer pool: a holdback is decided once.                               *)

ShareStatus == {"none", "pending", "released", "partially_released", "withheld"}
ShareRow == [gross: Int, holdback: Int, immediate: Int, status: ShareStatus, released: Int, withheld: Int]

StarsSound ==
  /\ DOMAIN stars = Rating
  /\ \A r \in Rating : stars[r].value \in Nat /\ (stars[r] # NoRating => stars[r].value >= 1)

\* What a process read of a holdback is of a row that is there, with the amount it
\* still has unless it was written over since.
CheckSound(k) ==
  release[k] # NoCheck =>
    /\ release[k].repo \in Repository /\ release[k].held \in Int /\ share[release[k].repo].status # "none"
    /\ release[k].repo \notin rewritten => release[k].held = share[release[k].repo].holdback

MaintainerInv ==
  /\ StarsSound
  /\ share \in [Repository -> ShareRow]
  /\ DOMAIN settling = Transition
  /\ \A t \in Transition : \A s \in settling[t] : s[1] \in Repository /\ s[2] \in ShareRow /\ s[2].status = "pending"
  /\ DOMAIN release = Release /\ \A k \in Release : CheckSound(k)
  /\ \A p \in Repository : Decided(p) /\ p \notin rewritten => InFull(p)

LEMMA MeanIsAStar ==
  ASSUME StarsSound, NEW p \in Repository, Cardinality(clarityStats(p)) >= MinRatings
  PROVE  Mean(clarityStats(p)) \in Int /\ Mean(clarityStats(p)) >= 25
<1> DEFINE rated == clarityStats(p)
           given == [r \in rated |-> stars[r].value]
           one == [r \in rated |-> 1]
<1>1. /\ IsFiniteSet(rated) /\ Cardinality(rated) \in Nat /\ Cardinality(rated) > 0
      /\ \A r \in rated : stars[r].value \in Nat /\ stars[r].value >= 1
  <2>1. rated \in SUBSET Rating /\ \A r \in rated : stars[r] # NoRating
    BY DEF clarityStats
  <2>2. IsFiniteSet(rated) /\ Cardinality(rated) \in Nat
    BY <2>1, MaintainerAssumption, FS_Subset, FS_CardinalityType
  <2>3. Cardinality(rated) > 0
    BY <2>2, MaintainerAssumption
  <2> QED
    BY <2>1, <2>2, <2>3 DEF StarsSound
<1>2. Mean(clarityStats(p)) = (25 * SumFunction(given)) \div Cardinality(rated)
  BY DEF Mean
<1> HIDE DEF rated
<1>3. \A r \in rated : given[r] \in Int /\ one[r] \in Int /\ one[r] <= given[r]
  BY <1>1
<1>4. \A r \in rated : one[r] = IF r \in rated THEN 1 ELSE 0
  OBVIOUS
<1>5. DOMAIN given = rated
  OBVIOUS
<1> HIDE DEF given, one
<1>6. SumFunctionOnSet(one, rated) = Cardinality(rated)
  BY <1>1, <1>4, SumCounts
<1>7. SumFunctionOnSet(one, rated) <= SumFunctionOnSet(given, rated)
  BY <1>1, <1>3, SumGrows
<1>8. SumFunctionOnSet(given, rated) \in Int
  BY <1>1, <1>3, SumIsWhole
<1>9. SumFunction(given) \in Int /\ SumFunction(given) >= Cardinality(rated)
  BY <1>5, <1>6, <1>7, <1>8 DEF SumFunction
<1>10. ASSUME NEW n \in Int, NEW c \in Nat, c > 0, n >= c  PROVE (25 * n) \div c \in Int /\ (25 * n) \div c >= 25
  BY <1>10
<1> QED
  BY <1>1, <1>2, <1>9, <1>10

LEMMA ScoreIsWhole ==
  ASSUME StarsSound, NEW p \in Repository
  PROVE  scoreFrom(p) \in Nat
<1> DEFINE total == SumFunctionOnSet(Weight, Included(p))
           marks == [c \in Included(p) |-> Weight[c] * Mark(p, c)]
<1>1. Included(p) \subseteq {"newcomers", "predates", "clarity"}
  BY DEF Included
<1>2. IsFiniteSet({"newcomers", "predates", "clarity"})
  <2>1. IsFiniteSet({"newcomers"})
    BY FS_Singleton
  <2>2. IsFiniteSet({"newcomers"} \cup {"predates"})
    BY <2>1, FS_AddElement
  <2>3. IsFiniteSet(({"newcomers"} \cup {"predates"}) \cup {"clarity"})
    BY <2>2, FS_AddElement
  <2>4. ({"newcomers"} \cup {"predates"}) \cup {"clarity"} = {"newcomers", "predates", "clarity"}
    OBVIOUS
  <2> QED
    BY <2>3, <2>4
<1>3. IsFiniteSet(Included(p))
  BY <1>1, <1>2, FS_Subset
<1>4. \A c \in Included(p) : Weight[c] \in Nat /\ Mark(p, c) \in Nat
  <2> SUFFICES ASSUME NEW c \in Included(p)  PROVE Weight[c] \in Nat /\ Mark(p, c) \in Nat
    OBVIOUS
  <2>1. Weight[c] \in Nat
    BY <1>1, MaintainerAssumption
  <2>2. CASE c = "newcomers"
    BY <2>1, <2>2, MaintainerAssumption DEF Mark
  <2>3. CASE c = "predates"
    BY <2>1, <2>3 DEF Mark
  <2>4. CASE c = "clarity"
    <3>1. Cardinality(clarityStats(p)) >= MinRatings
      BY <2>4 DEF Included
    <3> QED
      BY <2>1, <2>4, <3>1, MeanIsAStar DEF Mark
  <2> QED
    BY <1>1, <2>2, <2>3, <2>4
<1>5. total \in Nat
  BY <1>3, <1>4, SumIsWhole
<1>6. \A c \in Included(p) : marks[c] \in Nat
  BY <1>4
<1>7. DOMAIN marks = Included(p)
  OBVIOUS
<1>8. scoreFrom(p) = IF total = 0 THEN 0 ELSE SumFunction(marks) \div total
  BY DEF scoreFrom
<1> HIDE DEF total, marks
<1>9. SumFunctionOnSet(marks, Included(p)) \in Nat
  BY <1>3, <1>6, SumIsWhole
<1>10. ASSUME NEW n \in Nat, NEW d \in Nat, d # 0  PROVE n \div d \in Nat
  BY <1>10
<1> QED
  BY <1>5, <1>7, <1>8, <1>9, <1>10 DEF SumFunction

LEMMA CentsAreWhole == ASSUME NEW n \in Nat, NEW d \in Nat, d # 0 PROVE ToCents(n, d) \in Nat
BY DEF ToCents

LEMMA AllocationSound ==
  ASSUME StarsSound, NEW p \in Repository
  PROVE  AllocateMaintainerPool(p) \in ShareRow /\ AllocateMaintainerPool(p).status = "pending"
<1> DEFINE scores == [q \in Repository |-> scoreFrom(q)]
           total == SumFunction(scores)
           gross == IF total = 0 THEN 0 ELSE ToCents(MaintainerBudget * scoreFrom(p), total)
           held == ToCents(gross * HoldbackPct, 100)
<1>1. AllocateMaintainerPool(p) =
        [NoShare EXCEPT !.gross = gross, !.holdback = held, !.immediate = gross - held, !.status = "pending"]
  BY DEF AllocateMaintainerPool
<1>2. \A q \in Repository : scores[q] \in Nat
  BY ScoreIsWhole
<1>3. DOMAIN scores = Repository
  OBVIOUS
<1> HIDE DEF scores
<1>4. SumFunctionOnSet(scores, Repository) \in Nat
  BY <1>2, MaintainerAssumption, SumIsWhole
<1>5. total \in Nat
  BY <1>3, <1>4 DEF SumFunction
<1> HIDE DEF total
<1>6. MaintainerBudget * scoreFrom(p) \in Nat
  BY ScoreIsWhole, MaintainerAssumption
<1>7. gross \in Nat
  BY <1>5, <1>6, CentsAreWhole
<1> HIDE DEF gross
<1>8. gross * HoldbackPct \in Nat
  BY <1>7, MaintainerAssumption
<1>9. held \in Nat
  BY <1>8, CentsAreWhole
<1> HIDE DEF held
<1>10. AllocateMaintainerPool(p) = [gross |-> gross, holdback |-> held, immediate |-> gross - held,
                                    status |-> "pending", released |-> 0, withheld |-> 0]
  BY <1>1 DEF NoShare
<1>11. gross \in Int /\ held \in Int /\ gross - held \in Int
  BY <1>7, <1>9
<1> QED
  BY <1>10, <1>11 DEF ShareRow, ShareStatus

LEMMA MaintainerBegins == MaintainerInit => MaintainerInv
BY DEF MaintainerInit, MaintainerInv, StarsSound, NoRating, NoShare, ShareRow, ShareStatus, CheckSound, Decided

\* A holdback is decided in full, and withheld only on what was measured.
LEMMA DecisionInFull ==
  ASSUME NEW held \in Int, NEW saw, DecideHoldback(held, saw).status # "pending"
  PROVE  LET decision == DecideHoldback(held, saw) IN
         /\ decision.released + decision.withheld = held /\ decision.released \in Int /\ decision.withheld \in Int
         /\ decision.status \in {"released", "partially_released", "withheld"}
         /\ decision.status = "withheld" => saw.measured
<1> DEFINE partial == ToCents(held * PartialPct, 100)
<1>1. partial \in Int
  BY MaintainerAssumption DEF ToCents
<1>2. /\ DecideHoldback(held, saw) \in {[status |-> "released", released |-> held, withheld |-> 0],
           [status |-> "partially_released", released |-> partial, withheld |-> held - partial],
           [status |-> "pending", released |-> 0, withheld |-> 0],
           [status |-> "withheld", released |-> 0, withheld |-> held]}
      /\ ~saw.measured => DecideHoldback(held, saw).status # "withheld"
  BY DEF DecideHoldback
<1> HIDE DEF partial
<1> QED
  BY <1>1, <1>2

\* What a decision does: nothing, or it puts all of the amount that was read into the
\* pending row of its repository.
Resolves(k, status, out, back) ==
  /\ release[k] # NoCheck /\ share[release[k].repo].status = "pending"
  /\ out + back = release[k].held
  /\ status = "withheld" => release[k].measured
  /\ share' = [share EXCEPT ![release[k].repo] = [@ EXCEPT !.status = status, !.released = out, !.withheld = back]]

LEMMA ReleaseMoves ==
  ASSUME MaintainerInv, NEW k \in Release, ReleaseDueHoldbacks(k)
  PROVE  \/ UNCHANGED share
         \/ \E status \in {"released", "partially_released", "withheld"}, out \in Int, back \in Int :
              Resolves(k, status, out, back)
<1> DEFINE decision == DecideHoldback(release[k].held, release[k])
<1>1. release[k] # NoCheck /\ release[k].held \in Int
  BY DEF ReleaseDueHoldbacks, MaintainerInv, CheckSound
<1>2. CASE decision.status = "pending" \/ share[release[k].repo].status # "pending"
  BY <1>2 DEF ReleaseDueHoldbacks
<1>3. CASE decision.status # "pending" /\ share[release[k].repo].status = "pending"
  <2>1. share' = [share EXCEPT ![release[k].repo] =
                    [@ EXCEPT !.status = decision.status, !.released = decision.released, !.withheld = decision.withheld]]
    BY <1>3 DEF ReleaseDueHoldbacks, Resolved
  <2>2. /\ decision.released + decision.withheld = release[k].held
        /\ decision.released \in Int /\ decision.withheld \in Int
        /\ decision.status \in {"released", "partially_released", "withheld"}
        /\ decision.status = "withheld" => release[k].measured
    BY <1>1, <1>3, DecisionInFull
  <2>3. Resolves(k, decision.status, decision.released, decision.withheld)
    BY <1>1, <1>3, <2>1, <2>2 DEF Resolves
  <2> HIDE DEF decision
  <2> QED
    BY <2>2, <2>3
<1> QED
  BY <1>2, <1>3

\* What a settle writes: a new row, or the amounts of one whose holdback it leaves alone.
Rewrites(p, row) ==
  /\ p \in Repository /\ share' = [share EXCEPT ![p] = row]
  /\ \/ share[p].status = "none" /\ row.status = "pending" /\ rewritten' = rewritten
     \/ /\ row.status = share[p].status /\ row.released = share[p].released
        /\ row.withheld = share[p].withheld /\ rewritten' = rewritten \cup {p}

LEMMA PayoutMoves ==
  ASSUME MaintainerInv, NEW t \in Transition, NEW s \in settling[t], WritePayout(t, s[1], s[2])
  PROVE  \E row \in ShareRow : Rewrites(s[1], row)
<1> DEFINE p == s[1]
           kept == [s[2] EXCEPT !.status = share[p].status, !.released = share[p].released,
                                !.withheld = share[p].withheld]
<1>1. p \in Repository /\ s[2] \in ShareRow /\ s[2].status = "pending" /\ share[p] \in ShareRow
  BY DEF MaintainerInv
<1>2. CASE share[p] = NoShare
  <2>1. share' = [share EXCEPT ![p] = s[2]] /\ rewritten' = rewritten
    BY <1>2 DEF WritePayout
  <2>2. share[p].status = "none"
    BY <1>2 DEF NoShare
  <2>3. Rewrites(p, s[2])
    BY <1>1, <2>1, <2>2 DEF Rewrites
  <2> QED
    BY <1>1, <2>3
<1>3. CASE share[p] # NoShare
  <2>1. share' = [share EXCEPT ![p] = kept] /\ rewritten' = rewritten \cup {p}
    BY <1>3 DEF WritePayout
  <2>2. /\ kept \in ShareRow /\ kept.status = share[p].status /\ kept.released = share[p].released
        /\ kept.withheld = share[p].withheld
    BY <1>1 DEF ShareRow
  <2>3. Rewrites(p, kept)
    BY <1>1, <2>1, <2>2 DEF Rewrites
  <2> HIDE DEF kept
  <2> QED
    BY <2>2, <2>3
<1> QED
  BY <1>2, <1>3

LEMMA MaintainerStep == ASSUME MaintainerInv, [MaintainerNext]_maintainerVars PROVE MaintainerInv'
<1> USE DEF MaintainerInv
<1>1. ASSUME NEW r \in Rating, NEW n \in StarsGiven, StoreRating(<<r, n>>)  PROVE MaintainerInv'
  <2>1. stars' = [stars EXCEPT ![r] = [value |-> n, late |-> published]]
        /\ UNCHANGED <<share, settling, rewritten, release>>
    BY <1>1 DEF StoreRating, PoolStands, SettleStands
  <2>2. StarsSound'
    <3>1. n \in Nat /\ n >= 1
      BY MaintainerAssumption
    <3> QED
      BY <2>1, <3>1 DEF StarsSound
  <2> QED
    BY <2>1, <2>2 DEF CheckSound, Decided, InFull
<1>2. ASSUME NEW t \in Transition, SettleMaintainerPool(t)  PROVE MaintainerInv'
  <2>1. /\ settling' = [settling EXCEPT ![t] = {<<p, AllocateMaintainerPool(p)>> : p \in Repository}]
        /\ UNCHANGED <<stars, share, rewritten, release>>
    BY <1>2 DEF SettleMaintainerPool
  <2>2. StarsSound'
    BY <2>1 DEF StarsSound
  <2>3. \A p \in Repository : AllocateMaintainerPool(p) \in ShareRow /\ AllocateMaintainerPool(p).status = "pending"
    BY AllocationSound
  <2>4. \A s \in settling'[t] : \E p \in Repository : s = <<p, AllocateMaintainerPool(p)>>
    BY <2>1
  <2>5. \A u \in Transition : \A s \in settling'[u] : s[1] \in Repository /\ s[2] \in ShareRow /\ s[2].status = "pending"
    BY <2>1, <2>3, <2>4
  <2> QED
    BY <2>1, <2>2, <2>5 DEF CheckSound, Decided, InFull
<1>3. ASSUME NEW t \in Transition, NEW s \in settling[t], WritePayout(t, s[1], s[2])  PROVE MaintainerInv'
  <2>1. /\ settling' = [settling EXCEPT ![t] = @ \ {<<s[1], s[2]>>}] /\ UNCHANGED <<stars, release>>
    BY <1>3 DEF WritePayout
  <2>2. StarsSound'
    BY <2>1 DEF StarsSound
  <2>3. PICK row \in ShareRow : Rewrites(s[1], row)
    BY <1>3, PayoutMoves
  <2>4. ASSUME NEW k \in Release  PROVE CheckSound(k)'
    BY <2>1, <2>3 DEF CheckSound, Rewrites
  <2>5. \A p \in Repository : (Decided(p) /\ p \notin rewritten => InFull(p))'
    BY <2>3 DEF Decided, InFull, Rewrites
  <2>6. share' \in [Repository -> ShareRow]
    BY <2>3 DEF Rewrites
  <2>7. /\ DOMAIN settling' = Transition /\ DOMAIN release' = Release
        /\ \A u \in Transition : \A q \in settling'[u] : q[1] \in Repository /\ q[2] \in ShareRow /\ q[2].status = "pending"
    BY <2>1
  <2> QED
    BY <2>1, <2>2, <2>4, <2>5, <2>6, <2>7
<1>4. ASSUME NEW t \in Transition, SettleDies(t)  PROVE MaintainerInv'
  BY <1>4 DEF SettleDies, StarsSound, CheckSound, Decided, InFull
<1>5. ASSUME NEW k \in Release, ReleaseDueHoldbacks(k)  PROVE MaintainerInv'
  <2> DEFINE p == release[k].repo
  <2>1. /\ UNCHANGED <<stars, settling, rewritten>> /\ release' = [release EXCEPT ![k] = NoCheck]
    BY <1>5 DEF ReleaseDueHoldbacks, SettleStands, RatingsStand
  <2>2. StarsSound'
    BY <2>1 DEF StarsSound
  <2>3. CASE UNCHANGED share
    BY <2>1, <2>2, <2>3 DEF CheckSound, Decided, InFull
  <2>4. ASSUME NEW status \in {"released", "partially_released", "withheld"}, NEW out \in Int, NEW back \in Int,
               Resolves(k, status, out, back)
        PROVE  MaintainerInv'
    <3> DEFINE row == [share[p] EXCEPT !.status = status, !.released = out, !.withheld = back]
    <3>1. p \in Repository /\ share[p] \in ShareRow /\ (p \notin rewritten => release[k].held = share[p].holdback)
      BY <2>4 DEF CheckSound, Resolves
    <3>2. /\ row \in ShareRow /\ row.holdback = share[p].holdback
          /\ row.status = status /\ row.released = out /\ row.withheld = back
      BY <3>1 DEF ShareRow, ShareStatus
    <3>3. /\ share' = [share EXCEPT ![p] = row] /\ share[p].status = "pending"
          /\ out + back = release[k].held
      BY <2>4 DEF Resolves
    <3> HIDE DEF row, p
    <3>4. share' \in [Repository -> ShareRow]
      BY <3>1, <3>2, <3>3
    <3>5. \A q \in Repository : (Decided(q) /\ q \notin rewritten => InFull(q))'
      BY <2>1, <2>4, <3>1, <3>2, <3>3 DEF Decided, InFull
    <3>6. ASSUME NEW j \in Release  PROVE CheckSound(j)'
      BY <2>1, <3>1, <3>2, <3>3 DEF CheckSound
    <3>7. /\ DOMAIN settling' = Transition /\ DOMAIN release' = Release
          /\ \A t \in Transition : \A s \in settling'[t] : s[1] \in Repository /\ s[2] \in ShareRow /\ s[2].status = "pending"
      BY <2>1
    <3> QED
      BY <2>2, <3>4, <3>5, <3>6, <3>7
  <2> QED
    BY <1>5, <2>3, <2>4, ReleaseMoves
<1>6. ASSUME NEW k \in Release, NEW p \in Repository, NEW read \in BOOLEAN, NEW measured \in BOOLEAN,
             repoActivity(k, p, read, measured)
      PROVE  MaintainerInv'
  <2>1. /\ UNCHANGED <<stars, share, settling, rewritten>> /\ share[p].status = "pending"
        /\ DOMAIN release' = Release /\ \A j \in Release : j # k => release'[j] = release[j]
        /\ release'[k].repo = p /\ release'[k].held = share[p].holdback
    BY <1>6 DEF repoActivity, RatingsStand, SettleStands
  <2>2. StarsSound'
    BY <2>1 DEF StarsSound
  <2>3. share[p].holdback \in Int
    BY DEF ShareRow
  <2> QED
    BY <2>1, <2>2, <2>3 DEF CheckSound, Decided, InFull
<1>7. CASE UNCHANGED <<stars, share, settling, rewritten, release>>
  BY <1>7 DEF StarsSound, CheckSound, Decided, InFull
<1> QED
  BY <1>1, <1>2, <1>3, <1>4, <1>5, <1>6, <1>7 DEF MaintainerNext, maintainerVars, SubmitClarityRating, PublishResults,
     HoldbackFallsDue, WorkGoesOn, PoolStands, RatingsStand, SettleStands, ReadPhase

\* A holdback is decided once: all of the amount that was read, whichever process comes
\* first and whatever a settle writes meanwhile, and nothing is withheld because it could
\* not be measured (ReleaseDueHoldbacks, DecideHoldback, WritePayout).
THEOREM HoldbacksAreDecidedOnce == MaintainerSpec => HoldbackDecidedOnce
<1> DEFINE Once == \A p \in Repository :
       /\ Decided(p) => /\ share'[p].status = share[p].status /\ share'[p].released = share[p].released
                        /\ share'[p].withheld = share[p].withheld
       /\ Decided(p)' /\ ~Decided(p) =>
            \E k \in Release : /\ release[k].repo = p
                              /\ share'[p].released + share'[p].withheld = release[k].held
                              /\ share'[p].status = "withheld" => release[k].measured
       /\ Decided(p)' /\ p \notin rewritten' => InFull(p)'
<1>1. ASSUME MaintainerInv, MaintainerInv', [MaintainerNext]_maintainerVars  PROVE Once
  <2> USE <1>1 DEF MaintainerInv
  <2>1. ASSUME NEW k \in Release, ReleaseDueHoldbacks(k)  PROVE Once
    <3> DEFINE p == release[k].repo
    <3>1. CASE UNCHANGED share
      BY <3>1 DEF Decided, InFull
    <3>2. ASSUME NEW status \in {"released", "partially_released", "withheld"}, NEW out \in Int, NEW back \in Int,
                 Resolves(k, status, out, back)
          PROVE  Once
      <4> USE <3>2 DEF Resolves
      <4>1. p \in Repository /\ share[p] \in ShareRow
        BY DEF CheckSound
      <4>2. share'[p].status = status /\ share'[p].released = out /\ share'[p].withheld = back
        BY <3>2, <4>1 DEF ShareRow
      <4>3. \A q \in Repository : q # p => share'[q] = share[q]
        BY <3>2
      <4>4. \A q \in Repository : q # p => (Decided(q)' <=> Decided(q))
        BY <4>3 DEF Decided
      <4>5. ~Decided(p)
        BY <3>2 DEF Decided
      <4>6. \A q \in Repository : Decided(q)' /\ q \notin rewritten' => InFull(q)'
        OBVIOUS
      <4>7. /\ release[k].repo = p /\ share'[p].released + share'[p].withheld = release[k].held
            /\ share'[p].status = "withheld" => release[k].measured
        BY <3>2, <4>2
      <4> HIDE DEF p
      <4> QED
        BY <4>3, <4>4, <4>5, <4>6, <4>7
    <3> QED
      BY <2>1, <3>1, <3>2, ReleaseMoves
  <2>2. ASSUME NEW t \in Transition, NEW s \in settling[t], WritePayout(t, s[1], s[2])  PROVE Once
    <3>1. PICK row \in ShareRow : Rewrites(s[1], row)
      BY <2>2, PayoutMoves
    <3> QED
      BY <3>1 DEF Decided, Rewrites
  <2>3. CASE UNCHANGED share
    BY <2>3 DEF Decided
  <2> QED
    BY <2>1, <2>2, <2>3 DEF MaintainerNext, maintainerVars, SubmitClarityRating, StoreRating, PublishResults, ReadPhase,
       HoldbackFallsDue, WorkGoesOn, repoActivity, PoolStands, RatingsStand, SettleStands, SettleMaintainerPool, SettleDies
<1>2. MaintainerInv /\ MaintainerInv' /\ [MaintainerNext]_maintainerVars => [Once]_maintainerVars
  BY <1>1
<1> QED
  BY <1>2, MaintainerBegins, MaintainerStep, PTL DEF MaintainerSpec, HoldbackDecidedOnce

-----------------------------------------------------------------------------
(* Settings are audited, and the sponsor's total is divided to the cent.          *)

Scope == {"global", "event"}
EditFields == {"pc", "scope", "value", "old"}

\* A rate in force is a number, wherever it was read, and a division was made from one.
RatesKnown ==
  /\ \A e \in Editor : editor[e].pc = "set" => editor[e].value \in Nat
  /\ \A scope \in Scope : settingRow[scope] = NoSetting \/ settingRow[scope] \in Nat
  /\ \A u \in Recorder : recorder[u].pc # "idle" => recorder[u].total \in SponsorTotals /\ recorder[u].rate \in Nat
  /\ eventMoney = NoSetting
     \/ \E total \in SponsorTotals, rate \in Nat : eventMoney = SplitSponsorTotal(total, rate)

SettingsInv ==
  /\ DOMAIN settingRow = Scope
  /\ DOMAIN editor = Editor /\ \A e \in Editor : DOMAIN editor[e] = EditFields /\ editor[e].scope \in Scope
  /\ DOMAIN recorder = Recorder /\ \A u \in Recorder : DOMAIN recorder[u] = {"pc", "total", "rate"}
  /\ RatesKnown /\ SettingsAudited

LEMMA SettingsBegin == SettingsInit => SettingsInv
<1> SUFFICES ASSUME SettingsInit PROVE SettingsInv
  OBVIOUS
<1>1. /\ settingRow.global = FactoryRate /\ settingRow.event = NoSetting /\ DOMAIN settingRow = Scope
      /\ FactoryRate \in Nat
  BY EventSettingsAssumption DEF SettingsInit, Scope
<1>2. SettingsAudited
  BY <1>1 DEF SettingsInit, SettingsAudited
<1>3. RatesKnown
  BY <1>1 DEF SettingsInit, RatesKnown, NoEdit, NoRecording, Scope
<1> QED
  BY <1>1, <1>2, <1>3 DEF SettingsInit, SettingsInv, NoEdit, NoRecording, EditFields, Scope

LEMMA SettingsStep == ASSUME SettingsInv, [SettingsNext]_settingsVars PROVE SettingsInv'
<1>0. /\ DOMAIN settingRow = Scope /\ DOMAIN editor = Editor /\ DOMAIN recorder = Recorder
      /\ \A e \in Editor : DOMAIN editor[e] = EditFields /\ editor[e].scope \in Scope
      /\ \A u \in Recorder : DOMAIN recorder[u] = {"pc", "total", "rate"}
      /\ RatesKnown /\ SettingsAudited
  BY DEF SettingsInv
\* An editor moves; it had nothing to audit, or what it had is audited or counted.
<1>1. ASSUME NEW e \in Editor, NEW r, DOMAIN r = EditFields, r.scope \in Scope, editor' = [editor EXCEPT ![e] = r],
             r.pc = "set" => r.value \in Nat, UNCHANGED <<settingRow, recorder, eventMoney>>,
             configAudit \cup unaudited \subseteq configAudit' \cup unaudited',
             editor[e].pc = "audit" => Change(e) \in configAudit' \cup unaudited'
      PROVE  SettingsInv'
  <2>1. editor'[e] = r /\ DOMAIN editor' = Editor /\ \A f \in Editor \ {e} : editor'[f] = editor[f]
    BY <1>0, <1>1
  <2>2. SettingsAudited'
    <3> SUFFICES ASSUME NEW scope \in Scope, settingRow[scope] # NoSetting
                 PROVE  \/ <<scope, settingRow[scope]>> \in configAudit' \cup unaudited'
                        \/ \E f \in Editor : editor'[f].pc = "audit"
                                             /\ <<editor'[f].scope, editor'[f].value>> = <<scope, settingRow[scope]>>
      BY <1>1 DEF SettingsAudited, Scope, Change
    <3>1. CASE <<scope, settingRow[scope]>> \in configAudit \cup unaudited
      BY <1>1, <3>1
    <3>2. ASSUME NEW f \in Editor, editor[f].pc = "audit", Change(f) = <<scope, settingRow[scope]>>
          PROVE  \/ <<scope, settingRow[scope]>> \in configAudit' \cup unaudited'
                 \/ \E g \in Editor : editor'[g].pc = "audit"
                                      /\ <<editor'[g].scope, editor'[g].value>> = <<scope, settingRow[scope]>>
      BY <1>1, <2>1, <3>2 DEF Change
    <3> QED
      BY <1>0, <3>1, <3>2 DEF SettingsAudited, Scope
  <2>3. RatesKnown'
    BY <1>0, <1>1, <2>1 DEF RatesKnown
  <2> QED
    BY <1>0, <1>1, <2>1, <2>2, <2>3 DEF SettingsInv
\* The next step of an editor.
<1>2. ASSUME NEW e \in Editor, NEW pc
      PROVE  LET r == [editor[e] EXCEPT !.pc = pc] IN
             /\ DOMAIN r = EditFields /\ r.pc = pc /\ r.scope = editor[e].scope /\ r.value = editor[e].value
  BY <1>0 DEF EditFields
<1>3. ASSUME NEW scope \in Scope  PROVE EffectiveValue(scope) \in Nat
  BY <1>0, <1>3, EventSettingsAssumption DEF EffectiveValue, RatesKnown, Scope
<1>4. ASSUME NEW e \in Editor, NEW v \in RateValue, NEW scope \in Scope, ReadOldValue(e, scope, v)  PROVE SettingsInv'
  <2> DEFINE r == [pc |-> "set", scope |-> scope, value |-> v, old |-> EffectiveValue(scope)]
  <2>1. /\ editor' = [editor EXCEPT ![e] = r] /\ editor[e].pc = "idle"
        /\ UNCHANGED <<settingRow, configAudit, unaudited, recorder, eventMoney>>
    BY <1>4 DEF ReadOldValue, EditStands
  <2>2. DOMAIN r = EditFields /\ r.scope \in Scope /\ r.pc = "set" /\ r.value \in Nat
    BY EventSettingsAssumption DEF EditFields
  <2> HIDE DEF r
  <2> QED
    BY <1>1, <2>1, <2>2
<1>5. ASSUME NEW e \in Editor, SetValue(e)  PROVE SettingsInv'
  <2> DEFINE r == [editor[e] EXCEPT !.pc = "audit"]
  <2>1. /\ editor' = [editor EXCEPT ![e] = r] /\ editor[e].pc = "set"
        /\ settingRow' = [settingRow EXCEPT ![editor[e].scope] = editor[e].value]
        /\ UNCHANGED <<configAudit, unaudited, recorder, eventMoney>>
    BY <1>0, <1>5 DEF SetValue, EditStands
  <2>2. /\ DOMAIN r = EditFields /\ r.pc = "audit" /\ r.scope = editor[e].scope /\ r.value = editor[e].value
    BY <1>2
  <2> HIDE DEF r
  <2>3. editor'[e] = r /\ DOMAIN editor' = Editor /\ \A f \in Editor \ {e} : editor'[f] = editor[f]
    BY <1>0, <2>1
  <2>4. DOMAIN settingRow' = Scope /\ editor[e].scope \in Scope /\ editor[e].value \in Nat
        /\ \A scope \in Scope : settingRow'[scope] = IF scope = editor[e].scope THEN editor[e].value ELSE settingRow[scope]
    BY <1>0, <2>1 DEF RatesKnown
  <2>5. SettingsAudited'
    <3> SUFFICES ASSUME NEW scope \in Scope, settingRow'[scope] # NoSetting
                 PROVE  \/ <<scope, settingRow'[scope]>> \in configAudit \cup unaudited
                        \/ \E f \in Editor : editor'[f].pc = "audit"
                                             /\ <<editor'[f].scope, editor'[f].value>> = <<scope, settingRow'[scope]>>
      BY <2>1 DEF SettingsAudited, Scope, Change
    <3>1. CASE scope = editor[e].scope
      BY <2>2, <2>3, <2>4, <3>1
    <3>2. CASE scope # editor[e].scope /\ <<scope, settingRow[scope]>> \in configAudit \cup unaudited
      BY <2>4, <3>2
    <3>3. ASSUME NEW f \in Editor, scope # editor[e].scope, editor[f].pc = "audit", Change(f) = <<scope, settingRow[scope]>>
          PROVE  \E g \in Editor : editor'[g].pc = "audit"
                                   /\ <<editor'[g].scope, editor'[g].value>> = <<scope, settingRow'[scope]>>
      BY <2>1, <2>3, <2>4, <3>3 DEF Change
    <3> QED
      BY <1>0, <2>4, <3>1, <3>2, <3>3 DEF SettingsAudited, Scope
  <2>6. RatesKnown'
    BY <1>0, <2>1, <2>2, <2>3, <2>4 DEF RatesKnown
  <2> QED
    BY <1>0, <2>1, <2>2, <2>3, <2>4, <2>5, <2>6 DEF SettingsInv
<1>6. ASSUME NEW e \in Editor, ReadOverride(e)  PROVE SettingsInv'
  <2> DEFINE r == [NoEdit EXCEPT !.pc = "delete"]
  <2>1. /\ editor' = [editor EXCEPT ![e] = r] /\ editor[e].pc = "idle"
        /\ UNCHANGED <<settingRow, configAudit, unaudited, recorder, eventMoney>>
    BY <1>6 DEF ReadOverride, EditStands
  <2>2. DOMAIN r = EditFields /\ r.scope \in Scope /\ r.pc = "delete"
    BY DEF EditFields, NoEdit, Scope
  <2> HIDE DEF r
  <2> QED
    BY <1>1, <2>1, <2>2
<1>7. ASSUME NEW e \in Editor, ResetValue(e)  PROVE SettingsInv'
  <2> DEFINE r == [editor[e] EXCEPT !.pc = "fall back"]
  <2>1. /\ editor' = [editor EXCEPT ![e] = r] /\ editor[e].pc = "delete"
        /\ settingRow' = [settingRow EXCEPT !.event = NoSetting]
        /\ UNCHANGED <<configAudit, unaudited, recorder, eventMoney>>
    BY <1>0, <1>7 DEF ResetValue, EditStands
  <2>2. /\ DOMAIN r = EditFields /\ r.pc = "fall back" /\ r.scope = editor[e].scope
    BY <1>2
  <2> HIDE DEF r
  <2>3. editor'[e] = r /\ DOMAIN editor' = Editor /\ \A f \in Editor \ {e} : editor'[f] = editor[f]
    BY <1>0, <2>1
  <2>4. DOMAIN settingRow' = Scope
        /\ \A scope \in Scope : settingRow'[scope] = IF scope = "event" THEN NoSetting ELSE settingRow[scope]
    BY <1>0, <2>1 DEF Scope
  <2>5. SettingsAudited'
    <3> SUFFICES ASSUME NEW scope \in Scope, settingRow'[scope] # NoSetting
                 PROVE  \/ <<scope, settingRow'[scope]>> \in configAudit \cup unaudited
                        \/ \E f \in Editor : editor'[f].pc = "audit"
                                             /\ <<editor'[f].scope, editor'[f].value>> = <<scope, settingRow'[scope]>>
      BY <2>1 DEF SettingsAudited, Scope, Change
    <3>1. settingRow'[scope] = settingRow[scope]
      BY <2>4
    <3>2. ASSUME NEW f \in Editor, editor[f].pc = "audit", Change(f) = <<scope, settingRow[scope]>>
          PROVE  \E g \in Editor : editor'[g].pc = "audit"
                                   /\ <<editor'[g].scope, editor'[g].value>> = <<scope, settingRow'[scope]>>
      BY <2>1, <2>3, <3>1, <3>2 DEF Change
    <3> QED
      BY <1>0, <3>1, <3>2 DEF SettingsAudited, Scope
  <2>6. RatesKnown'
    BY <1>0, <2>1, <2>2, <2>3, <2>4 DEF RatesKnown
  <2> QED
    BY <1>0, <2>1, <2>2, <2>3, <2>4, <2>5, <2>6 DEF SettingsInv
<1>8. ASSUME NEW e \in Editor, ReadGlobal(e)  PROVE SettingsInv'
  <2> DEFINE r == [editor[e] EXCEPT !.pc = "audit", !.value = EffectiveValue("global")]
  <2>1. /\ editor' = [editor EXCEPT ![e] = r] /\ editor[e].pc = "fall back"
        /\ UNCHANGED <<settingRow, configAudit, unaudited, recorder, eventMoney>>
    BY <1>0, <1>8 DEF ReadGlobal, EditStands
  <2>2. DOMAIN r = EditFields /\ r.scope \in Scope /\ r.pc = "audit"
    BY <1>0 DEF EditFields
  <2> HIDE DEF r
  <2> QED
    BY <1>1, <2>1, <2>2
<1>9. DOMAIN NoEdit = EditFields /\ NoEdit.scope \in Scope /\ NoEdit.pc = "idle"
  BY DEF NoEdit, EditFields, Scope
<1>10. ASSUME NEW e \in Editor, WriteAudit(e) \/ EditFails(e)  PROVE SettingsInv'
  <2>1. /\ editor' = [editor EXCEPT ![e] = NoEdit] /\ UNCHANGED <<settingRow, recorder, eventMoney>>
        /\ configAudit \cup unaudited \subseteq configAudit' \cup unaudited'
        /\ editor[e].pc = "audit" => Change(e) \in configAudit' \cup unaudited'
    BY <1>10 DEF WriteAudit, EditFails, EditStands
  <2> QED
    BY <1>1, <1>9, <2>1
\* A request that records the sponsor's total moves.
<1>11. ASSUME NEW u \in Recorder, NEW r, DOMAIN r = {"pc", "total", "rate"},
              r.pc # "idle" => r.total \in SponsorTotals /\ r.rate \in Nat, recorder' = [recorder EXCEPT ![u] = r],
              UNCHANGED <<settingRow, configAudit, unaudited, editor>>,
              \/ UNCHANGED eventMoney
              \/ \E total \in SponsorTotals, rate \in Nat : eventMoney' = SplitSponsorTotal(total, rate)
       PROVE  SettingsInv'
  <2>1. DOMAIN recorder' = Recorder /\ \A v \in Recorder : recorder'[v] = IF v = u THEN r ELSE recorder[v]
    BY <1>0, <1>11
  <2>2. SettingsAudited'
    BY <1>0, <1>11 DEF SettingsAudited, Change
  <2>3. RatesKnown'
    BY <1>0, <1>11, <2>1 DEF RatesKnown
  <2> QED
    BY <1>0, <1>11, <2>1, <2>2, <2>3 DEF SettingsInv
<1>12. ASSUME NEW u \in Recorder, NEW total \in SponsorTotals, LoadGlobalRates(u, total)  PROVE SettingsInv'
  <2> DEFINE r == [pc |-> "own", total |-> total, rate |-> EffectiveValue("global")]
  <2>1. recorder' = [recorder EXCEPT ![u] = r] /\ UNCHANGED <<settingRow, configAudit, unaudited, editor, eventMoney>>
    BY <1>12 DEF LoadGlobalRates, RecordingStands
  <2>2. DOMAIN r = {"pc", "total", "rate"} /\ r.total \in SponsorTotals /\ r.rate \in Nat
    BY <1>3 DEF Scope
  <2> HIDE DEF r
  <2> QED
    BY <1>11, <2>1, <2>2
<1>13. ASSUME NEW u \in Recorder, LoadOwnRates(u)  PROVE SettingsInv'
  <2> DEFINE rate == IF settingRow.event = NoSetting THEN recorder[u].rate ELSE settingRow.event
             r == [recorder[u] EXCEPT !.pc = "write", !.rate = rate]
  <2>1. /\ recorder' = [recorder EXCEPT ![u] = r] /\ recorder[u].pc = "own"
        /\ UNCHANGED <<settingRow, configAudit, unaudited, editor, eventMoney>>
    BY <1>0, <1>13 DEF LoadOwnRates, RecordingStands
  <2>2. rate \in Nat
    BY <1>0, <2>1 DEF RatesKnown, Scope
  <2> HIDE DEF rate
  <2>3. DOMAIN r = {"pc", "total", "rate"} /\ r.total = recorder[u].total /\ r.rate = rate
    BY <1>0
  <2> HIDE DEF r
  <2> QED
    BY <1>0, <1>11, <2>1, <2>2, <2>3 DEF RatesKnown
<1>14. DOMAIN NoRecording = {"pc", "total", "rate"} /\ NoRecording.pc = "idle"
  BY DEF NoRecording
<1>15. ASSUME NEW u \in Recorder, Update(u)  PROVE SettingsInv'
  <2>1. /\ recorder' = [recorder EXCEPT ![u] = NoRecording] /\ UNCHANGED <<settingRow, configAudit, unaudited, editor>>
        /\ recorder[u].pc = "write" /\ eventMoney' = SplitSponsorTotal(recorder[u].total, recorder[u].rate)
    BY <1>15 DEF Update, RecordingStands
  <2>2. recorder[u].total \in SponsorTotals /\ recorder[u].rate \in Nat
    BY <1>0, <2>1 DEF RatesKnown
  <2> QED
    BY <1>11, <1>14, <2>1, <2>2
<1>16. ASSUME NEW u \in Recorder, UpdateFails(u)  PROVE SettingsInv'
  <2>1. /\ recorder' = [recorder EXCEPT ![u] = NoRecording]
        /\ UNCHANGED <<settingRow, configAudit, unaudited, editor, eventMoney>>
    BY <1>16 DEF UpdateFails, RecordingStands
  <2> QED
    BY <1>11, <1>14, <2>1
<1>17. CASE UNCHANGED settingsVars
  BY <1>17 DEF settingsVars, SettingsInv, RatesKnown, SettingsAudited, Change
<1> QED
  BY <1>4, <1>5, <1>6, <1>7, <1>8, <1>10, <1>12, <1>13, <1>15, <1>16, <1>17 DEF SettingsNext, Scope

LEMMA SettingsSound == SettingsSpec => []SettingsAudited
<1>1. SettingsInv => SettingsAudited
  BY DEF SettingsInv
<1> QED
  BY <1>1, SettingsBegin, SettingsStep, PTL DEF SettingsSpec

\* The fee and the two parts are the total, whatever was rounded, and the rate beside them
\* gives them back.
LEMMA SplitIsExact ==
  ASSUME NEW total \in SponsorTotals, NEW rate \in Nat
  PROVE  LET split == SplitSponsorTotal(total, rate) IN
         /\ split.fee + split.maintainer + split.contributor = split.total
         /\ split = SplitSponsorTotal(total, split.rate)
<1> DEFINE pct == clampPct(rate)
           fee == (total * pct + 500) \div 1000
           net == Cents(total - 10 * fee)
           maintainer == Percent(net, MaintainerPct)
<1>1. total \in Nat /\ pct \in Nat /\ clampPct(pct) = pct
  BY EventSettingsAssumption DEF clampPct
<1>2. SplitSponsorTotal(total, rate) = [total |-> Cents(total), fee |-> fee, rate |-> pct,
                                        maintainer |-> maintainer, contributor |-> net - maintainer]
  BY DEF SplitSponsorTotal
<1>3. SplitSponsorTotal(total, pct) = SplitSponsorTotal(total, rate)
  BY <1>1 DEF SplitSponsorTotal
<1> HIDE DEF pct
<1>4. total * pct \in Nat
  BY <1>1
<1>5. fee \in Int
  BY <1>4
<1> HIDE DEF fee
<1>6. net \in Int /\ fee + net = Cents(total)
  BY <1>1, <1>5 DEF Cents
<1> HIDE DEF net
<1>7. net * MaintainerPct \in Int
  BY <1>6, EventSettingsAssumption
<1>8. maintainer \in Int
  BY <1>7 DEF Percent
<1> HIDE DEF maintainer
<1>9. fee + maintainer + (net - maintainer) = Cents(total)
  BY <1>5, <1>6, <1>8
<1> QED
  BY <1>2, <1>3, <1>9

LEMMA SplitsSound == SettingsSpec => []SplitAddsUp
<1>1. SettingsInv => SplitAddsUp
  BY SplitIsExact DEF SettingsInv, RatesKnown, SplitAddsUp
<1> QED
  BY <1>1, SettingsBegin, SettingsStep, PTL DEF SettingsSpec

-----------------------------------------------------------------------------
(* The division of the contributor pool. At the floor, what is left and what has *)
(* been paid never exceed the pool, payment by payment, by induction over the    *)
(* fold; above it each rounding adds half a cent at most. Work without units    *)
(* has no position and no place in the order.                                     *)

DivisionTypes ==
  /\ author \in [Judged -> AuthorLogin] /\ bucket \in [Judged -> {"exceptional", "accepted", "rejected"}]
  /\ merged \in [Judged -> 0..1] /\ prizePool \in Nat /\ payoutFloor \in Nat /\ curveOn \in BOOLEAN
  /\ bucketUnits \in [Bucketed -> Nat]

NothingPlanned == [v \in Judged |-> Unpaid]

DivisionInv == DivisionTypes /\ (plan = NothingPlanned \/ plan = PlanFor(Judged))

LEMMA FundedParts ==
  ASSUME DivisionTypes, NEW vs \in SUBSET Judged
  PROVE  /\ IsFiniteSet(vs) /\ FundedOf(vs) \subseteq vs /\ IsFiniteSet(FundedOf(vs)) /\ Cardinality(FundedOf(vs)) \in Nat
         /\ FundedOf(FundedOf(vs)) = FundedOf(vs)
         /\ \A v \in vs : v \in Nat /\ UnitsFor(bucket[v]) \in Nat
<1>1. FundedOf(vs) \subseteq vs /\ FundedOf(FundedOf(vs)) = FundedOf(vs)
  BY DEF FundedOf
<1>2. IsFiniteSet(vs) /\ IsFiniteSet(FundedOf(vs))
  BY <1>1, DivisionAssumption, FS_Subset
<1>3. \A v \in vs : v \in Nat /\ UnitsFor(bucket[v]) \in Nat
  BY DivisionAssumption DEF DivisionTypes, Bucketed, UnitsFor
<1> QED
  BY <1>1, <1>2, <1>3, FS_CardinalityType

LEMMA UnitsAreWhole ==
  ASSUME DivisionTypes, NEW vs \in SUBSET Judged
  PROVE  /\ \A v : CurvePosition(vs, v) \in Nat /\ CurvePosition(vs, v) > 0
         /\ \A v \in vs : EffectiveUnits(vs, v) \in Nat
<1>1. ASSUME NEW v PROVE CurvePosition(vs, v) \in Nat /\ CurvePosition(vs, v) > 0
  <2> DEFINE S == {u \in FundedOf(vs) : author[u] = author[v] /\ MergedBefore(u, v)}
  <2>1. IsFiniteSet(S)
    BY FundedParts, FS_Subset
  <2>2. Cardinality(S) \in Nat
    BY <2>1, FS_CardinalityType
  <2>3. CurvePosition(vs, v) = 1 + Cardinality(S)
    BY DEF CurvePosition
  <2> QED
    BY <2>2, <2>3
<1>2. ASSUME NEW k \in Nat, k > 0 PROVE Multiplier(k) \in Nat
  <2>1. Len(Curve) \in Nat /\ Len(Curve) > 0 /\ \A i \in 1..Len(Curve) : Curve[i] \in Nat
    BY DivisionAssumption
  <2> DEFINE i == IF k > Len(Curve) THEN Len(Curve) ELSE k
  <2>2. i \in 1..Len(Curve)
    BY <1>2, <2>1
  <2>3. Curve[i] \in Nat
    BY <2>1, <2>2
  <2>4. Multiplier(k) = IF curveOn THEN Curve[i] ELSE 10
    BY DEF Multiplier
  <2> HIDE DEF i
  <2> QED
    BY <2>3, <2>4
<1>3. ASSUME NEW v \in vs PROVE EffectiveUnits(vs, v) \in Nat
  <2>1. UnitsFor(bucket[v]) \in Nat /\ Multiplier(CurvePosition(vs, v)) \in Nat
    BY <1>1, <1>2, FundedParts
  <2> QED
    BY <2>1 DEF EffectiveUnits
<1> QED
  BY <1>1, <1>3

\* Half a cent at most is added, and a whole share stays whole.
LEMMA RoundedIs ==
  ASSUME NEW n \in Nat, NEW d \in Nat, d > 0
  PROVE  Rounded(n, d) \in Nat /\ 2 * (d * Rounded(n, d)) <= 2 * n + d
<1> DEFINE a == 2 * n + d
           b == 2 * d
<1>1. a \in Nat /\ b \in Nat /\ b > 0
  OBVIOUS
<1>2. (a \div b) \in Nat /\ b * (a \div b) <= a
  BY <1>1
<1>3. Rounded(n, d) = a \div b
  BY DEF Rounded
<1> DEFINE q == a \div b
<1>4. q \in Nat /\ Rounded(n, d) = q /\ b * q <= a
  BY <1>2, <1>3
<1> HIDE DEF q
<1>5. b * q = 2 * (d * q)
  BY <1>4
<1> QED
  BY <1>4, <1>5

LEMMA TotalIsWhole ==
  ASSUME DivisionTypes, NEW vs \in SUBSET Judged
  PROVE  TotalUnits(vs) \in Nat
<1> DEFINE units == [v \in vs |-> EffectiveUnits(vs, v)]
<1>1. \A v \in FundedOf(vs) : units[v] \in Nat
  BY FundedParts, UnitsAreWhole
<1>2. SumFunctionOnSet(units, FundedOf(vs)) \in Nat
  BY <1>1, FundedParts, SumIsWhole
<1> QED
  BY <1>2 DEF TotalUnits

\* Everybody with units is in the order of payment, and nobody else.
LEMMA OrderIsOfFunded ==
  ASSUME DivisionTypes, NEW vs \in SUBSET Judged
  PROVE  /\ DOMAIN FloorOrder(vs) = 1..Cardinality(FundedOf(vs))
         /\ \A i \in DOMAIN FloorOrder(vs) : FloorOrder(vs)[i] \in FundedOf(vs)
<1> DEFINE S == FundedOf(vs)
           ahead == [v \in S |-> PaidBefore(vs, v)]
           rank(v) == BucketRank(bucket[v])
           position(v) == CurvePosition(vs, v)
<1>1. IsFiniteSet(S) /\ Cardinality(S) \in Nat /\ S \subseteq Judged
  BY FundedParts
<1>2. \A v \in S : rank(v) \in Nat /\ position(v) \in Nat /\ v \in Nat
  <2> SUFFICES ASSUME NEW v \in S PROVE rank(v) \in Nat
    BY <1>1, UnitsAreWhole, DivisionAssumption
  <2>1. bucket[v] \in {"exceptional", "accepted", "rejected"}
    BY <1>1 DEF DivisionTypes
  <2>2. \E i \in 1..4 : BucketOrder[i] = bucket[v]
    BY <2>1 DEF BucketOrder
  <2>3. DOMAIN BucketOrder = 1..4
    BY DEF BucketOrder
  <2> QED
    BY <2>2, <2>3 DEF BucketRank
<1>3. \A u, v \in S : u \in ahead[v] <=> \/ rank(u) < rank(v)
                                         \/ rank(u) = rank(v) /\ position(u) < position(v)
                                         \/ rank(u) = rank(v) /\ position(u) = position(v) /\ u < v
  BY DEF PaidBefore
<1>4. ahead \in [S -> SUBSET S]
  BY DEF PaidBefore
<1> HIDE DEF ahead, rank, position
<1>5. \A v \in S : v \notin ahead[v]
  BY <1>2, <1>3
<1>6. \A u, v \in S : u # v => u \in ahead[v] \/ v \in ahead[u]
  BY <1>2, <1>3
<1>7. \A u, v \in S : u \in ahead[v] => ahead[u] \subseteq ahead[v]
  BY <1>2, <1>3, <1>4
<1>8. ASSUME NEW i \in 1..Cardinality(S) PROVE \E v \in S : Cardinality(ahead[v]) = i - 1
  <2>1. i \in 0..Cardinality(S) /\ i > 0
    BY <1>1
  <2> HIDE DEF S
  <2>2. /\ \A u \in S : Cardinality(ahead[u]) \in Nat
        /\ \A u, v \in S : u \in ahead[v] => Cardinality(ahead[u]) < Cardinality(ahead[v])
        /\ Cardinality({u \in S : Cardinality(ahead[u]) < i}) = i
        /\ i > 0 => \E v \in S : Cardinality(ahead[v]) = i - 1
    BY <1>1, <1>4, <1>5, <1>6, <1>7, <2>1, FirstOnes
  <2> QED
    BY <2>1, <2>2
<1>9. FloorOrder(vs) = [i \in 1..Cardinality(S) |-> CHOOSE v \in S : Cardinality(ahead[v]) = i - 1]
  <2>1. DOMAIN ahead = S /\ FloorOrder(vs) = InOrder(ahead)
    BY DEF FloorOrder, ahead
  <2> QED
    BY <2>1 DEF InOrder
<1> QED
  BY <1>8, <1>9

\* The largest of some whole numbers.
LEMMA Largest ==
  ASSUME NEW n \in Nat, NEW T \in SUBSET (1..n), T # {}
  PROVE  Max(T) \in T /\ \A i \in T : i <= Max(T)
<1> DEFINE Above == {m \in Nat : \A i \in T : i <= m}
<1>1. n \in Above
  OBVIOUS
<1>2. \E m \in Above : \A k \in Above : ~(<<k, m>> \in OpToRel(<, Nat))
  BY <1>1, NatLessThanWellFounded, WFMin
<1>3. PICK m \in Above : \A k \in Above : ~(k < m)
  BY <1>2 DEF OpToRel
<1>4. m \in T
  <2> SUFFICES ASSUME m \notin T PROVE FALSE
    OBVIOUS
  <2>1. \A i \in T : i \in Nat /\ i >= 1 /\ i <= m /\ i # m
    BY <1>3
  <2>2. PICK i \in T : i >= 1 /\ i <= m
    BY <2>1
  <2>3. m - 1 \in Above
    BY <1>3, <2>1, <2>2
  <2> QED
    BY <1>3, <2>2, <2>3
<1>5. \E x \in T : \A y \in T : x >= y
  BY <1>3, <1>4
<1>6. Max(T) \in T /\ \A y \in T : Max(T) >= y
  BY <1>5 DEF Max
<1> QED
  BY <1>6

\* The fold of the payments.
PayBody(price, order, base, fold, T) ==
  IF T = {} THEN base ELSE LET i == Max(T) IN PayNext(price, fold[T \ {i}], order[i])

IsPaying(price, order, base, fold) ==
  fold = [T \in SUBSET DOMAIN order |-> PayBody(price, order, base, fold, T)]

LEMMA PayingExists ==
  ASSUME NEW price, NEW order, NEW base, NEW n \in Nat, DOMAIN order = 1..n
  PROVE  \E fold : IsPaying(price, order, base, fold)
<1> DEFINE D == 1..n
           Body(fold, T) == PayBody(price, order, base, fold, T)
           Q == {k \in Nat : \E g : g = [T \in UpTo(D, k) |-> Body(g, T)]}
<1>0. \A T \in SUBSET D : IsFiniteSet(T) /\ Cardinality(T) \in Nat /\ Cardinality(T) <= Cardinality(D)
  <2>1. IsFiniteSet(D)
    <3>1. 1 \in Int /\ n \in Int
      OBVIOUS
    <3>2. \A a, b \in Int : IsFiniteSet(a..b)
      BY FS_Interval
    <3> QED
      BY <3>1, <3>2
  <2> QED
    BY <2>1, FS_Subset, FS_CardinalityType
<1>a. Cardinality(D) \in Nat /\ IsFiniteSet(D)
  BY <1>0
<1>b. \A g, T : Body(g, T) = IF T = {} THEN base ELSE PayNext(price, g[T \ {Max(T)}], order[Max(T)])
  BY DEF PayBody
<1> HIDE DEF Body
<1>1. 0 \in Q
  <2> DEFINE g == [T \in UpTo(D, 0) |-> base]
  <2>1. \A T \in UpTo(D, 0) : T = {}
    BY <1>0, FS_EmptySet DEF UpTo
  <2>2. g = [T \in UpTo(D, 0) |-> Body(g, T)]
    BY <1>b, <2>1
  <2> QED
    BY <2>2
<1>2. ASSUME NEW k \in Q  PROVE k + 1 \in Q
  <2>1. PICK g : g = [T \in UpTo(D, k) |-> Body(g, T)]
    OBVIOUS
  <2> DEFINE h == [T \in UpTo(D, k + 1) |-> Body(g, T)]
  <2>2. ASSUME NEW T \in UpTo(D, k + 1)  PROVE Body(g, T) = Body(h, T)
    <3>1. CASE T = {}
      BY <1>b, <3>1
    <3>2. CASE T # {}
      <4>1. PICK i : i = Max(T)
        OBVIOUS
      <4>2. i \in T /\ T \in SUBSET D
        BY <3>2, <4>1, Largest DEF UpTo
      <4>3. T \ {i} \in UpTo(D, k) /\ T \ {i} \in UpTo(D, k + 1)
        <5>1. Cardinality(T) = Cardinality(T \ {i}) + 1 /\ Cardinality(T \ {i}) \in Nat /\ Cardinality(T) <= k + 1
          BY <4>2, <1>0, SmallerByOne DEF UpTo
        <5> QED
          BY <4>2, <5>1 DEF UpTo
      <4>4. h[T \ {i}] = g[T \ {i}]
        BY <2>1, <4>3
      <4> QED
        BY <1>b, <3>2, <4>1, <4>4
    <3> QED
      BY <3>1, <3>2
  <2>3. h = [T \in UpTo(D, k + 1) |-> Body(h, T)]
    <3>1. h = [T \in UpTo(D, k + 1) |-> Body(g, T)]
      OBVIOUS
    <3> HIDE DEF h
    <3> QED
      BY <2>2, <3>1
  <2> HIDE DEF h
  <2>4. k \in Nat /\ k + 1 \in Nat
    OBVIOUS
  <2>5. \E e : e = [T \in UpTo(D, k + 1) |-> Body(e, T)]
    BY <2>3
  <2> QED
    BY <2>4, <2>5
<1>3. Q = Nat
  <2> HIDE DEF Q
  <2>1. Q \in SUBSET Nat
    BY DEF Q
  <2> QED
    BY <1>1, <1>2, <2>1, NatBySets
<1>4. UpTo(D, Cardinality(D)) = SUBSET D
  BY <1>0 DEF UpTo
<1>5. PICK g : g = [T \in UpTo(D, Cardinality(D)) |-> Body(g, T)]
  BY <1>3, <1>a
<1> QED
  BY <1>4, <1>5 DEF IsPaying, Body

\* The accounts of a payment in order, one payment after another.
Payments(price, order, pool, state) ==
  /\ state[0] = [left |-> pool, paid |-> [v \in DOMAIN price |-> Unpaid]]
  /\ \A i \in DOMAIN order : state[i] = PayNext(price, state[i - 1], order[i])

LEMMA PaidInSteps ==
  ASSUME NEW price, NEW order, NEW pool, NEW n \in Nat, DOMAIN order = 1..n
  PROVE  \E state : Payments(price, order, pool, state) /\ PaidInOrder(price, order, pool) = state[n].paid
<1> DEFINE base == [left |-> pool, paid |-> [v \in DOMAIN price |-> Unpaid]]
           fold == CHOOSE fold : IsPaying(price, order, base, fold)
<1>1. IsPaying(price, order, base, fold)
  BY PayingExists
<1>2. PaidInOrder(price, order, pool) = fold[DOMAIN order].paid
  BY DEF PaidInOrder, FoldLeft, MapThenFoldSet, IsPaying, PayBody
<1> HIDE DEF fold
<1> DEFINE state == [i \in 0..n |-> fold[1..i]]
<1>3. state[0] = base
  <2>1. 1..0 = {} /\ {} \in SUBSET DOMAIN order
    OBVIOUS
  <2>2. fold[{}] = base
    BY <1>1, <2>1 DEF IsPaying, PayBody
  <2> QED
    BY <2>1, <2>2
<1>4. ASSUME NEW i \in 1..n PROVE state[i] = PayNext(price, state[i - 1], order[i])
  <2>1. i \in Nat /\ 1..i \in SUBSET (1..n) /\ i \in 1..i /\ (1..i) \ {i} = 1..(i - 1)
    OBVIOUS
  <2>2. Max(1..i) = i
    <3>1. Max(1..i) \in 1..i /\ i <= Max(1..i)
      BY <2>1, Largest
    <3> QED
      BY <2>1, <3>1
  <2>3. fold[1..i] = PayBody(price, order, base, fold, 1..i)
    BY <1>1, <2>1 DEF IsPaying
  <2>4. PayBody(price, order, base, fold, 1..i) = PayNext(price, fold[1..(i - 1)], order[i])
    BY <2>1, <2>2 DEF PayBody
  <2>5. i \in 0..n /\ i - 1 \in 0..n
    OBVIOUS
  <2>6. state[i] = fold[1..i] /\ state[i - 1] = fold[1..(i - 1)]
    BY <2>5
  <2> HIDE DEF state
  <2> QED
    BY <2>3, <2>4, <2>6
<1>5. state[n] = fold[DOMAIN order]
  OBVIOUS
<1> HIDE DEF state
<1>6. Payments(price, order, pool, state)
  BY <1>3, <1>4 DEF Payments
<1> QED
  BY <1>2, <1>5, <1>6

\* What is nothing outside a part adds nothing to it.
LEMMA SumOfPart ==
  ASSUME NEW f, NEW A, NEW B \in SUBSET A, IsFiniteSet(A), \A x \in A : f[x] \in Int, \A x \in A \ B : f[x] = 0
  PROVE  SumFunctionOnSet(f, A) = SumFunctionOnSet(f, B)
<1> DEFINE rest == A \ B
           W == {T \in SUBSET rest : SumFunctionOnSet(f, B \cup T) = SumFunctionOnSet(f, B)}
<1>1. {} \in W
  <2>1. B \cup {} = B
    OBVIOUS
  <2> QED
    BY <2>1
<1>2. ASSUME NEW T \in W, NEW x \in rest \ T  PROVE T \cup {x} \in W
  <2>1. B \cup T \in SUBSET A /\ x \in A \ (B \cup T) /\ f[x] = 0
    OBVIOUS
  <2>2. /\ SumFunctionOnSet(f, B \cup T) \in Int
        /\ SumFunctionOnSet(f, (B \cup T) \cup {x}) = f[x] + SumFunctionOnSet(f, B \cup T)
    <3> DEFINE U == B \cup T
    <3>1. \A V \in SUBSET A : /\ SumFunctionOnSet(f, V) \in Int
                             /\ \A y \in A \ V : SumFunctionOnSet(f, V \cup {y}) = f[y] + SumFunctionOnSet(f, V)
      BY SumTakesIn
    <3>2. U \in SUBSET A /\ x \in A \ U
      BY <2>1
    <3> HIDE DEF U
    <3>3. SumFunctionOnSet(f, U) \in Int /\ SumFunctionOnSet(f, U \cup {x}) = f[x] + SumFunctionOnSet(f, U)
      BY <3>1, <3>2
    <3> QED
      BY <3>3 DEF U
  <2>3. (B \cup T) \cup {x} = B \cup (T \cup {x}) /\ T \cup {x} \in SUBSET rest
    OBVIOUS
  <2>4. SumFunctionOnSet(f, B \cup T) = SumFunctionOnSet(f, B)
    OBVIOUS
  <2>5. SumFunctionOnSet(f, (B \cup T) \cup {x}) = SumFunctionOnSet(f, B)
    BY <2>1, <2>2, <2>4
  <2> QED
    BY <2>3, <2>5
<1>3. IsFiniteSet(rest)
  BY FS_Subset
<1>4. W = SUBSET rest
  <2> HIDE DEF W
  <2>1. W \in SUBSET SUBSET rest
    BY DEF W
  <2> QED
    BY <1>1, <1>2, <1>3, <2>1, SubsetsBySets
<1>5. rest \in W /\ B \cup rest = A
  BY <1>4
<1> QED
  BY <1>5

PlanEntry == [amount : Nat, funded : BOOLEAN]
AmountsOf(paid, vs) == [v \in vs |-> paid[v].amount]

\* One payment: what is left and what is paid stay within the pool.
LEMMA PaymentFits ==
  ASSUME NEW vs, IsFiniteSet(vs), NEW price \in [vs -> Nat], NEW v \in vs,
         NEW acc, acc.left \in Nat, acc.paid \in [vs -> PlanEntry]
  PROVE  LET next == PayNext(price, acc, v) IN
         /\ next.left \in Nat /\ next.paid \in [vs -> PlanEntry]
         /\ SumFunction(AmountsOf(next.paid, vs)) + next.left <= SumFunction(AmountsOf(acc.paid, vs)) + acc.left
<1> DEFINE next == PayNext(price, acc, v)
           old == AmountsOf(acc.paid, vs)
<1>0. old \in [vs -> Int] /\ old[v] \in Nat /\ SumFunction(old) \in Int
  <2>1. \A u \in vs : acc.paid[u] \in PlanEntry
    OBVIOUS
  <2>2. \A u \in vs : old[u] \in Nat
    BY <2>1 DEF AmountsOf, PlanEntry
  <2>3. SumFunctionOnSet(old, vs) \in Nat
    BY <2>2, SumIsWhole
  <2>4. DOMAIN old = vs
    BY DEF AmountsOf
  <2>5. old = [u \in vs |-> old[u]]
    BY DEF AmountsOf
  <2> HIDE DEF old
  <2> QED
    BY <2>2, <2>3, <2>4, <2>5 DEF SumFunction
<1>1. CASE ~FloorPays(acc.left, price[v])
  <2>1. next = acc
    BY <1>1 DEF PayNext
  <2> QED
    BY <1>0, <2>1
<1>2. CASE FloorPays(acc.left, price[v])
  <2> DEFINE entry == [amount |-> price[v], funded |-> TRUE]
  <2>1. price[v] \in Nat /\ price[v] <= acc.left
    BY <1>2 DEF FloorPays
  <2>2. next.left = acc.left - price[v] /\ next.paid = [acc.paid EXCEPT ![v] = entry]
    BY <1>2 DEF PayNext
  <2>3. entry \in PlanEntry /\ entry.amount = price[v]
    BY <2>1 DEF PlanEntry
  <2> HIDE DEF entry, next
  <2>4. next.paid \in [vs -> PlanEntry] /\ next.left \in Nat
    BY <2>1, <2>2, <2>3
  <2>5. AmountsOf(next.paid, vs) = [old EXCEPT ![v] = price[v]]
    BY <2>2, <2>3 DEF AmountsOf
  <2> HIDE DEF old
  <2>a. old \in [vs -> Int] /\ price[v] \in Int
    BY <1>0, <2>1
  <2>6. SumFunction([old EXCEPT ![v] = price[v]]) = SumFunction(old) - old[v] + price[v]
    BY <2>a, SumChanges
  <2>7. SumFunction(AmountsOf(next.paid, vs)) + next.left <= SumFunction(old) + acc.left
    BY <1>0, <2>1, <2>2, <2>5, <2>6
  <2> QED
    BY <2>4, <2>7 DEF old, next
<1> QED
  BY <1>1, <1>2

LEMMA FloorFits ==
  ASSUME NEW vs, IsFiniteSet(vs), NEW price \in [vs -> Nat], NEW pool \in Nat, NEW n \in Nat,
         NEW order, DOMAIN order = 1..n, \A i \in 1..n : order[i] \in vs
  PROVE  /\ PaidInOrder(price, order, pool) \in [vs -> PlanEntry]
         /\ SumFunction(AmountsOf(PaidInOrder(price, order, pool), vs)) <= pool
<1>1. PICK state : Payments(price, order, pool, state) /\ PaidInOrder(price, order, pool) = state[n].paid
  BY PaidInSteps
<1> DEFINE Good(i) == /\ state[i].left \in Nat /\ state[i].paid \in [vs -> PlanEntry]
                      /\ SumFunction(AmountsOf(state[i].paid, vs)) + state[i].left <= pool
           Q == {i \in Nat : i <= n => Good(i)}
<1>2. 0 \in Q
  <2> DEFINE none == [v \in vs |-> Unpaid]
             zero == [v \in vs |-> 0]
  <2>1. state[0].left = pool /\ state[0].paid = none
    BY <1>1 DEF Payments
  <2>2. none \in [vs -> PlanEntry]
    BY DEF Unpaid, PlanEntry
  <2>3. AmountsOf(none, vs) = zero
    BY DEF AmountsOf, Unpaid
  <2>4. SumFunctionOnSet(zero, vs) = 0
    <3>1. \A v \in vs : zero[v] = IF v \in {} THEN 1 ELSE 0
      OBVIOUS
    <3>2. {} \in SUBSET vs /\ Cardinality({}) = 0
      BY FS_EmptySet
    <3> HIDE DEF zero
    <3> QED
      BY <3>1, <3>2, SumCounts
  <2>5. DOMAIN zero = vs
    OBVIOUS
  <2> HIDE DEF zero
  <2>6. SumFunction(zero) = 0
    BY <2>4, <2>5 DEF SumFunction
  <2> HIDE DEF none
  <2> QED
    BY <2>1, <2>2, <2>3, <2>6
<1>3. ASSUME NEW i \in Q PROVE i + 1 \in Q
  <2> SUFFICES ASSUME i + 1 <= n PROVE Good(i + 1)
    OBVIOUS
  <2>1. i \in Nat /\ Good(i) /\ i + 1 \in 1..n
    OBVIOUS
  <2>2. state[i + 1] = PayNext(price, state[i], order[i + 1])
    <3>1. state[i + 1] = PayNext(price, state[(i + 1) - 1], order[i + 1])
      BY <1>1, <2>1 DEF Payments
    <3>2. (i + 1) - 1 = i
      BY <2>1
    <3> QED
      BY <3>1, <3>2
  <2> DEFINE acc == state[i]
             next == PayNext(price, acc, order[i + 1])
  <2>3. acc.left \in Nat /\ acc.paid \in [vs -> PlanEntry] /\ order[i + 1] \in vs
    BY <2>1
  <2>4. SumFunction(AmountsOf(acc.paid, vs)) \in Int /\ SumFunction(AmountsOf(next.paid, vs)) \in Int
        /\ next.left \in Nat /\ next.paid \in [vs -> PlanEntry]
        /\ SumFunction(AmountsOf(next.paid, vs)) + next.left <= SumFunction(AmountsOf(acc.paid, vs)) + acc.left
    <3> HIDE DEF acc
    <3>1. /\ next.left \in Nat /\ next.paid \in [vs -> PlanEntry]
          /\ SumFunction(AmountsOf(next.paid, vs)) + next.left <= SumFunction(AmountsOf(acc.paid, vs)) + acc.left
      BY <2>3, PaymentFits
    <3>2. ASSUME NEW paid \in [vs -> PlanEntry] PROVE SumFunction(AmountsOf(paid, vs)) \in Int
      <4>1. \A u \in vs : AmountsOf(paid, vs)[u] \in Nat
        BY DEF AmountsOf, PlanEntry
      <4>2. SumFunctionOnSet(AmountsOf(paid, vs), vs) \in Nat
        BY <4>1, SumIsWhole
      <4>3. DOMAIN AmountsOf(paid, vs) = vs
        BY DEF AmountsOf
      <4> QED
        BY <4>2, <4>3 DEF SumFunction
    <3> HIDE DEF next
    <3> QED
      BY <2>3, <3>1, <3>2
  <2>5. state[i + 1] = next
    BY <2>2
  <2>6. SumFunction(AmountsOf(acc.paid, vs)) + acc.left <= pool
    BY <2>1
  <2> HIDE DEF next, acc
  <2>7. SumFunction(AmountsOf(next.paid, vs)) + next.left <= pool
    BY <2>3, <2>4, <2>6
  <2> QED
    BY <2>4, <2>5, <2>7
<1>4. Q = Nat
  <2> HIDE DEF Q
  <2>1. Q \in SUBSET Nat
    BY DEF Q
  <2> QED
    BY <1>2, <1>3, <2>1, NatBySets
<1>5. Good(n)
  BY <1>4
<1>6. SumFunction(AmountsOf(state[n].paid, vs)) \in Int
  <2>1. \A u \in vs : AmountsOf(state[n].paid, vs)[u] \in Nat
    BY <1>5 DEF AmountsOf, PlanEntry
  <2>2. SumFunctionOnSet(AmountsOf(state[n].paid, vs), vs) \in Nat
    BY <2>1, SumIsWhole
  <2>3. DOMAIN AmountsOf(state[n].paid, vs) = vs
    BY DEF AmountsOf
  <2> QED
    BY <2>2, <2>3 DEF SumFunction
<1> QED
  BY <1>1, <1>5, <1>6

AtUnitValue(vs) ==
  [v \in vs |-> IF v \in FundedOf(vs)
                THEN [amount |-> Rounded(EffectiveUnits(vs, v) * prizePool, TotalUnits(vs)), funded |-> TRUE]
                ELSE Unpaid]

\* Above the floor the roundings add half a cent each.
LEMMA UnitValueFits ==
  ASSUME DivisionTypes, NEW vs \in SUBSET Judged, TotalUnits(vs) # 0
  PROVE  /\ AtUnitValue(vs) \in [vs -> PlanEntry]
         /\ 2 * SumFunction(AmountsOf(AtUnitValue(vs), vs)) <= 2 * prizePool + Cardinality(FundedOf(vs))
<1> DEFINE total == TotalUnits(vs)
           F == FundedOf(vs)
           units == [v \in vs |-> EffectiveUnits(vs, v)]
           paid == AtUnitValue(vs)
           sums == AmountsOf(paid, vs)
           scaled == [v \in F |-> (2 * total) * sums[v]]
           exact == [v \in F |-> (2 * prizePool) * units[v]]
           half == [v \in F |-> total]
           bound == [v \in F |-> exact[v] + half[v]]
<1>1. /\ total \in Nat /\ total > 0 /\ prizePool \in Nat /\ IsFiniteSet(vs) /\ IsFiniteSet(F)
      /\ F \subseteq vs /\ Cardinality(F) \in Nat
  BY TotalIsWhole, FundedParts DEF DivisionTypes
<1>2. \A v \in vs : units[v] \in Nat
  BY UnitsAreWhole
<1>3. ASSUME NEW v \in F
      PROVE  paid[v].amount \in Nat /\ paid[v] \in PlanEntry /\ 2 * (total * paid[v].amount) <= 2 * (prizePool * units[v]) + total
  <2> DEFINE portion == Rounded(EffectiveUnits(vs, v) * prizePool, total)
  <2>1. v \in vs /\ units[v] = EffectiveUnits(vs, v) /\ EffectiveUnits(vs, v) \in Nat
    BY <1>1, <1>2
  <2>2. EffectiveUnits(vs, v) * prizePool \in Nat /\ EffectiveUnits(vs, v) * prizePool = prizePool * units[v]
    BY <1>1, <2>1
  <2>3. portion \in Nat /\ 2 * (total * portion) <= 2 * (EffectiveUnits(vs, v) * prizePool) + total
    <3> HIDE DEF total
    <3> QED
      BY <1>1, <2>2, RoundedIs
  <2>4. paid[v] = [amount |-> portion, funded |-> TRUE]
    BY <2>1 DEF AtUnitValue
  <2> HIDE DEF portion
  <2>5. paid[v].amount = portion /\ paid[v] \in PlanEntry
    BY <2>3, <2>4 DEF PlanEntry
  <2> QED
    BY <2>2, <2>3, <2>5
<1>4. \A v \in vs \ F : paid[v] = Unpaid
  BY DEF AtUnitValue
<1>5. Unpaid \in PlanEntry /\ Unpaid.amount = 0
  BY DEF Unpaid, PlanEntry
<1>6. paid \in [vs -> PlanEntry]
  <2>1. \A v \in vs : paid[v] \in PlanEntry
    BY <1>3, <1>4, <1>5
  <2>2. paid = [v \in vs |-> paid[v]]
    BY DEF AtUnitValue
  <2> HIDE DEF paid
  <2> QED
    BY <2>1, <2>2
<1>7. (\A v \in vs : sums[v] \in Nat) /\ (\A v \in F : sums[v] = paid[v].amount) /\ \A v \in vs \ F : sums[v] = 0
  <2>1. \A v \in vs : sums[v] = paid[v].amount
    BY DEF AmountsOf
  <2> HIDE DEF sums, paid, F
  <2>2. \A v \in F : v \in vs /\ sums[v] = paid[v].amount /\ sums[v] \in Nat
    BY <1>1, <1>3, <2>1
  <2>3. \A v \in vs \ F : sums[v] = 0
    BY <1>4, <1>5, <2>1
  <2>4. \A v \in vs : sums[v] \in Nat
    BY <2>2, <2>3
  <2> QED
    BY <2>2, <2>3, <2>4
<1>8. DOMAIN sums = vs
  BY DEF AmountsOf
<1> HIDE DEF paid, sums, total, F, units
<1>9. SumFunction(sums) = SumFunctionOnSet(sums, F)
  <2>1. SumFunctionOnSet(sums, vs) = SumFunctionOnSet(sums, F)
    <3>1. \A v \in vs : sums[v] \in Int
      BY <1>7
    <3> QED
      BY <1>1, <1>7, <3>1, SumOfPart
  <2> QED
    BY <1>8, <2>1 DEF SumFunction
<1>10. 2 * total \in Int /\ 2 * prizePool \in Int
  BY <1>1
<1>11. SumFunctionOnSet(scaled, F) = (2 * total) * SumFunctionOnSet(sums, F)
  <2>1. \A v \in F : sums[v] \in Int /\ scaled[v] = (2 * total) * sums[v]
    BY <1>1, <1>7
  <2> HIDE DEF scaled
  <2> QED
    BY <1>1, <1>10, <2>1, SumScales
<1>12. SumFunctionOnSet(exact, F) = (2 * prizePool) * SumFunctionOnSet(units, F)
  <2>1. \A v \in F : units[v] \in Int /\ exact[v] = (2 * prizePool) * units[v]
    BY <1>1, <1>2
  <2> HIDE DEF exact
  <2> QED
    BY <1>1, <1>10, <2>1, SumScales
<1>13. SumFunctionOnSet(half, F) = total * Cardinality(F)
  <2> DEFINE one == [v \in F |-> 1]
  <2>1. \A v \in F : one[v] \in Int /\ half[v] = total * one[v]
    BY <1>1
  <2>2. \A v \in F : one[v] = IF v \in F THEN 1 ELSE 0
    OBVIOUS
  <2> HIDE DEF one, half
  <2>3. SumFunctionOnSet(one, F) = Cardinality(F)
    BY <1>1, <2>2, SumCounts
  <2>4. total \in Int
    BY <1>1
  <2>5. SumFunctionOnSet(half, F) = total * SumFunctionOnSet(one, F)
    BY <1>1, <2>1, <2>4, SumScales
  <2> QED
    BY <2>3, <2>5
<1>14. SumFunctionOnSet(bound, F) = SumFunctionOnSet(exact, F) + SumFunctionOnSet(half, F)
  <2>1. \A v \in F : exact[v] \in Int /\ half[v] \in Int /\ bound[v] = exact[v] + half[v]
    BY <1>1, <1>2
  <2> HIDE DEF exact, half, bound
  <2> QED
    BY <1>1, <2>1, SumAddsUp
<1>15. SumFunctionOnSet(scaled, F) <= SumFunctionOnSet(bound, F)
  <2>1. ASSUME NEW v \in F PROVE scaled[v] \in Int /\ bound[v] \in Int /\ scaled[v] <= bound[v]
    <3>1. sums[v] \in Nat /\ units[v] \in Nat /\ 2 * (total * sums[v]) <= 2 * (prizePool * units[v]) + total
      BY <1>1, <1>2, <1>3, <1>7
    <3>2. scaled[v] = (2 * total) * sums[v] /\ bound[v] = (2 * prizePool) * units[v] + total
      OBVIOUS
    <3> DEFINE s == sums[v]
               u == units[v]
    <3>3. (2 * total) * s = 2 * (total * s) /\ (2 * prizePool) * u = 2 * (prizePool * u)
          /\ total * s \in Nat /\ prizePool * u \in Nat
      BY <1>1, <3>1
    <3> HIDE DEF scaled, bound, s, u
    <3> QED
      BY <1>1, <3>1, <3>2, <3>3 DEF s, u
  <2> HIDE DEF scaled, bound
  <2> QED
    BY <1>1, <2>1, SumGrows
<1>16. SumFunctionOnSet(units, F) = total
  BY DEF total, units, F, TotalUnits
<1>17. SumFunctionOnSet(sums, F) \in Nat
  BY <1>1, <1>7, SumIsWhole
<1> DEFINE outlay == SumFunctionOnSet(sums, F)
           c == Cardinality(F)
           pool == prizePool
<1>18. (2 * total) * outlay <= (2 * pool) * total + total * c
  BY <1>11, <1>12, <1>13, <1>14, <1>15, <1>16
<1>19. outlay \in Nat /\ c \in Nat /\ pool \in Nat
  BY <1>1, <1>17
<1> HIDE DEF outlay, c, pool
<1>20. total * (2 * outlay) <= total * (2 * pool + c)
  <2>1. (2 * total) * outlay = total * (2 * outlay) /\ (2 * pool) * total + total * c = total * (2 * pool + c)
    BY <1>1, <1>19
  <2> QED
    BY <1>18, <2>1
<1>21. 2 * outlay <= 2 * pool + c
  BY <1>1, <1>19, <1>20
<1> QED
  BY <1>6, <1>9, <1>21 DEF outlay, c, pool, paid, F, sums

LEMMA PricesAreWhole ==
  ASSUME DivisionTypes, NEW vs \in SUBSET Judged
  PROVE  FloorPrices(vs) \in [vs -> Nat]
<1>1. ASSUME NEW v \in vs PROVE Rounded(EffectiveUnits(vs, v) * payoutFloor, 10) \in Nat
  <2>1. EffectiveUnits(vs, v) \in Nat /\ payoutFloor \in Nat
    BY UnitsAreWhole DEF DivisionTypes
  <2>2. EffectiveUnits(vs, v) * payoutFloor \in Nat /\ 10 \in Nat /\ 10 > 0
    BY <2>1
  <2> QED
    BY <2>2, RoundedIs
<1> QED
  BY <1>1 DEF FloorPrices

\* At the floor the payments stop where the pool does.
LEMMA AtFloorFits ==
  ASSUME DivisionTypes, NEW vs \in SUBSET Judged
  PROVE  /\ PayAtFloor(vs) \in [vs -> PlanEntry]
         /\ SumFunction(AmountsOf(PayAtFloor(vs), vs)) <= prizePool
<1> DEFINE price == FloorPrices(vs)
           order == FloorOrder(vs)
<1>2. price \in [vs -> Nat]
  BY PricesAreWhole
<1>3. /\ DOMAIN order = 1..Cardinality(FundedOf(vs)) /\ \A i \in 1..Cardinality(FundedOf(vs)) : order[i] \in vs
      /\ Cardinality(FundedOf(vs)) \in Nat /\ IsFiniteSet(vs) /\ prizePool \in Nat
  BY OrderIsOfFunded, FundedParts DEF DivisionTypes
<1> HIDE DEF price, order
<1>4. /\ PaidInOrder(price, order, prizePool) \in [vs -> PlanEntry]
      /\ SumFunction(AmountsOf(PaidInOrder(price, order, prizePool), vs)) <= prizePool
  BY <1>2, <1>3, FloorFits
<1>5. PayAtFloor(vs) = PaidInOrder(price, order, prizePool)
  BY DEF PayAtFloor, price, order
<1> QED
  BY <1>4, <1>5

LEMMA PlanByCases ==
  /\ TotalUnits(Judged) = 0 => PlanFor(Judged) = NothingPlanned
  /\ TotalUnits(Judged) # 0 /\ AboveFloor(Judged) => PlanFor(Judged) = AtUnitValue(Judged)
  /\ TotalUnits(Judged) # 0 /\ ~AboveFloor(Judged) => PlanFor(Judged) = PayAtFloor(Judged)
BY DEF PlanFor, NothingPlanned, AtUnitValue

LEMMA PlanFits == DivisionInv => PlanFitsPool
<1> SUFFICES ASSUME DivisionInv PROVE PlanFitsPool
  OBVIOUS
<1> DEFINE outlay == SumFunction(AmountsOf(plan, Judged))
           count == Cardinality(FundedOf(Judged))
<1>1. DivisionTypes /\ Judged \in SUBSET Judged /\ prizePool \in Nat /\ count \in Nat /\ IsFiniteSet(Judged)
  BY FundedParts DEF DivisionInv, DivisionTypes
<1>2. PlanFitsPool <=> IF AboveFloor(Judged) THEN 2 * outlay <= 2 * prizePool + count ELSE outlay <= prizePool
  BY DEF PlanFitsPool, AmountsOf
<1>3. CASE plan = NothingPlanned
  <2> DEFINE zero == [v \in Judged |-> 0]
  <2>1. AmountsOf(plan, Judged) = zero
    BY <1>3 DEF NothingPlanned, AmountsOf, Unpaid
  <2>2. (\A v \in Judged : zero[v] = IF v \in {} THEN 1 ELSE 0) /\ DOMAIN zero = Judged
    OBVIOUS
  <2>3. {} \in SUBSET Judged /\ Cardinality({}) = 0
    BY FS_EmptySet
  <2> HIDE DEF zero
  <2>4. SumFunctionOnSet(zero, Judged) = 0
    BY <1>1, <2>2, <2>3, SumCounts
  <2>5. outlay = 0
    BY <2>1, <2>2, <2>4 DEF SumFunction
  <2> HIDE DEF outlay, count
  <2> QED
    BY <1>1, <1>2, <2>5
<1>4. CASE plan # NothingPlanned
  <2>1. plan = PlanFor(Judged) /\ TotalUnits(Judged) # 0
    BY <1>4, PlanByCases DEF DivisionInv
  <2>2. CASE AboveFloor(Judged)
    <3>1. plan = AtUnitValue(Judged)
      BY <2>1, <2>2, PlanByCases
    <3> QED
      BY <1>1, <1>2, <2>1, <2>2, <3>1, UnitValueFits
  <2>3. CASE ~AboveFloor(Judged)
    <3>1. plan = PayAtFloor(Judged)
      BY <2>1, <2>3, PlanByCases
    <3> QED
      BY <1>1, <1>2, <2>3, <3>1, AtFloorFits
  <2> QED
    BY <2>2, <2>3
<1> QED
  BY <1>3, <1>4

\* Without those, positions, units, the order and the prices are what they were.
LEMMA KeptAlike ==
  ASSUME DivisionTypes, NEW kept, kept = FundedOf(Judged)
  PROVE  /\ kept \in SUBSET Judged /\ FundedOf(kept) = kept
         /\ \A v : EffectiveUnits(kept, v) = EffectiveUnits(Judged, v)
         /\ TotalUnits(kept) = TotalUnits(Judged) /\ (AboveFloor(kept) <=> AboveFloor(Judged))
         /\ FloorOrder(kept) = FloorOrder(Judged)
         /\ \A v \in kept : FloorPrices(kept)[v] = FloorPrices(Judged)[v]
<1>1. kept \in SUBSET Judged /\ FundedOf(kept) = kept /\ IsFiniteSet(kept)
  BY FundedParts
<1>2. \A v : CurvePosition(kept, v) = CurvePosition(Judged, v)
  BY <1>1 DEF CurvePosition
<1>3. \A v : EffectiveUnits(kept, v) = EffectiveUnits(Judged, v)
  BY <1>2 DEF EffectiveUnits
<1>4. TotalUnits(kept) = TotalUnits(Judged)
  <2> DEFINE f == [v \in kept |-> EffectiveUnits(kept, v)]
             g == [v \in Judged |-> EffectiveUnits(Judged, v)]
  <2>1. \A v \in kept : f[v] \in Int /\ g[v] \in Int /\ f[v] = g[v]
    BY <1>1, <1>3, UnitsAreWhole
  <2>2. TotalUnits(kept) = SumFunctionOnSet(f, kept) /\ TotalUnits(Judged) = SumFunctionOnSet(g, kept)
    BY <1>1 DEF TotalUnits
  <2> HIDE DEF f, g
  <2> QED
    BY <1>1, <2>1, <2>2, SumSame
<1>5. AboveFloor(kept) <=> AboveFloor(Judged)
  BY <1>4 DEF AboveFloor
<1>6. FloorOrder(kept) = FloorOrder(Judged)
  <2>1. ASSUME NEW v PROVE PaidBefore(kept, v) = PaidBefore(Judged, v)
    BY <1>1, <1>2 DEF PaidBefore
  <2>2. [v \in FundedOf(kept) |-> PaidBefore(kept, v)] = [v \in FundedOf(Judged) |-> PaidBefore(Judged, v)]
    BY <1>1, <2>1
  <2> QED
    BY <2>2 DEF FloorOrder
<1>7. \A v \in kept : FloorPrices(kept)[v] = FloorPrices(Judged)[v]
  BY <1>1, <1>3 DEF FloorPrices
<1> QED
  BY <1>1, <1>3, <1>4, <1>5, <1>6, <1>7

\* The same prices in the same order are paid the same.
LEMMA PaymentsAgree ==
  ASSUME NEW A, NEW B \in SUBSET A, NEW price \in [A -> Nat], NEW other \in [B -> Nat],
         \A v \in B : other[v] = price[v], NEW pool \in Nat,
         NEW n \in Nat, NEW order, DOMAIN order = 1..n, \A i \in 1..n : order[i] \in B
  PROVE  \A v \in B : PaidInOrder(other, order, pool)[v] = PaidInOrder(price, order, pool)[v]
<1>1. PICK s : Payments(price, order, pool, s) /\ PaidInOrder(price, order, pool) = s[n].paid
  BY PaidInSteps
<1>2. PICK t : Payments(other, order, pool, t) /\ PaidInOrder(other, order, pool) = t[n].paid
  BY PaidInSteps
<1> DEFINE Alike(x, y) == /\ x.left = y.left /\ DOMAIN x.paid = A /\ DOMAIN y.paid = B
                          /\ \A v \in B : x.paid[v] = y.paid[v]
           Q == {i \in Nat : i <= n => Alike(s[i], t[i])}
<1>3. 0 \in Q
  BY <1>1, <1>2 DEF Payments
<1>4. ASSUME NEW x, NEW y, Alike(x, y), NEW v \in B PROVE Alike(PayNext(price, x, v), PayNext(other, y, v))
  <2>1. v \in A /\ price[v] = other[v] /\ (FloorPays(x.left, price[v]) <=> FloorPays(y.left, other[v]))
    BY <1>4
  <2>2. CASE ~FloorPays(x.left, price[v])
    BY <1>4, <2>1, <2>2 DEF PayNext
  <2>3. CASE FloorPays(x.left, price[v])
    <3> DEFINE entry == [amount |-> price[v], funded |-> TRUE]
               x1 == PayNext(price, x, v)
               y1 == PayNext(other, y, v)
    <3>1. x1.left = x.left - price[v] /\ x1.paid = [x.paid EXCEPT ![v] = entry]
      BY <2>1, <2>3 DEF PayNext
    <3>2. y1.left = y.left - price[v] /\ y1.paid = [y.paid EXCEPT ![v] = entry]
      BY <2>1, <2>3 DEF PayNext
    <3> HIDE DEF entry, x1, y1
    <3>3. DOMAIN x1.paid = A /\ DOMAIN y1.paid = B /\ \A u \in B : x1.paid[u] = y1.paid[u]
      BY <1>4, <2>1, <3>1, <3>2
    <3>4. Alike(x1, y1)
      BY <1>4, <3>1, <3>2, <3>3
    <3> QED
      BY <3>4 DEF x1, y1
  <2> QED
    BY <2>2, <2>3
<1>5. ASSUME NEW i \in Q PROVE i + 1 \in Q
  <2> SUFFICES ASSUME i + 1 <= n PROVE Alike(s[i + 1], t[i + 1])
    OBVIOUS
  <2>1. i \in Nat /\ i + 1 \in 1..n /\ (i + 1) - 1 = i /\ Alike(s[i], t[i])
    OBVIOUS
  <2>2. /\ s[i + 1] = PayNext(price, s[(i + 1) - 1], order[i + 1])
        /\ t[i + 1] = PayNext(other, t[(i + 1) - 1], order[i + 1])
        /\ order[i + 1] \in B
    BY <1>1, <1>2, <2>1 DEF Payments
  <2> HIDE DEF Alike
  <2> QED
    BY <1>4, <2>1, <2>2
<1>6. Q = Nat
  <2> HIDE DEF Q
  <2>1. Q \in SUBSET Nat
    BY DEF Q
  <2> QED
    BY <1>3, <1>5, <2>1, NatBySets
<1>7. Alike(s[n], t[n])
  BY <1>6
<1> QED
  BY <1>1, <1>2, <1>7

LEMMA UnitlessDoNothing == DivisionInv => UnitlessChangeNothing
<1> SUFFICES ASSUME DivisionInv, NEW v0 \in Judged, plan[v0].funded
             PROVE  \A v \in FundedOf(Judged) : plan[v] = PlanFor(FundedOf(Judged))[v]
  BY DEF UnitlessChangeNothing
<1> DEFINE kept == FundedOf(Judged)
<1>1. DivisionTypes /\ plan # NothingPlanned
  BY DEF DivisionInv, NothingPlanned, Unpaid
<1>2. plan = PlanFor(Judged) /\ TotalUnits(Judged) # 0
  BY <1>1, PlanByCases DEF DivisionInv
<1>3. /\ kept \in SUBSET Judged /\ FundedOf(kept) = kept
      /\ \A v : EffectiveUnits(kept, v) = EffectiveUnits(Judged, v)
      /\ TotalUnits(kept) = TotalUnits(Judged) /\ (AboveFloor(kept) <=> AboveFloor(Judged))
      /\ FloorOrder(kept) = FloorOrder(Judged)
      /\ \A v \in kept : FloorPrices(kept)[v] = FloorPrices(Judged)[v]
  BY <1>1, KeptAlike
<1>4. FundedOf(Judged) = kept
  OBVIOUS
<1> HIDE DEF kept
<1>5. CASE AboveFloor(Judged)
  <2>1. plan = AtUnitValue(Judged)
    BY <1>2, <1>5, PlanByCases
  <2>2. PlanFor(kept) = AtUnitValue(kept)
    BY <1>2, <1>3, <1>5 DEF PlanFor, AtUnitValue
  <2>3. \A v \in kept : AtUnitValue(Judged)[v] = AtUnitValue(kept)[v]
    BY <1>3, <1>4 DEF AtUnitValue
  <2> QED
    BY <1>4, <2>1, <2>2, <2>3
<1>6. CASE ~AboveFloor(Judged)
  <2> DEFINE n == Cardinality(kept)
             order == FloorOrder(Judged)
             price == FloorPrices(Judged)
             other == FloorPrices(kept)
  <2>1. plan = PayAtFloor(Judged)
    BY <1>2, <1>6, PlanByCases
  <2>2. PlanFor(kept) = PayAtFloor(kept)
    BY <1>2, <1>3, <1>6 DEF PlanFor
  <2>3. n \in Nat /\ DOMAIN order = 1..n /\ \A i \in 1..n : order[i] \in kept
    BY <1>1, <1>4, OrderIsOfFunded, FundedParts
  <2>4. price \in [Judged -> Nat] /\ other \in [kept -> Nat] /\ prizePool \in Nat
    BY <1>1, <1>3, PricesAreWhole DEF DivisionTypes
  <2>5. \A v \in kept : other[v] = price[v]
    BY <1>3
  <2>6. PayAtFloor(Judged) = PaidInOrder(price, order, prizePool) /\ PayAtFloor(kept) = PaidInOrder(other, order, prizePool)
    BY <1>3 DEF PayAtFloor
  <2> HIDE DEF n, order, price, other
  <2>7. \A v \in kept : PaidInOrder(other, order, prizePool)[v] = PaidInOrder(price, order, prizePool)[v]
    BY <1>3, <2>3, <2>4, <2>5, PaymentsAgree
  <2> QED
    BY <1>4, <2>1, <2>2, <2>6, <2>7
<1> QED
  BY <1>4, <1>5, <1>6

\* What is divided does not change, so neither does what it gives.
LEMMA PlanStands ==
  ASSUME UNCHANGED <<author, bucket, merged, prizePool, payoutFloor, curveOn, bucketUnits>>
  PROVE  PlanFor(Judged)' = PlanFor(Judged)
<1>1. FundedOf(Judged)' = FundedOf(Judged)
  BY DEF FundedOf, UnitsFor
<1>2. ASSUME NEW v PROVE CurvePosition(Judged, v)' = CurvePosition(Judged, v)
  BY <1>1 DEF CurvePosition, MergedBefore
<1>3. ASSUME NEW v PROVE EffectiveUnits(Judged, v)' = EffectiveUnits(Judged, v)
  <2>1. CurvePosition(Judged, v)' = CurvePosition(Judged, v)
    BY <1>2
  <2> QED
    BY <2>1 DEF EffectiveUnits, Multiplier, UnitsFor
<1>4. TotalUnits(Judged)' = TotalUnits(Judged)
  <2>1. [v \in Judged |-> EffectiveUnits(Judged, v)]' = [v \in Judged |-> EffectiveUnits(Judged, v)]
    BY <1>3
  <2> QED
    BY <1>1, <2>1 DEF TotalUnits
<1>5. AboveFloor(Judged)' = AboveFloor(Judged)
  BY <1>4 DEF AboveFloor
<1>6. FloorOrder(Judged)' = FloorOrder(Judged)
  <2>1. ASSUME NEW v PROVE PaidBefore(Judged, v)' = PaidBefore(Judged, v)
    BY <1>1, <1>2 DEF PaidBefore
  <2>2. [v \in FundedOf(Judged) |-> PaidBefore(Judged, v)]' = [v \in FundedOf(Judged) |-> PaidBefore(Judged, v)]
    BY <1>1, <2>1
  <2> QED
    BY <2>2 DEF FloorOrder
<1>7. FloorPrices(Judged)' = FloorPrices(Judged)
  BY <1>3 DEF FloorPrices
<1>8. PayAtFloor(Judged)' = PayAtFloor(Judged)
  BY <1>6, <1>7 DEF PayAtFloor
<1> QED
  BY <1>1, <1>3, <1>4, <1>5, <1>8 DEF PlanFor

LEMMA DivisionStep == ASSUME DivisionInv, [DivisionNext]_divisionVars PROVE DivisionInv'
<1>1. CASE ComputePayout
  <2>1. PlanFor(Judged)' = PlanFor(Judged) /\ plan' = PlanFor(Judged)
    BY <1>1, PlanStands DEF ComputePayout
  <2>2. DivisionTypes'
    BY <1>1 DEF DivisionInv, DivisionTypes, ComputePayout
  <2> QED
    BY <2>1, <2>2 DEF DivisionInv
<1>2. CASE UNCHANGED divisionVars
  <2>1. PlanFor(Judged)' = PlanFor(Judged) /\ plan' = plan
    BY <1>2, PlanStands DEF divisionVars
  <2>2. DivisionTypes'
    BY <1>2 DEF DivisionInv, DivisionTypes, divisionVars
  <2> QED
    BY <2>1, <2>2 DEF DivisionInv, NothingPlanned
<1> QED
  BY <1>1, <1>2 DEF DivisionNext

LEMMA DivisionBegins == DivisionInit => DivisionInv
BY DivisionAssumption DEF DivisionInit, DivisionInv, DivisionTypes, NothingPlanned

LEMMA PoolDivisionSound == DivisionSpec => [](PlanFitsPool /\ UnitlessChangeNothing)
BY PlanFits, UnitlessDoNothing, DivisionBegins, DivisionStep, PTL DEF DivisionSpec

-----------------------------------------------------------------------------
(* The founding members' settlement. A run knows who was approved when its lines  *)
(* were loaded and who has been since; who is eligible is among them, and whoever *)
(* was approved all along is eligible once checked. What is done divides the pool *)
(* by largest remainders over the shares that were read.                          *)

DryRunRow ==
  [pc : {"idle", "lines", "done"}, shares : [Member -> Nat], unchecked : SUBSET Member,
   eligible : SUBSET Member, approvedOnce : SUBSET Member, approvedAlways : SUBSET Member,
   amount : [Member -> Nat]]

DryRunTells(r, status) ==
  /\ r.eligible \subseteq r.approvedOnce
  /\ r.approvedAlways \subseteq {m \in Member : status[m] = "approved"}
  /\ r.approvedAlways \ r.unchecked \subseteq r.eligible
  /\ r.pc # "idle" => {m \in Member : status[m] = "approved"} \subseteq r.approvedOnce

DryRunDivides(r) ==
  r.pc = "done" => /\ r.unchecked = {} /\ SumFunction(EffectiveWeight(r)) # 0
                   /\ r.amount = Apportion(EffectiveWeight(r), FoundingMinor)

DryRunSound(r, status) == r \in DryRunRow /\ DryRunTells(r, status) /\ DryRunDivides(r)

DryRunInv == /\ IsFiniteSet(granted) /\ DOMAIN follows = Member
             /\ dryRun = [d \in DryRunOf |-> dryRun[d]]
             /\ \A d \in DryRunOf : DryRunSound(dryRun[d], follows)

LEMMA WeightIsWhole == ASSUME NEW r \in DryRunRow PROVE EffectiveWeight(r) \in [Member -> Nat]
<1> SUFFICES ASSUME NEW m \in Member PROVE r.shares[m] * WaveMultiplier[m] \in Nat
  BY DEF EffectiveWeight
<1>1. r.shares[m] \in Nat /\ WaveMultiplier[m] \in Nat
  BY FoundingSettlementAssumption DEF DryRunRow
<1> QED
  BY <1>1

\* The largest remainders among the founding members, in the terms of DividesTheWhole.
LEMMA MembersDivide ==
  ASSUME NEW w \in [Member -> Nat], SumFunction(w) # 0
  PROVE  \E floor, rest :
           /\ Shares(Member, w, FoundingMinor, floor, rest)
           /\ Apportion(w, FoundingMinor)
                = Divided(Member, w, floor, rest, FoundingMinor - SumFunction(floor))
<1> DEFINE floor == [m \in Member |-> (FoundingMinor * w[m]) \div SumFunction(w)]
           rest == [m \in Member |-> (FoundingMinor * w[m]) % SumFunction(w)]
<1>1. Shares(Member, w, FoundingMinor, floor, rest)
  BY DEF Shares
<1>2. Apportion(w, FoundingMinor)
        = Divided(Member, w, floor, rest, FoundingMinor - SumFunction(floor))
  BY DEF Apportion, Divided, AheadOf
<1> HIDE DEF floor, rest
<1> QED
  BY <1>1, <1>2

\* Everyone is within a unit of the exact share, and who weighs nothing is paid nothing.
LEMMA MembersWithinAUnit ==
  ASSUME NEW w \in [Member -> Nat], SumFunction(w) # 0
  PROVE  LET out == Apportion(w, FoundingMinor)
             total == SumFunction(w)
         IN  /\ out \in [Member -> Nat] /\ SumFunction(out) = FoundingMinor
             /\ \A m \in Member : /\ w[m] = 0 => out[m] = 0
                                  /\ total * out[m] < FoundingMinor * w[m] + total
                                  /\ total * out[m] + total > FoundingMinor * w[m]
<1> DEFINE out == Apportion(w, FoundingMinor)
           total == SumFunction(w)
<1>1. IsFiniteSet(Member) /\ (\A m \in Member : m \in Nat) /\ FoundingMinor \in Nat
  BY FoundingSettlementAssumption
<1>2. PICK floor, rest : /\ Shares(Member, w, FoundingMinor, floor, rest)
                         /\ out = Divided(Member, w, floor, rest, FoundingMinor - SumFunction(floor))
  BY MembersDivide
<1> HIDE DEF out
<1>3. /\ out \in [Member -> Nat] /\ SumFunction(out) = FoundingMinor
      /\ \E mark \in Nat :
           /\ mark < total
           /\ \A m \in Member : \/ out[m] = floor[m] /\ rest[m] <= mark
                                \/ out[m] = floor[m] + 1 /\ rest[m] >= mark /\ rest[m] > 0
      /\ \A m, n \in Member : m < n /\ w[m] = w[n] => out[n] <= out[m]
  BY <1>1, <1>2, DividesTheWhole
<1>4. /\ total \in Nat /\ floor \in [Member -> Nat] /\ rest \in [Member -> Nat]
      /\ \A m \in Member : /\ rest[m] < total
                           /\ FoundingMinor * w[m] = total * floor[m] + rest[m]
                           /\ w[m] = 0 => rest[m] = 0 /\ floor[m] = 0
  BY <1>1, <1>2, SharesSound
<1> HIDE DEF total
<1>5. \A m \in Member : out[m] = floor[m] \/ (out[m] = floor[m] + 1 /\ rest[m] > 0)
  BY <1>3
<1>6. ASSUME NEW m \in Member
      PROVE  /\ w[m] = 0 => out[m] = 0
             /\ total * out[m] < FoundingMinor * w[m] + total
             /\ total * out[m] + total > FoundingMinor * w[m]
  <2> DEFINE exact == FoundingMinor * w[m]
             whole == total * floor[m]
  <2>1. whole \in Nat /\ rest[m] \in Nat /\ total \in Nat /\ rest[m] < total
        /\ exact = whole + rest[m]
    BY <1>4
  <2>2. \/ out[m] = floor[m] /\ total * out[m] = whole
        \/ rest[m] > 0 /\ total * out[m] = whole + total
    <3>1. \A a, b \in Nat : a * (b + 1) = a * b + a
      OBVIOUS
    <3>2. floor[m] \in Nat /\ total \in Nat
      BY <1>4
    <3>3. total * (floor[m] + 1) = whole + total
      BY <3>1, <3>2
    <3> QED
      BY <1>5, <3>3
  <2>3. w[m] = 0 => out[m] = 0
    <3>1. (w[m] = 0 => rest[m] = 0 /\ floor[m] = 0) /\ (out[m] = floor[m] \/ rest[m] > 0)
      BY <1>4, <1>5
    <3> QED
      BY <3>1
  <2> HIDE DEF exact, whole
  <2>4. total * out[m] < exact + total /\ total * out[m] + total > exact
    BY <2>1, <2>2
  <2> QED
    BY <2>3, <2>4 DEF exact
<1> QED
  BY <1>3, <1>6 DEF out, total

LEMMA SettlementAddsUp == DryRunInv => FoundingAddsUp
<1> SUFFICES ASSUME DryRunInv, NEW d \in DryRunOf, dryRun[d].pc = "done"
             PROVE  LET r == dryRun[d]  w == EffectiveWeight(r)  total == SumFunction(w)
                    IN  /\ SumFunction(r.amount) = FoundingMinor
                        /\ \A m \in Member : r.amount[m] > 0 => m \in r.approvedOnce
                        /\ \A m \in r.approvedAlways :
                             /\ total * r.amount[m] < FoundingMinor * r.shares[m] * WaveMultiplier[m] + total
                             /\ total * r.amount[m] + total > FoundingMinor * r.shares[m] * WaveMultiplier[m]
  BY DEF FoundingAddsUp
<1> DEFINE r == dryRun[d]
           w == EffectiveWeight(r)
           total == SumFunction(w)
<1>1. r \in DryRunRow /\ DryRunTells(r, follows) /\ DryRunDivides(r)
  BY DEF DryRunInv, DryRunSound
<1> HIDE DEF r
<1>2. r.pc = "done"
  BY DEF r
<1>3. w \in [Member -> Nat] /\ total # 0 /\ r.amount = Apportion(w, FoundingMinor) /\ r.unchecked = {}
  BY <1>1, <1>2, WeightIsWhole DEF DryRunDivides
<1>4. \A m \in Member : w[m] = IF m \in r.eligible THEN r.shares[m] * WaveMultiplier[m] ELSE 0
  BY DEF EffectiveWeight
<1> HIDE DEF w
<1>5. /\ r.amount \in [Member -> Nat] /\ SumFunction(r.amount) = FoundingMinor
      /\ \A m \in Member : /\ w[m] = 0 => r.amount[m] = 0
                           /\ total * r.amount[m] < FoundingMinor * w[m] + total
                           /\ total * r.amount[m] + total > FoundingMinor * w[m]
  BY <1>3, MembersWithinAUnit
<1> HIDE DEF total
<1>6. ASSUME NEW m \in Member, r.amount[m] > 0  PROVE m \in r.approvedOnce
  <2>1. m \in r.eligible
    BY <1>4, <1>5, <1>6
  <2> QED
    BY <1>1, <2>1 DEF DryRunTells
<1>7. ASSUME NEW m \in r.approvedAlways
      PROVE  /\ total * r.amount[m] < FoundingMinor * r.shares[m] * WaveMultiplier[m] + total
             /\ total * r.amount[m] + total > FoundingMinor * r.shares[m] * WaveMultiplier[m]
  <2>1. m \in Member /\ m \in r.eligible
    BY <1>1, <1>3 DEF DryRunRow, DryRunTells
  <2>2. r.shares[m] \in Nat /\ WaveMultiplier[m] \in Nat /\ FoundingMinor \in Nat
    BY <1>1, <2>1, FoundingSettlementAssumption DEF DryRunRow
  <2>3. \A a, b, c \in Nat : a * (b * c) = a * b * c
    OBVIOUS
  <2>4. FoundingMinor * w[m] = FoundingMinor * r.shares[m] * WaveMultiplier[m]
    BY <1>4, <2>1, <2>2, <2>3
  <2> QED
    BY <1>5, <2>1, <2>4
<1> QED
  BY <1>5, <1>6, <1>7 DEF r, w, total

LEMMA DryRunsBegin == FoundingSettlementInit => DryRunInv
<1> SUFFICES ASSUME FoundingSettlementInit PROVE DryRunInv
  OBVIOUS
<1>1. NotRun \in DryRunRow /\ NotRun.pc = "idle"
  BY DEF NotRun, DryRunRow
<1>2. ASSUME NEW d \in DryRunOf  PROVE DryRunSound(dryRun[d], follows)
  BY <1>1, <1>2 DEF FoundingSettlementInit, DryRunSound, DryRunTells, DryRunDivides, NotRun
<1> QED
  BY <1>2, FS_EmptySet DEF FoundingSettlementInit, DryRunInv

LEMMA GrantedIsFinite == ASSUME DryRunInv, NEW v, NEW g \in GrantRun, NEW fails \in BOOLEAN,
                                OnMergedPR(g, v, fails) \/ GrantReferrer(g, fails)
                         PROVE  IsFiniteSet(granted')
<1>1. IsFiniteSet(granted)
  BY DEF DryRunInv
<1>2. CASE OnMergedPR(g, v, fails)
  <2>1. granted' = granted \/ granted' = granted \cup {AuthorShare(v)}
    BY <1>2 DEF OnMergedPR
  <2> QED
    BY <1>1, <2>1, FS_AddElement
<1>3. CASE GrantReferrer(g, fails)
  <2> DEFINE u == granting[g].now
             one == <<ReferredBy[AuthorOf[u]], "referral_merged_pr", u>>
  <2>1. granted' = granted \/ granted' = granted \cup ReferrerShare(u)
    BY <1>3 DEF GrantReferrer
  <2>2. ReferrerShare(u) = {} \/ ReferrerShare(u) = {one}
    BY DEF ReferrerShare
  <2> HIDE DEF u, one
  <2>3. granted' = granted \/ granted' = granted \cup {one}
    BY <2>1, <2>2
  <2> QED
    BY <1>1, <2>3, FS_AddElement
<1> QED
  BY <1>2, <1>3

LEMMA SharesAreWhole == ASSUME IsFiniteSet(granted), NEW m \in Member PROVE SharesOf(m) \in Nat
<1> DEFINE own == {s \in granted : s[1] = m /\ s[2] = "merged_pr"}
           referred == {s \in granted : s[1] = m /\ s[2] = "referral_merged_pr"}
<1>1. IsFiniteSet(own) /\ IsFiniteSet(referred)
  BY FS_Subset
<1>2. Cardinality(own) \in Nat /\ Cardinality(referred) \in Nat
  BY <1>1, FS_CardinalityType
<1> HIDE DEF own, referred
<1>3. BaseShares[m] \in Nat /\ MergedShare \in Nat /\ ReferredShare \in Nat
  BY FoundingSettlementAssumption
<1>4. MergedShare * Cardinality(own) \in Nat /\ ReferredShare * Cardinality(referred) \in Nat
  BY <1>2, <1>3
<1>5. SharesOf(m) = BaseShares[m] + MergedShare * Cardinality(own) + ReferredShare * Cardinality(referred)
  BY DEF SharesOf, own, referred
<1> QED
  BY <1>3, <1>4, <1>5

\* One run that moves soundly.
LEMMA DryRunMoves ==
  ASSUME DryRunInv, UNCHANGED <<granted, follows>>, NEW d \in DryRunOf, NEW r, DryRunSound(r, follows),
         dryRun' = [dryRun EXCEPT ![d] = r]
  PROVE  DryRunInv'
<1>1. dryRun' = [e \in DryRunOf |-> IF e = d THEN r ELSE dryRun[e]]
  BY DEF DryRunInv
<1>2. \A e \in DryRunOf : DryRunSound(dryRun'[e], follows)
  BY <1>1 DEF DryRunInv
<1>3. dryRun' = [e \in DryRunOf |-> dryRun'[e]]
  BY <1>1
<1> QED
  BY <1>2, <1>3 DEF DryRunInv

LEMMA LoadedSound == ASSUME DryRunInv, NEW d \in DryRunOf, LoadMembers(d) PROVE DryRunInv'
<1> DEFINE approved == {m \in Member : follows[m] = "approved"}
           r == [NotRun EXCEPT !.pc = "lines", !.shares = [m \in Member |-> SharesOf(m)], !.unchecked = Member,
                               !.approvedOnce = approved, !.approvedAlways = approved]
<1>1. \A m \in Member : SharesOf(m) \in Nat
  BY SharesAreWhole DEF DryRunInv
<1>2. /\ r \in DryRunRow /\ r.pc = "lines" /\ r.unchecked = Member /\ r.eligible = {}
      /\ r.approvedOnce = approved /\ r.approvedAlways = approved
  BY <1>1 DEF NotRun, DryRunRow
<1> HIDE DEF r
<1>3. DryRunSound(r, follows)
  BY <1>2 DEF DryRunSound, DryRunTells, DryRunDivides
<1> USE DEF r
<1>4. dryRun' = [dryRun EXCEPT ![d] = r] /\ UNCHANGED <<granted, follows>>
  BY DEF LoadMembers
<1> HIDE DEF r
<1> QED
  BY <1>3, <1>4, DryRunMoves

LEMMA EligibleSound == ASSUME DryRunInv, NEW d \in DryRunOf, NEW m \in Member, Eligible(d, m) PROVE DryRunInv'
<1> DEFINE old == dryRun[d]
           r == [old EXCEPT !.unchecked = @ \ {m},
                            !.eligible = IF approvedForFoundingPool(m) THEN @ \cup {m} ELSE @]
<1>1. old \in DryRunRow /\ DryRunTells(old, follows) /\ old.pc = "lines"
  BY DEF DryRunInv, DryRunSound, Eligible
<1>2. dryRun' = [dryRun EXCEPT ![d] = r] /\ UNCHANGED <<granted, follows>>
  BY DEF Eligible, DryRunInv
<1> HIDE DEF old
<1>3. /\ r \in DryRunRow /\ r.pc = "lines" /\ r.unchecked = old.unchecked \ {m}
      /\ r.eligible = IF follows[m] = "approved" THEN old.eligible \cup {m} ELSE old.eligible
      /\ r.approvedOnce = old.approvedOnce /\ r.approvedAlways = old.approvedAlways
  BY <1>1 DEF DryRunRow, approvedForFoundingPool
<1> HIDE DEF r
<1>4. r \in DryRunRow
  BY <1>3
<1>5. DryRunTells(r, follows)
  BY <1>1, <1>3 DEF DryRunTells, DryRunRow
<1>6. DryRunDivides(r)
  BY <1>3 DEF DryRunDivides
<1> QED
  BY <1>2, <1>4, <1>5, <1>6, DryRunMoves DEF DryRunSound

LEMMA DoneSound == ASSUME DryRunInv, NEW d \in DryRunOf, DryRunDone(d) PROVE DryRunInv'
<1> DEFINE old == dryRun[d]
           w == EffectiveWeight(old)
           r == [old EXCEPT !.pc = "done", !.amount = Apportion(w, FoundingMinor)]
<1>1. old \in DryRunRow /\ DryRunTells(old, follows) /\ old.pc = "lines" /\ old.unchecked = {}
  BY DEF DryRunInv, DryRunSound, DryRunDone
<1>2. UNCHANGED <<granted, follows>> /\ dryRun' = [dryRun EXCEPT ![d] = IF SumFunction(w) = 0 THEN NotRun ELSE r]
  BY DEF DryRunDone, DryRunInv
<1> HIDE DEF old
<1>3. CASE SumFunction(w) = 0
  <2>1. DryRunSound(NotRun, follows)
    BY DEF NotRun, DryRunSound, DryRunRow, DryRunTells, DryRunDivides
  <2>2. dryRun' = [dryRun EXCEPT ![d] = NotRun]
    BY <1>2, <1>3
  <2> QED
    BY <1>2, <2>1, <2>2, DryRunMoves
<1>4. CASE SumFunction(w) # 0
  <2>1. w \in [Member -> Nat]
    BY <1>1, WeightIsWhole
  <2>2. Apportion(w, FoundingMinor) \in [Member -> Nat]
    <3> HIDE DEF w
    <3> QED
      BY <1>4, <2>1, MembersWithinAUnit
  <2>3. /\ r \in DryRunRow /\ r.pc = "done" /\ r.shares = old.shares /\ r.unchecked = {} /\ r.eligible = old.eligible
        /\ r.approvedOnce = old.approvedOnce /\ r.approvedAlways = old.approvedAlways
        /\ r.amount = Apportion(w, FoundingMinor)
    <3> HIDE DEF w
    <3> DEFINE out == Apportion(w, FoundingMinor)
    <3> HIDE DEF out
    <3>1. r = [old EXCEPT !.pc = "done", !.amount = out] /\ out \in [Member -> Nat]
      BY <2>2 DEF out
    <3> HIDE DEF r
    <3>2. r \in DryRunRow
      BY <1>1, <3>1 DEF DryRunRow
    <3> QED
      BY <1>1, <3>1, <3>2 DEF DryRunRow, out
  <2>4. dryRun' = [dryRun EXCEPT ![d] = r]
    BY <1>2, <1>4
  <2>5. EffectiveWeight(r) = w
    BY <2>3 DEF EffectiveWeight
  <2> HIDE DEF w, r
  <2>6. r \in DryRunRow
    BY <2>3
  <2>7. DryRunTells(r, follows)
    BY <1>1, <2>3 DEF DryRunTells
  <2>8. DryRunDivides(r)
    BY <1>4, <2>3, <2>5 DEF DryRunDivides
  <2> QED
    BY <1>2, <2>4, <2>6, <2>7, <2>8, DryRunMoves DEF DryRunSound
<1> QED
  BY <1>3, <1>4

LEMMA GateSound == ASSUME DryRunInv, NEW m \in Member, NEW to, GateMoves(m, to) PROVE DryRunInv'
<1> DEFINE Gated(d) == IF to = "approved" THEN [dryRun[d] EXCEPT !.approvedOnce = @ \cup {m}]
                     ELSE [dryRun[d] EXCEPT !.approvedAlways = @ \ {m}]
<1>1. /\ UNCHANGED granted /\ follows' = [follows EXCEPT ![m] = to]
      /\ dryRun' = [d \in DryRunOf |-> Gated(d)]
      /\ follows[m] # to /\ (to # "approved" \/ follows[m] # "approved")
  BY DEF GateMoves
<1>2. DOMAIN follows = Member /\ \A n \in Member : follows'[n] = IF n = m THEN to ELSE follows[n]
  BY <1>1 DEF DryRunInv
<1>3. ASSUME NEW d \in DryRunOf  PROVE DryRunSound(Gated(d), follows')
  <2> DEFINE old == dryRun[d]
             r == Gated(d)
  <2>1. old \in DryRunRow /\ DryRunTells(old, follows) /\ DryRunDivides(old)
    BY DEF DryRunInv, DryRunSound
  <2>2. r = IF to = "approved" THEN [old EXCEPT !.approvedOnce = @ \cup {m}]
            ELSE [old EXCEPT !.approvedAlways = @ \ {m}]
    OBVIOUS
  <2> HIDE DEF old, r, Gated
  <2>3. r = [pc |-> old.pc, shares |-> old.shares, unchecked |-> old.unchecked, eligible |-> old.eligible,
             approvedOnce |-> IF to = "approved" THEN old.approvedOnce \cup {m} ELSE old.approvedOnce,
             approvedAlways |-> IF to = "approved" THEN old.approvedAlways ELSE old.approvedAlways \ {m},
             amount |-> old.amount]
    BY <2>1, <2>2 DEF DryRunRow
  <2>4. r \in DryRunRow
    BY <2>1, <2>3 DEF DryRunRow
  <2>5. EffectiveWeight(r) = EffectiveWeight(old) /\ r.pc = old.pc /\ r.unchecked = old.unchecked /\ r.amount = old.amount
    BY <2>3 DEF EffectiveWeight
  <2>6. DryRunDivides(r)
    BY <2>1, <2>5 DEF DryRunDivides
  <2>7. DryRunTells(r, follows')
    BY <1>2, <2>1, <2>3 DEF DryRunTells, DryRunRow
  <2> QED
    BY <2>4, <2>6, <2>7 DEF DryRunSound, r
<1> HIDE DEF Gated
<1>4. dryRun' = [d \in DryRunOf |-> dryRun'[d]] /\ \A d \in DryRunOf : dryRun'[d] = Gated(d)
  BY <1>1
<1>5. DOMAIN follows' = Member
  BY <1>1, <1>2
<1> QED
  BY <1>1, <1>3, <1>4, <1>5 DEF DryRunInv

LEMMA DryRunStep == ASSUME DryRunInv, [FoundingSettlementNext]_foundingSettlementVars PROVE DryRunInv'
<1>1. ASSUME UNCHANGED <<granted, follows, dryRun>>  PROVE DryRunInv'
  BY <1>1 DEF DryRunInv
<1>2. ASSUME NEW g \in GrantRun, NEW fails \in BOOLEAN, NEW v, OnMergedPR(g, v, fails) \/ GrantReferrer(g, fails)
      PROVE  DryRunInv'
  <2>1. UNCHANGED <<follows, dryRun>>
    BY <1>2 DEF OnMergedPR, GrantReferrer
  <2>2. IsFiniteSet(granted')
    BY <1>2, GrantedIsFinite
  <2> QED
    BY <2>1, <2>2 DEF DryRunInv
<1>3. ASSUME NEW m \in Member, NEW to, GateMoves(m, to)  PROVE DryRunInv'
  BY <1>3, GateSound
<1>4. ASSUME NEW d \in DryRunOf, LoadMembers(d) \/ DryRunDone(d) \/ \E m \in Member : Eligible(d, m)
      PROVE  DryRunInv'
  BY <1>4, LoadedSound, DoneSound, EligibleSound
<1>5. ASSUME UNCHANGED foundingSettlementVars \/ (\E v \in Accepted : MergeMirrored(v))
             \/ (\E g \in GrantRun : GrantMergedPRShares(g) \/ GrantsDone(g) \/ GrantDies(g))
      PROVE  UNCHANGED <<granted, follows, dryRun>>
  BY <1>5 DEF foundingSettlementVars, MergeMirrored, GrantMergedPRShares, GrantsDone, GrantDies
<1> QED
  BY <1>1, <1>2, <1>3, <1>4, <1>5 DEF FoundingSettlementNext

LEMMA FoundingDivides == FoundingSettlementSpec => []FoundingAddsUp
BY DryRunsBegin, DryRunStep, SettlementAddsUp, PTL DEF FoundingSettlementSpec

-----------------------------------------------------------------------------
(* The Merkle tree over a settlement's leaves (MerkleTree). A digest is a leaf or  *)
(* the unordered pair it was hashed from, never both; everything below rests on    *)
(* that and on the shape of the levels.                                            *)

LEMMA DigestsAreIdeal ==
  /\ \A a, b, v : LeafDigest(v) # hashNode(a, b)
  /\ \A v, w : LeafDigest(v) = LeafDigest(w) => v = w
  /\ \A a, b, c, d : hashNode(a, b) = hashNode(c, d) => (a = c /\ b = d) \/ (a = d /\ b = c)
<1>1. \A a, b, v : LeafDigest(v) # hashNode(a, b)
  BY DEF LeafDigest, hashNode
<1>2. \A v, w : LeafDigest(v) = LeafDigest(w) => v = w
  BY DEF LeafDigest
<1>3. ASSUME NEW a, NEW b, NEW c, NEW d, hashNode(a, b) = hashNode(c, d)
      PROVE  (a = c /\ b = d) \/ (a = d /\ b = c)
  <2>1. hashNode(a, b).node = {a, b} /\ hashNode(c, d).node = {c, d}
    BY DEF hashNode
  <2>2. a \in {c, d} /\ b \in {c, d} /\ c \in {a, b} /\ d \in {a, b}
    BY <1>3, <2>1
  <2> QED
    BY <2>2
<1> QED
  BY <1>1, <1>2, <1>3

LEMMA Halves ==
  \A m \in Nat : m >= 1 =>
    /\ (m + 1) \div 2 \in Nat /\ (m + 1) \div 2 >= 1
    /\ 2 * ((m + 1) \div 2) - 1 <= m /\ m <= 2 * ((m + 1) \div 2)
    /\ m > 1 => (m + 1) \div 2 <= m - 1
OBVIOUS

LevelBody(leaves, level, k) ==
  IF k = 0 THEN leaves
  ELSE LET below == level[k - 1] IN IF Len(below) > 1 THEN NextLevel(below) ELSE below

LEMMA LevelsExist ==
  ASSUME NEW leaves, NEW n \in Nat
  PROVE  \E level : level = [k \in 0..n |-> LevelBody(leaves, level, k)]
<1> DEFINE Body(level, k) == LevelBody(leaves, level, k)
           Q == {m \in Nat : \E g : g = [k \in 0..m |-> Body(g, k)]}
<1>0. \A f, g, k : (k # 0 => f[k - 1] = g[k - 1]) => Body(f, k) = Body(g, k)
  BY DEF LevelBody
<1> HIDE DEF Body
<1>1. 0 \in Q
  <2> DEFINE h == [k \in 0..0 |-> Body(<<>>, k)]
  <2>1. h = [k \in 0..0 |-> Body(h, k)]
    <3>1. \A k \in 0..0 : k = 0 /\ Body(<<>>, k) = Body(h, k)
      BY <1>0
    <3> QED
      BY <3>1
  <2> HIDE DEF h
  <2> QED
    BY <2>1
<1>2. ASSUME NEW m \in Q  PROVE m + 1 \in Q
  <2>1. PICK g : g = [k \in 0..m |-> Body(g, k)]
    OBVIOUS
  <2> DEFINE h == [k \in 0..(m + 1) |-> Body(g, k)]
  <2>2. ASSUME NEW k \in 0..(m + 1)  PROVE Body(g, k) = Body(h, k)
    <3>1. k # 0 => k - 1 \in 0..m /\ k - 1 \in 0..(m + 1)
      OBVIOUS
    <3>2. k # 0 => h[k - 1] = g[k - 1]
      BY <2>1, <3>1
    <3> QED
      BY <1>0, <3>2
  <2>3. h = [k \in 0..(m + 1) |-> Body(h, k)]
    <3>1. h = [k \in 0..(m + 1) |-> Body(g, k)]
      OBVIOUS
    <3> HIDE DEF h
    <3> QED
      BY <2>2, <3>1
  <2> HIDE DEF h
  <2>4. m \in Nat /\ m + 1 \in Nat
    OBVIOUS
  <2>5. \E e : e = [k \in 0..(m + 1) |-> Body(e, k)]
    BY <2>3
  <2> QED
    BY <2>4, <2>5
<1>3. Q = Nat
  <2> HIDE DEF Q
  <2>1. Q \in SUBSET Nat
    BY DEF Q
  <2> QED
    BY <1>1, <1>2, <2>1, NatBySets
<1> QED
  BY <1>3 DEF Body

\* The levels over n leaves: a node is hashed from the two below it, or is the odd one
\* at the end, as it was; and there are levels enough to reach one node.
TreeOver(leaves, n, level) ==
  /\ level[0] = leaves /\ Len(leaves) = n
  /\ \A k \in 0..n : /\ Len(level[k]) \in Nat /\ Len(level[k]) >= 1
                     /\ DOMAIN level[k] = 1..Len(level[k])
  /\ \A k \in 1..n :
       /\ Len(level[k]) = (Len(level[k - 1]) + 1) \div 2
       /\ \A p \in 1..Len(level[k]) :
            level[k][p] = IF 2 * p <= Len(level[k - 1]) THEN hashNode(level[k - 1][2 * p - 1], level[k - 1][2 * p])
                          ELSE level[k - 1][2 * p - 1]
  /\ Len(level[n]) = 1

LEMMA LevelsAreATree ==
  ASSUME NEW n \in Nat \ {0}, NEW leaves, DOMAIN leaves = 1..n
  PROVE  TreeOver(leaves, n, Levels(leaves))
<1> DEFINE L == Levels(leaves)
<1>0. Len(leaves) = n
  OBVIOUS
<1>1. L = [k \in 0..n |-> LevelBody(leaves, L, k)]
  <2>1. L = CHOOSE level : level = [k \in 0..n |-> LevelBody(leaves, level, k)]
    BY <1>0 DEF Levels, LevelBody
  <2>2. \E level : level = [k \in 0..n |-> LevelBody(leaves, level, k)]
    BY LevelsExist
  <2> HIDE DEF L
  <2> QED
    BY <2>1, <2>2
<1> HIDE DEF L
<1>2. L[0] = leaves
  BY <1>1 DEF LevelBody
<1>3. \A k \in 1..n : L[k] = IF Len(L[k - 1]) > 1 THEN NextLevel(L[k - 1]) ELSE L[k - 1]
  <2> TAKE k \in 1..n
  <2>1. k \in 0..n /\ k # 0
    OBVIOUS
  <2> QED
    BY <1>1, <2>1 DEF LevelBody
<1> DEFINE Sized(k) == /\ Len(L[k]) \in Nat /\ Len(L[k]) >= 1 /\ DOMAIN L[k] = 1..Len(L[k])
                       /\ Len(L[k]) = 1 \/ Len(L[k]) <= n - k
           Up(k) == /\ Len(L[k]) = (Len(L[k - 1]) + 1) \div 2
                    /\ \A p \in 1..Len(L[k]) :
                         L[k][p] = IF 2 * p <= Len(L[k - 1]) THEN hashNode(L[k - 1][2 * p - 1], L[k - 1][2 * p])
                                   ELSE L[k - 1][2 * p - 1]
           Q == {k \in Nat : k <= n => Sized(k) /\ (k # 0 => Up(k))}
<1>4. 0 \in Q
  BY <1>0, <1>2
<1>5. ASSUME NEW k \in Q  PROVE k + 1 \in Q
  <2> HIDE DEF Sized, Up
  <2> SUFFICES ASSUME k + 1 <= n  PROVE Sized(k + 1) /\ Up(k + 1)
    OBVIOUS
  <2>a. k \in Nat /\ k + 1 \in 1..n /\ (k + 1) - 1 = k /\ Sized(k)
    OBVIOUS
  <2>0. /\ k \in Nat /\ k + 1 \in 1..n /\ (k + 1) - 1 = k
        /\ Len(L[k]) \in Nat /\ Len(L[k]) >= 1 /\ DOMAIN L[k] = 1..Len(L[k])
        /\ Len(L[k]) = 1 \/ Len(L[k]) <= n - k
    BY <2>a DEF Sized
  <2>1. CASE Len(L[k]) > 1
    <3> DEFINE below == L[k]
               half == (Len(below) + 1) \div 2
    <3>1. L[k + 1] = [p \in 1..half |-> IF 2 * p \in DOMAIN below THEN hashNode(below[2 * p - 1], below[2 * p])
                                        ELSE below[2 * p - 1]]
      BY <1>3, <2>0, <2>1 DEF NextLevel
    <3>2. half \in Nat /\ half >= 1 /\ half <= Len(below) - 1
      <4>1. Len(below) \in Nat /\ Len(below) > 1 /\ Len(below) >= 1
        BY <2>0, <2>1
      <4> HIDE DEF below
      <4> QED
        BY <4>1, Halves
    <3>3. DOMAIN L[k + 1] = 1..half
      BY <3>1
    <3>4. Len(L[k + 1]) = half
      <4> HIDE DEF half, below
      <4> QED
        BY <3>2, <3>3
    <3>5. \A p \in 1..half : 2 * p \in DOMAIN below <=> 2 * p <= Len(below)
      BY <2>0
    <3>6. Up(k + 1)
      <4> HIDE DEF half
      <4>1. Len(L[k + 1]) = (Len(L[k]) + 1) \div 2
        BY <3>4 DEF half
      <4> QED
        BY <2>0, <3>1, <3>4, <3>5, <4>1 DEF Up
    <3>7. Sized(k + 1)
      <4>1. Len(L[k]) \in Nat /\ half <= n - (k + 1)
        <5>1. \A h, m \in Nat : \A j, i \in Nat : h <= m - 1 /\ m <= i - j => h <= i - (j + 1)
          OBVIOUS
        <5>2. Len(L[k]) <= n - k /\ n \in Nat
          <6>1. \A m \in Nat : m > 1 => m # 1
            OBVIOUS
          <6> QED
            BY <2>0, <2>1, <6>1
        <5> HIDE DEF half
        <5> QED
          BY <2>0, <3>2, <5>1, <5>2
      <4> HIDE DEF half
      <4> QED
        BY <3>2, <3>3, <3>4, <4>1 DEF Sized
    <3> QED
      BY <3>6, <3>7
  <2>2. CASE ~(Len(L[k]) > 1)
    <3>1. L[k + 1] = L[k]
      BY <1>3, <2>0, <2>2
    <3>2. Len(L[k]) = 1
      <4>1. \A m \in Nat : m >= 1 /\ ~(m > 1) => m = 1
        OBVIOUS
      <4> QED
        BY <2>0, <2>2, <4>1
    <3>3. Sized(k + 1)
      BY <2>0, <3>1, <3>2 DEF Sized
    <3>4. Up(k + 1)
      <4>1. \A p \in 1..1 : p = 1
        OBVIOUS
      <4>2. (1 + 1) \div 2 = 1 /\ ~(2 * 1 <= 1) /\ 2 * 1 - 1 = 1
        OBVIOUS
      <4> QED
        BY <2>0, <3>1, <3>2, <4>1, <4>2 DEF Up
    <3> QED
      BY <3>3, <3>4
  <2> QED
    BY <2>1, <2>2
<1>6. Q = Nat
  <2> HIDE DEF Q
  <2>1. Q \in SUBSET Nat
    BY DEF Q
  <2> QED
    BY <1>4, <1>5, <2>1, NatBySets
<1>7. \A k \in 0..n : Sized(k) /\ (k # 0 => Up(k))
  <2> HIDE DEF Sized, Up
  <2> QED
    BY <1>6
<1>8. Len(L[n]) = 1
  <2>1. Sized(n)
    <3>1. n \in 0..n
      OBVIOUS
    <3> HIDE DEF Sized, Up
    <3> QED
      BY <1>7, <3>1
  <2> QED
    BY <2>1
<1>9. /\ \A k \in 0..n : Len(L[k]) \in Nat /\ Len(L[k]) >= 1 /\ DOMAIN L[k] = 1..Len(L[k])
      /\ \A k \in 1..n : Up(k)
  <2>1. \A k \in 1..n : k \in 0..n /\ k # 0
    OBVIOUS
  <2> HIDE DEF Up
  <2> QED
    BY <1>7, <2>1
<1>10. TreeOver(leaves, n, L)
  BY <1>0, <1>2, <1>8, <1>9 DEF TreeOver
<1> QED
  BY <1>10 DEF L

\* Two levels and one step between them: where a node comes from.
LEMMA NodeOfTree ==
  ASSUME NEW n \in Nat, NEW leaves, NEW level, TreeOver(leaves, n, level),
         NEW k \in Nat, k + 1 <= n, NEW p \in 1..Len(level[k + 1])
  PROVE  /\ 2 * p - 1 \in 1..Len(level[k])
         /\ 2 * p <= Len(level[k]) =>
              2 * p \in 1..Len(level[k]) /\ level[k + 1][p] = hashNode(level[k][2 * p - 1], level[k][2 * p])
         /\ ~(2 * p <= Len(level[k])) => level[k + 1][p] = level[k][2 * p - 1] /\ 2 * p - 1 = Len(level[k])
<1>1. k \in 0..n /\ k + 1 \in 1..n /\ (k + 1) - 1 = k
  OBVIOUS
<1>2. Len(level[k]) \in Nat /\ Len(level[k]) >= 1 /\ Len(level[k + 1]) = (Len(level[k]) + 1) \div 2
  <2>1. Len(level[k + 1]) = (Len(level[(k + 1) - 1]) + 1) \div 2
    BY <1>1 DEF TreeOver
  <2>2. Len(level[k]) \in Nat /\ Len(level[k]) >= 1
    BY <1>1 DEF TreeOver
  <2> QED
    BY <1>1, <2>1, <2>2
<1>3. ASSUME NEW m \in Nat, NEW h \in Nat, m >= 1, h = (m + 1) \div 2, NEW q \in 1..h
      PROVE  2 * q - 1 \in 1..m /\ (~(2 * q <= m) => 2 * q - 1 = m) /\ (2 * q <= m => 2 * q \in 1..m)
  BY <1>3, Halves
<1>4. /\ 2 * p - 1 \in 1..Len(level[k]) /\ (~(2 * p <= Len(level[k])) => 2 * p - 1 = Len(level[k]))
      /\ 2 * p <= Len(level[k]) => 2 * p \in 1..Len(level[k])
  BY <1>2, <1>3, Halves
<1>5. level[k + 1][p] = IF 2 * p <= Len(level[(k + 1) - 1])
                        THEN hashNode(level[(k + 1) - 1][2 * p - 1], level[(k + 1) - 1][2 * p])
                        ELSE level[(k + 1) - 1][2 * p - 1]
  BY <1>1 DEF TreeOver
<1> QED
  BY <1>1, <1>4, <1>5

AreLeaves(leaves, n) == \A i \in 1..n : \E v : leaves[i] = LeafDigest(v)
InTree(level, n, d) == \E k \in 0..n : \E p \in 1..Len(level[k]) : level[k][p] = d

\* A leaf anywhere in the tree is one of those it was built from.
LEMMA LeavesOfTree ==
  ASSUME NEW n \in Nat, NEW leaves, NEW level, TreeOver(leaves, n, level), NEW v, InTree(level, n, LeafDigest(v))
  PROVE  \E i \in 1..n : leaves[i] = LeafDigest(v)
<1> DEFINE Holds(k) == \A p \in 1..Len(level[k]) : level[k][p] = LeafDigest(v) => \E i \in 1..n : leaves[i] = LeafDigest(v)
           Q == {k \in Nat : k <= n => Holds(k)}
<1>1. 0 \in Q
  BY DEF TreeOver
<1>2. ASSUME NEW k \in Q  PROVE k + 1 \in Q
  <2> SUFFICES ASSUME k + 1 <= n, NEW p \in 1..Len(level[k + 1]), level[k + 1][p] = LeafDigest(v)
               PROVE  \E i \in 1..n : leaves[i] = LeafDigest(v)
    OBVIOUS
  <2>1. Holds(k) /\ k \in Nat
    OBVIOUS
  <2>2. /\ 2 * p - 1 \in 1..Len(level[k])
        /\ 2 * p <= Len(level[k]) => level[k + 1][p] = hashNode(level[k][2 * p - 1], level[k][2 * p])
        /\ ~(2 * p <= Len(level[k])) => level[k + 1][p] = level[k][2 * p - 1]
    BY <2>1, NodeOfTree
  <2>3. level[k][2 * p - 1] = LeafDigest(v)
    BY <2>2, DigestsAreIdeal
  <2> QED
    BY <2>1, <2>2, <2>3
<1>3. Q = Nat
  <2> HIDE DEF Q
  <2>1. Q \in SUBSET Nat
    BY DEF Q
  <2> QED
    BY <1>1, <1>2, <2>1, NatBySets
<1>4. \A k \in 0..n : Holds(k)
  <2> HIDE DEF Holds
  <2> QED
    BY <1>3
<1> QED
  BY <1>4 DEF InTree

\* What a node of the tree was hashed from is in the tree.
LEMMA ChildrenOfTree ==
  ASSUME NEW n \in Nat, NEW leaves, NEW level, TreeOver(leaves, n, level), AreLeaves(leaves, n),
         NEW a, NEW b, InTree(level, n, hashNode(a, b))
  PROVE  InTree(level, n, a)
<1> DEFINE Holds(k) == \A p \in 1..Len(level[k]) : level[k][p] = hashNode(a, b) => InTree(level, n, a)
           Q == {k \in Nat : k <= n => Holds(k)}
<1>1. 0 \in Q
  <2>1. \A p \in 1..Len(level[0]) : level[0][p] # hashNode(a, b)
    BY DigestsAreIdeal DEF TreeOver, AreLeaves
  <2> QED
    BY <2>1
<1>2. ASSUME NEW k \in Q  PROVE k + 1 \in Q
  <2> SUFFICES ASSUME k + 1 <= n, NEW p \in 1..Len(level[k + 1]), level[k + 1][p] = hashNode(a, b)
               PROVE  InTree(level, n, a)
    OBVIOUS
  <2>1. Holds(k) /\ k \in 0..n /\ k \in Nat
    OBVIOUS
  <2>2. /\ 2 * p - 1 \in 1..Len(level[k])
        /\ 2 * p <= Len(level[k]) =>
             2 * p \in 1..Len(level[k]) /\ level[k + 1][p] = hashNode(level[k][2 * p - 1], level[k][2 * p])
        /\ ~(2 * p <= Len(level[k])) => level[k + 1][p] = level[k][2 * p - 1]
    BY <2>1, NodeOfTree
  <2>3. CASE 2 * p <= Len(level[k])
    <3>1. a = level[k][2 * p - 1] \/ a = level[k][2 * p]
      BY <2>2, <2>3, DigestsAreIdeal
    <3> QED
      BY <2>1, <2>2, <2>3, <3>1 DEF InTree
  <2>4. CASE ~(2 * p <= Len(level[k]))
    BY <2>1, <2>2, <2>4
  <2> QED
    BY <2>3, <2>4
<1>3. Q = Nat
  <2> HIDE DEF Q
  <2>1. Q \in SUBSET Nat
    BY DEF Q
  <2> QED
    BY <1>1, <1>2, <2>1, NatBySets
<1>4. \A k \in 0..n : Holds(k)
  <2> HIDE DEF Holds
  <2> QED
    BY <1>3
<1> QED
  BY <1>4 DEF InTree

\* The fold of a proof, one sibling after another.
HashBody(leaf, proof, fold, T) ==
  IF T = {} THEN leaf ELSE LET i == Max(T) IN hashNode(fold[T \ {i}], proof[i])

IsHashing(leaf, proof, fold) ==
  fold = [T \in SUBSET DOMAIN proof |-> HashBody(leaf, proof, fold, T)]

LEMMA HashingExists ==
  ASSUME NEW leaf, NEW proof, NEW n \in Nat, DOMAIN proof = 1..n
  PROVE  \E fold : IsHashing(leaf, proof, fold)
<1> DEFINE D == 1..n
           Body(fold, T) == HashBody(leaf, proof, fold, T)
           Q == {k \in Nat : \E g : g = [T \in UpTo(D, k) |-> Body(g, T)]}
<1>0. \A T \in SUBSET D : IsFiniteSet(T) /\ Cardinality(T) \in Nat /\ Cardinality(T) <= Cardinality(D)
  <2>1. IsFiniteSet(D)
    <3>1. 1 \in Int /\ n \in Int
      OBVIOUS
    <3>2. \A a, b \in Int : IsFiniteSet(a..b)
      BY FS_Interval
    <3> QED
      BY <3>1, <3>2
  <2> QED
    BY <2>1, FS_Subset, FS_CardinalityType
<1>a. Cardinality(D) \in Nat /\ IsFiniteSet(D)
  BY <1>0
<1>b. \A g, T : Body(g, T) = IF T = {} THEN leaf ELSE hashNode(g[T \ {Max(T)}], proof[Max(T)])
  BY DEF HashBody
<1> HIDE DEF Body
<1>1. 0 \in Q
  <2> DEFINE g == [T \in UpTo(D, 0) |-> leaf]
  <2>1. \A T \in UpTo(D, 0) : T = {}
    BY <1>0, FS_EmptySet DEF UpTo
  <2>2. g = [T \in UpTo(D, 0) |-> Body(g, T)]
    BY <1>b, <2>1
  <2> QED
    BY <2>2
<1>2. ASSUME NEW k \in Q  PROVE k + 1 \in Q
  <2>1. PICK g : g = [T \in UpTo(D, k) |-> Body(g, T)]
    OBVIOUS
  <2> DEFINE h == [T \in UpTo(D, k + 1) |-> Body(g, T)]
  <2>2. ASSUME NEW T \in UpTo(D, k + 1)  PROVE Body(g, T) = Body(h, T)
    <3>1. CASE T = {}
      BY <1>b, <3>1
    <3>2. CASE T # {}
      <4>1. PICK i : i = Max(T)
        OBVIOUS
      <4>2. i \in T /\ T \in SUBSET D
        BY <3>2, <4>1, Largest DEF UpTo
      <4>3. T \ {i} \in UpTo(D, k) /\ T \ {i} \in UpTo(D, k + 1)
        <5>1. Cardinality(T) = Cardinality(T \ {i}) + 1 /\ Cardinality(T \ {i}) \in Nat /\ Cardinality(T) <= k + 1
          BY <4>2, <1>0, SmallerByOne DEF UpTo
        <5> QED
          BY <4>2, <5>1 DEF UpTo
      <4>4. h[T \ {i}] = g[T \ {i}]
        BY <2>1, <4>3
      <4> QED
        BY <1>b, <3>2, <4>1, <4>4
    <3> QED
      BY <3>1, <3>2
  <2>3. h = [T \in UpTo(D, k + 1) |-> Body(h, T)]
    <3>1. h = [T \in UpTo(D, k + 1) |-> Body(g, T)]
      OBVIOUS
    <3> HIDE DEF h
    <3> QED
      BY <2>2, <3>1
  <2> HIDE DEF h
  <2>4. k \in Nat /\ k + 1 \in Nat
    OBVIOUS
  <2>5. \E e : e = [T \in UpTo(D, k + 1) |-> Body(e, T)]
    BY <2>3
  <2> QED
    BY <2>4, <2>5
<1>3. Q = Nat
  <2> HIDE DEF Q
  <2>1. Q \in SUBSET Nat
    BY DEF Q
  <2> QED
    BY <1>1, <1>2, <2>1, NatBySets
<1>4. UpTo(D, Cardinality(D)) = SUBSET D
  BY <1>0 DEF UpTo
<1>5. PICK g : g = [T \in UpTo(D, Cardinality(D)) |-> Body(g, T)]
  BY <1>3, <1>a
<1> QED
  BY <1>4, <1>5 DEF IsHashing, Body

\* The values a verifier computes on the way up.
Computes(leaf, proof, m, value) ==
  /\ value[0] = leaf
  /\ \A i \in 1..m : value[i] = hashNode(value[i - 1], proof[i])

LEMMA VerifiedInSteps ==
  ASSUME NEW leaf, NEW proof, NEW m \in Nat, DOMAIN proof = 1..m
  PROVE  \E value : Computes(leaf, proof, m, value) /\ \A root : VerifyProof(root, leaf, proof) <=> value[m] = root
<1> DEFINE fold == CHOOSE fold : IsHashing(leaf, proof, fold)
<1>1. IsHashing(leaf, proof, fold)
  BY HashingExists
<1>2. \A root : VerifyProof(root, leaf, proof) <=> fold[1..m] = root
  <2> TAKE root
  <2>1. VerifyProof(root, leaf, proof) <=> fold[DOMAIN proof] = root
    BY DEF VerifyProof, FoldLeft, MapThenFoldSet, IsHashing, HashBody
  <2> QED
    BY <2>1
<1> HIDE DEF fold
<1> DEFINE value == [i \in 0..m |-> fold[1..i]]
<1>3. value[0] = leaf
  <2>1. 1..0 = {} /\ {} \in SUBSET DOMAIN proof
    OBVIOUS
  <2>2. fold[{}] = leaf
    BY <1>1, <2>1 DEF IsHashing, HashBody
  <2> QED
    BY <2>1, <2>2
<1>4. ASSUME NEW i \in 1..m PROVE value[i] = hashNode(value[i - 1], proof[i])
  <2>1. i \in Nat /\ 1..i \in SUBSET (1..m) /\ i \in 1..i /\ (1..i) \ {i} = 1..(i - 1)
    OBVIOUS
  <2>2. Max(1..i) = i
    <3>1. Max(1..i) \in 1..i /\ i <= Max(1..i)
      BY <2>1, Largest
    <3> QED
      BY <2>1, <3>1
  <2>3. fold[1..i] = HashBody(leaf, proof, fold, 1..i)
    BY <1>1, <2>1 DEF IsHashing
  <2>4. HashBody(leaf, proof, fold, 1..i) = hashNode(fold[1..(i - 1)], proof[i])
    BY <2>1, <2>2 DEF HashBody
  <2>5. i \in 0..m /\ i - 1 \in 0..m
    OBVIOUS
  <2>6. value[i] = fold[1..i] /\ value[i - 1] = fold[1..(i - 1)]
    BY <2>5
  <2> HIDE DEF value
  <2> QED
    BY <2>3, <2>4, <2>6
<1>5. value[m] = fold[1..m]
  OBVIOUS
<1> HIDE DEF value
<1> QED
  BY <1>2, <1>3, <1>4, <1>5 DEF Computes

\* Whatever the proof, what it takes to the root is in the tree, every value on the way
\* up included: so a leaf that has a proof is one the tree was built from.
LEMMA OnlyLeavesHaveProofs ==
  ASSUME NEW n \in Nat, NEW leaves, NEW level, TreeOver(leaves, n, level), AreLeaves(leaves, n), NEW v,
         NEW m \in Nat, NEW proof, DOMAIN proof = 1..m, VerifyProof(level[n][1], LeafDigest(v), proof)
  PROVE  \E i \in 1..n : leaves[i] = LeafDigest(v)
<1>1. PICK value : Computes(LeafDigest(v), proof, m, value) /\ value[m] = level[n][1]
  BY VerifiedInSteps
<1> DEFINE Q == {j \in Nat : j <= m => InTree(level, n, value[m - j])}
<1>2. 0 \in Q
  <2>1. n \in 0..n /\ 1 \in 1..Len(level[n])
    BY DEF TreeOver
  <2>2. m - 0 = m
    OBVIOUS
  <2> QED
    BY <1>1, <2>1, <2>2 DEF InTree
<1>3. ASSUME NEW j \in Q  PROVE j + 1 \in Q
  <2> SUFFICES ASSUME j + 1 <= m  PROVE InTree(level, n, value[m - (j + 1)])
    OBVIOUS
  <2>1. m - j \in 1..m /\ (m - j) - 1 = m - (j + 1) /\ InTree(level, n, value[m - j])
    OBVIOUS
  <2>2. value[m - j] = hashNode(value[m - (j + 1)], proof[m - j])
    BY <1>1, <2>1 DEF Computes
  <2> QED
    BY <2>1, <2>2, ChildrenOfTree
<1>4. Q = Nat
  <2> HIDE DEF Q
  <2>1. Q \in SUBSET Nat
    BY DEF Q
  <2> QED
    BY <1>2, <1>3, <2>1, NatBySets
<1>5. InTree(level, n, value[0])
  <2>1. m \in Q
    <3> HIDE DEF Q
    <3> QED
      BY <1>4
  <2>2. m <= m /\ m - m = 0
    OBVIOUS
  <2> QED
    BY <2>1, <2>2
<1> QED
  BY <1>1, <1>5, LeavesOfTree DEF Computes

\* A verified proof goes one node further with that node's sibling.
LEMMA OneSiblingMore ==
  ASSUME NEW S, NEW path \in Seq(S), NEW d, NEW leaf, VerifyProof(d, leaf, path), NEW x \in S
  PROVE  path \o <<x>> \in Seq(S) /\ VerifyProof(hashNode(d, x), leaf, path \o <<x>>)
<1> DEFINE m == Len(path)
           more == path \o <<x>>
<1>1. m \in Nat /\ DOMAIN path = 1..m
  OBVIOUS
<1>2. more \in Seq(S) /\ Len(more) = m + 1 /\ DOMAIN more = 1..(m + 1) /\ more[m + 1] = x /\ \A i \in 1..m : more[i] = path[i]
  OBVIOUS
<1> HIDE DEF m, more
<1>3. PICK value : Computes(leaf, path, m, value) /\ \A root : VerifyProof(root, leaf, path) <=> value[m] = root
  BY <1>1, VerifiedInSteps
<1>4. PICK other : Computes(leaf, more, m + 1, other) /\ \A root : VerifyProof(root, leaf, more) <=> other[m + 1] = root
  <2>1. m + 1 \in Nat
    BY <1>1
  <2> QED
    BY <1>2, <2>1, VerifiedInSteps
<1> DEFINE Q == {i \in Nat : i <= m => other[i] = value[i]}
<1>5. 0 \in Q
  BY <1>3, <1>4 DEF Computes
<1>6. ASSUME NEW i \in Q  PROVE i + 1 \in Q
  <2> SUFFICES ASSUME i + 1 <= m  PROVE other[i + 1] = value[i + 1]
    OBVIOUS
  <2>1. i + 1 \in 1..m /\ i + 1 \in 1..(m + 1) /\ (i + 1) - 1 = i /\ other[i] = value[i]
    BY <1>1
  <2>2. other[i + 1] = hashNode(other[i], more[i + 1]) /\ value[i + 1] = hashNode(value[i], path[i + 1])
    BY <1>3, <1>4, <2>1 DEF Computes
  <2> QED
    BY <1>2, <2>1, <2>2
<1>7. Q = Nat
  <2> HIDE DEF Q
  <2>1. Q \in SUBSET Nat
    BY DEF Q
  <2> QED
    BY <1>5, <1>6, <2>1, NatBySets
<1>8. other[m] = value[m] /\ value[m] = d
  <2>1. m \in Q
    BY <1>1, <1>7
  <2> QED
    BY <1>1, <1>3, <2>1
<1>9. other[m + 1] = hashNode(other[m], more[m + 1])
  <2>1. m + 1 \in 1..(m + 1) /\ (m + 1) - 1 = m
    BY <1>1
  <2> QED
    BY <1>4, <2>1 DEF Computes
<1>10. VerifyProof(hashNode(d, x), leaf, more)
  BY <1>2, <1>4, <1>8, <1>9
<1> QED
  BY <1>2, <1>10 DEF more

LEMMA NoSiblings ==
  ASSUME NEW leaf
  PROVE  VerifyProof(leaf, leaf, <<>>)
<1>1. DOMAIN <<>> = 1..0 /\ 0 \in Nat
  OBVIOUS
<1>2. PICK value : Computes(leaf, <<>>, 0, value) /\ \A root : VerifyProof(root, leaf, <<>>) <=> value[0] = root
  BY <1>1, VerifiedInSteps
<1> QED
  BY <1>2 DEF Computes

\* The climb from the leaf at i: where it stands on a level, and the siblings so far.
ClimbBody(levels, i, up, k) ==
  IF k = 0 THEN [at |-> i, path |-> <<>>]
  ELSE LET below == up[k - 1] IN
       [at |-> (below.at + 1) \div 2, path |-> below.path \o Sibling(levels[k - 1], below.at)]

IsClimb(levels, i, n, up) == up = [k \in 0..n |-> ClimbBody(levels, i, up, k)]

LEMMA ClimbsExist ==
  ASSUME NEW levels, NEW i, NEW n \in Nat
  PROVE  \E up : IsClimb(levels, i, n, up)
<1> DEFINE Body(up, k) == ClimbBody(levels, i, up, k)
           Q == {m \in Nat : \E g : g = [k \in 0..m |-> Body(g, k)]}
<1>0. \A f, g, k : (k # 0 => f[k - 1] = g[k - 1]) => Body(f, k) = Body(g, k)
  BY DEF ClimbBody
<1> HIDE DEF Body
<1>1. 0 \in Q
  <2> DEFINE h == [k \in 0..0 |-> Body(<<>>, k)]
  <2>1. h = [k \in 0..0 |-> Body(h, k)]
    <3>1. \A k \in 0..0 : k = 0 /\ Body(<<>>, k) = Body(h, k)
      BY <1>0
    <3> QED
      BY <3>1
  <2> HIDE DEF h
  <2> QED
    BY <2>1
<1>2. ASSUME NEW m \in Q  PROVE m + 1 \in Q
  <2>1. PICK g : g = [k \in 0..m |-> Body(g, k)]
    OBVIOUS
  <2> DEFINE h == [k \in 0..(m + 1) |-> Body(g, k)]
  <2>2. ASSUME NEW k \in 0..(m + 1)  PROVE Body(g, k) = Body(h, k)
    <3>1. k # 0 => k - 1 \in 0..m /\ k - 1 \in 0..(m + 1)
      OBVIOUS
    <3>2. k # 0 => h[k - 1] = g[k - 1]
      BY <2>1, <3>1
    <3> QED
      BY <1>0, <3>2
  <2>3. h = [k \in 0..(m + 1) |-> Body(h, k)]
    <3>1. h = [k \in 0..(m + 1) |-> Body(g, k)]
      OBVIOUS
    <3> HIDE DEF h
    <3> QED
      BY <2>2, <3>1
  <2> HIDE DEF h
  <2>4. m \in Nat /\ m + 1 \in Nat
    OBVIOUS
  <2>5. \E e : e = [k \in 0..(m + 1) |-> Body(e, k)]
    BY <2>3
  <2> QED
    BY <2>4, <2>5
<1>3. Q = Nat
  <2> HIDE DEF Q
  <2>1. Q \in SUBSET Nat
    BY DEF Q
  <2> QED
    BY <1>1, <1>2, <2>1, NatBySets
<1> QED
  BY <1>3 DEF Body, IsClimb

LEMMA HashingCommutes ==
  \A a, b : hashNode(a, b) = hashNode(b, a)
<1>1. \A a, b : {a, b} = {b, a}
  OBVIOUS
<1> QED
  BY <1>1 DEF hashNode

\* One level of the climb: from a node that is verified, with its sibling, to the node above.
LEMMA OneLevelUp ==
  ASSUME NEW n \in Nat, NEW leaves, NEW level, TreeOver(leaves, n, level), NEW k \in Nat, k + 1 <= n,
         NEW at \in 1..Len(level[k]), NEW S, \A p \in 1..Len(level[k]) : level[k][p] \in S,
         NEW path \in Seq(S), NEW leaf, VerifyProof(level[k][at], leaf, path)
  PROVE  /\ (at + 1) \div 2 \in 1..Len(level[k + 1])
         /\ path \o Sibling(level[k], at) \in Seq(S)
         /\ VerifyProof(level[k + 1][(at + 1) \div 2], leaf, path \o Sibling(level[k], at))
<1> DEFINE size == Len(level[k])
           above == (at + 1) \div 2
<1>1. /\ size \in Nat /\ DOMAIN level[k] = 1..size /\ size >= 1
      /\ Len(level[k + 1]) = (size + 1) \div 2
  <2>1. k \in 0..n /\ k + 1 \in 1..n /\ (k + 1) - 1 = k
    OBVIOUS
  <2>2. Len(level[k + 1]) = (Len(level[(k + 1) - 1]) + 1) \div 2
    BY <2>1 DEF TreeOver
  <2>3. size \in Nat /\ DOMAIN level[k] = 1..size /\ size >= 1
    BY <2>1 DEF TreeOver
  <2> QED
    BY <2>1, <2>2, <2>3
<1>2. \A m \in Nat : \A q \in 1..m : (q + 1) \div 2 \in 1..((m + 1) \div 2)
  OBVIOUS
<1>3. above \in 1..Len(level[k + 1])
  BY <1>1, <1>2
<1>4. /\ 2 * above - 1 \in 1..size
      /\ 2 * above <= size =>
           2 * above \in 1..size /\ level[k + 1][above] = hashNode(level[k][2 * above - 1], level[k][2 * above])
      /\ ~(2 * above <= size) => level[k + 1][above] = level[k][2 * above - 1] /\ 2 * above - 1 = size
  <2> HIDE DEF above
  <2> QED
    BY <1>3, NodeOfTree
<1>5. /\ at % 2 = 1 => at = 2 * above - 1 /\ at + 1 = 2 * above
      /\ at % 2 # 1 => at = 2 * above /\ at - 1 = 2 * above - 1
  <2>1. \A m \in Nat : /\ m % 2 = 1 => m = 2 * ((m + 1) \div 2) - 1 /\ m + 1 = 2 * ((m + 1) \div 2)
                       /\ m % 2 # 1 => m = 2 * ((m + 1) \div 2) /\ m - 1 = 2 * ((m + 1) \div 2) - 1
    OBVIOUS
  <2>2. at \in Nat
    BY <1>1
  <2> QED
    BY <2>1, <2>2
<1> DEFINE sibling == IF at % 2 = 1 THEN at + 1 ELSE at - 1
<1>6. Sibling(level[k], at) = IF sibling \in 1..size THEN <<level[k][sibling]>> ELSE <<>>
  BY <1>1 DEF Sibling
<1>7. path \o <<>> = path
  OBVIOUS
<1> HIDE DEF above, size
<1>8. CASE 2 * above <= size
  <2>1. sibling \in 1..size /\ level[k + 1][above] = hashNode(level[k][at], level[k][sibling])
    <3>1. CASE at % 2 = 1
      BY <1>4, <1>5, <1>8, <3>1
    <3>2. CASE at % 2 # 1
      BY <1>4, <1>5, <1>8, <3>2, HashingCommutes
    <3> QED
      BY <3>1, <3>2
  <2> HIDE DEF sibling
  <2>2. level[k][sibling] \in S
    BY <2>1 DEF size
  <2>3. Sibling(level[k], at) = <<level[k][sibling]>>
    BY <1>6, <2>1
  <2>4. /\ path \o <<level[k][sibling]>> \in Seq(S)
        /\ VerifyProof(hashNode(level[k][at], level[k][sibling]), leaf, path \o <<level[k][sibling]>>)
    BY <2>2, OneSiblingMore
  <2> QED
    BY <1>3, <2>1, <2>3, <2>4 DEF above
<1>9. CASE ~(2 * above <= size)
  <2>1. at % 2 = 1
    <3>1. at <= size /\ at \in Nat /\ size \in Nat
      BY <1>1 DEF size
    <3> QED
      BY <1>5, <1>9, <3>1
  <2>2. ~(sibling \in 1..size) /\ level[k + 1][above] = level[k][at]
    BY <1>1, <1>4, <1>5, <1>9, <2>1
  <2> HIDE DEF sibling
  <2>3. Sibling(level[k], at) = <<>>
    BY <1>6, <2>2
  <2> QED
    BY <1>3, <1>7, <2>2, <2>3 DEF above
<1> QED
  BY <1>8, <1>9

\* The siblings of every leaf verify it against the root.
LEMMA EveryLeafHasAProof ==
  ASSUME NEW n \in Nat \ {0}, NEW leaves, DOMAIN leaves = 1..n, NEW i \in 1..n
  PROVE  VerifyProof(Levels(leaves)[n][1], leaves[i], Siblings(leaves, i))
<1> DEFINE level == Levels(leaves)
           S == {level[k][p] : k \in 0..n, p \in Nat}
<1>0. Len(leaves) = n /\ n \in Nat
  OBVIOUS
<1>1. TreeOver(leaves, n, level)
  BY LevelsAreATree
<1>2. PICK up : IsClimb(level, i, n, up) /\ Siblings(leaves, i) = up[n].path
  <2>1. \E up : IsClimb(level, i, n, up)
    <3> HIDE DEF level
    <3> QED
      BY <1>0, ClimbsExist
  <2> DEFINE climb == CHOOSE up : IsClimb(level, i, n, up)
  <2>2. Siblings(leaves, i) = climb[n].path
    BY <1>0 DEF Siblings, IsClimb, ClimbBody
  <2>3. IsClimb(level, i, n, climb)
    <3> HIDE DEF level
    <3> QED
      BY <2>1
  <2> HIDE DEF climb, level
  <2> QED
    BY <2>2, <2>3
<1>3. \A k \in 0..n : \A p \in 1..Len(level[k]) : level[k][p] \in S
  <2> HIDE DEF level
  <2>1. \A k \in 0..n : Len(level[k]) \in Nat
    BY <1>1 DEF TreeOver
  <2> QED
    BY <2>1
<1> HIDE DEF level, S
<1> DEFINE VerifiedUpTo(k) == /\ up[k].at \in 1..Len(level[k]) /\ up[k].path \in Seq(S)
                          /\ VerifyProof(level[k][up[k].at], leaves[i], up[k].path)
           Q == {k \in Nat : k <= n => VerifiedUpTo(k)}
<1>4. 0 \in Q
  <2>1. up[0] = [at |-> i, path |-> <<>>]
    BY <1>0, <1>2 DEF IsClimb, ClimbBody
  <2>2. level[0] = leaves /\ Len(level[0]) = n
    BY <1>1 DEF TreeOver
  <2>3. <<>> \in Seq(S)
    OBVIOUS
  <2>4. up[0].at = i /\ up[0].path = <<>> /\ level[0][i] = leaves[i]
    BY <2>1, <2>2
  <2>5. VerifyProof(leaves[i], leaves[i], <<>>)
    BY NoSiblings
  <2> QED
    BY <2>2, <2>3, <2>4, <2>5
<1>5. ASSUME NEW k \in Q  PROVE k + 1 \in Q
  <2> SUFFICES ASSUME k + 1 <= n  PROVE VerifiedUpTo(k + 1)
    OBVIOUS
  <2>1. k \in Nat /\ k \in 0..n /\ VerifiedUpTo(k)
    BY <1>0
  <2>2. up[k + 1] = [at |-> (up[k].at + 1) \div 2, path |-> up[k].path \o Sibling(level[k], up[k].at)]
    <3>1. k + 1 \in 0..n /\ k + 1 # 0 /\ (k + 1) - 1 = k
      BY <1>0, <2>1
    <3> HIDE DEF VerifiedUpTo, Q
    <3> QED
      BY <1>2, <3>1 DEF IsClimb, ClimbBody
  <2>3. \A p \in 1..Len(level[k]) : level[k][p] \in S
    BY <1>3, <2>1
  <2>4. /\ (up[k].at + 1) \div 2 \in 1..Len(level[k + 1])
        /\ up[k].path \o Sibling(level[k], up[k].at) \in Seq(S)
        /\ VerifyProof(level[k + 1][(up[k].at + 1) \div 2], leaves[i], up[k].path \o Sibling(level[k], up[k].at))
    <3>1. up[k].at \in 1..Len(level[k]) /\ up[k].path \in Seq(S) /\ VerifyProof(level[k][up[k].at], leaves[i], up[k].path)
      BY <2>1
    <3> HIDE DEF VerifiedUpTo, Q
    <3> QED
      BY <1>0, <1>1, <2>1, <2>3, <3>1, OneLevelUp
  <2> QED
    BY <2>2, <2>4
<1>6. Q = Nat
  <2> HIDE DEF Q
  <2>1. Q \in SUBSET Nat
    BY DEF Q
  <2> QED
    BY <1>4, <1>5, <2>1, NatBySets
<1>7. VerifiedUpTo(n)
  <2> HIDE DEF VerifiedUpTo
  <2> QED
    BY <1>0, <1>6
<1>8. up[n].at = 1
  <2>1. Len(level[n]) = 1 /\ up[n].at \in 1..Len(level[n])
    BY <1>1, <1>7 DEF TreeOver
  <2> QED
    BY <2>1
<1> QED
  BY <1>2, <1>7, <1>8 DEF level

-----------------------------------------------------------------------------
(* The order of the leaves: how many sort before a number, and what stands where. *)

Below(rows, v) == Cardinality({j \in DOMAIN rows : rows[j] < v})
DigestsOf(rows) == [i \in DOMAIN rows |-> LeafDigest(rows[i])]

LEMMA CountedAmong ==
  ASSUME NEW n \in Nat, NEW T \in SUBSET (1..n)
  PROVE  IsFiniteSet(T) /\ Cardinality(T) \in Nat /\ Cardinality(T) <= n
<1>1. IsFiniteSet(1..n) /\ Cardinality(1..n) = n
  <2>1. \A a, b \in Int : IsFiniteSet(a..b) /\ Cardinality(a..b) = IF a > b THEN 0 ELSE b - a + 1
    BY FS_Interval
  <2>2. 1 \in Int /\ n \in Int
    OBVIOUS
  <2>3. IsFiniteSet(1..n) /\ Cardinality(1..n) = IF 1 > n THEN 0 ELSE n - 1 + 1
    BY <2>1, <2>2
  <2> QED
    BY <2>3
<1> QED
  BY <1>1, FS_Subset, FS_CardinalityType

LEMMA BelowCounts ==
  ASSUME NEW n \in Nat, NEW rows, DOMAIN rows = 1..n, \A i \in 1..n : rows[i] \in Nat
  PROVE  /\ \A v \in Nat : /\ Below(rows, v) \in Nat /\ Below(rows, v) <= n /\ Copies(rows, v) \in Nat
                           /\ Below(rows, v + 1) = Below(rows, v) + Copies(rows, v)
         /\ \A v, w \in Nat : v <= w => Below(rows, v) <= Below(rows, w)
         /\ Below(rows, 0) = 0
<1> DEFINE S(v) == {j \in 1..n : rows[j] < v}
           C(v) == {j \in 1..n : rows[j] = v}
<1>1. \A v \in Nat : /\ IsFiniteSet(S(v)) /\ Cardinality(S(v)) \in Nat /\ Cardinality(S(v)) <= n
                     /\ IsFiniteSet(C(v)) /\ Cardinality(C(v)) \in Nat
  <2> TAKE v \in Nat
  <2>1. S(v) \in SUBSET (1..n) /\ C(v) \in SUBSET (1..n)
    OBVIOUS
  <2> HIDE DEF S, C
  <2> QED
    BY <2>1, CountedAmong
<1>2. \A v : Below(rows, v) = Cardinality(S(v)) /\ Copies(rows, v) = Cardinality(C(v))
  BY DEF Below, Copies
<1>3. \A v \in Nat : S(v + 1) = S(v) \cup C(v) /\ S(v) \cap C(v) = {}
  OBVIOUS
<1>4. \A v, w \in Nat : v <= w => S(v) \subseteq S(w)
  OBVIOUS
<1>5. S(0) = {}
  OBVIOUS
<1> HIDE DEF S, C
<1>6. ASSUME NEW v \in Nat PROVE Cardinality(S(v + 1)) = Cardinality(S(v)) + Cardinality(C(v))
  <2>1. Cardinality(S(v) \cup C(v)) = Cardinality(S(v)) + Cardinality(C(v)) - Cardinality(S(v) \cap C(v))
    BY <1>1, FS_Union
  <2>2. Cardinality(S(v) \cap C(v)) = 0
    BY <1>3, FS_EmptySet
  <2>3. Cardinality(S(v + 1)) = Cardinality(S(v) \cup C(v))
    BY <1>3
  <2>4. \A a, b \in Nat : a + b - 0 = a + b
    OBVIOUS
  <2>5. Cardinality(S(v)) \in Nat /\ Cardinality(C(v)) \in Nat
    BY <1>1
  <2> QED
    BY <2>1, <2>2, <2>3, <2>4, <2>5
<1>7. \A v, w \in Nat : v <= w => Cardinality(S(v)) <= Cardinality(S(w))
  BY <1>1, <1>4, FS_Subset
<1>8. Cardinality(S(0)) = 0
  BY <1>5, FS_EmptySet
<1> QED
  BY <1>1, <1>2, <1>6, <1>7, <1>8

\* Every row is a number, so there is one above them all.
LEMMA AllAreBelow ==
  ASSUME NEW n \in Nat, NEW rows, DOMAIN rows = 1..n, \A i \in 1..n : rows[i] \in Nat
  PROVE  \E top \in Nat : Below(rows, top) = n
<1> DEFINE Q == {m \in Nat : m <= n => \E top \in Nat : \A i \in 1..m : rows[i] < top}
<1>1. 0 \in Q
  <2>1. 0 \in Nat /\ 1..0 = {}
    OBVIOUS
  <2> QED
    BY <2>1
<1>2. ASSUME NEW m \in Q  PROVE m + 1 \in Q
  <2> SUFFICES ASSUME m + 1 <= n  PROVE \E top \in Nat : \A i \in 1..(m + 1) : rows[i] < top
    OBVIOUS
  <2>0. m \in Nat /\ m <= n /\ m + 1 \in 1..n
    OBVIOUS
  <2>1. PICK top \in Nat : \A i \in 1..m : rows[i] < top
    BY <2>0
  <2>2. PICK r \in Nat : r = rows[m + 1]
    BY <2>0
  <2> DEFINE higher == IF r < top THEN top ELSE r + 1
  <2>3. higher \in Nat /\ top <= higher /\ r < higher
    OBVIOUS
  <2>4. ASSUME NEW i \in 1..(m + 1) PROVE rows[i] < higher
    <3>1. CASE i = m + 1
      BY <2>2, <2>3, <3>1
    <3>2. CASE i # m + 1
      <4>1. i \in 1..m /\ i \in 1..n
        BY <2>0, <3>2
      <4>2. rows[i] < top /\ rows[i] \in Nat
        BY <2>1, <4>1
      <4> HIDE DEF higher
      <4> QED
        BY <2>3, <4>2
    <3> QED
      BY <3>1, <3>2
  <2> HIDE DEF higher
  <2> QED
    BY <2>3, <2>4
<1>3. Q = Nat
  <2> HIDE DEF Q
  <2>1. Q \in SUBSET Nat
    BY DEF Q
  <2> QED
    BY <1>1, <1>2, <2>1, NatBySets
<1>4. PICK top \in Nat : \A i \in 1..n : rows[i] < top
  <2>1. n \in Q
    <3> HIDE DEF Q
    <3> QED
      BY <1>3
  <2> QED
    BY <2>1
<1>5. {j \in DOMAIN rows : rows[j] < top} = 1..n
  BY <1>4
<1>6. Cardinality(1..n) = n
  <2>1. \A a, b \in Int : Cardinality(a..b) = IF a > b THEN 0 ELSE b - a + 1
    BY FS_Interval
  <2>2. 1 \in Int /\ n \in Int
    OBVIOUS
  <2>3. Cardinality(1..n) = IF 1 > n THEN 0 ELSE n - 1 + 1
    BY <2>1, <2>2
  <2> QED
    BY <2>3
<1> QED
  BY <1>5, <1>6 DEF Below

StandsAt(rows, i, v) == Below(rows, v) < i /\ i <= Below(rows, v + 1)

\* One number stands at each place.
LEMMA OneStands ==
  ASSUME NEW n \in Nat, NEW rows, DOMAIN rows = 1..n, \A i \in 1..n : rows[i] \in Nat,
         NEW i \in Nat, NEW v \in Nat, NEW w \in Nat, StandsAt(rows, i, v), StandsAt(rows, i, w)
  PROVE  v = w
<1>1. \A a, b \in Nat : a < b => ~(StandsAt(rows, i, a) /\ StandsAt(rows, i, b))
  <2> SUFFICES ASSUME NEW a \in Nat, NEW b \in Nat, a < b, StandsAt(rows, i, a), StandsAt(rows, i, b) PROVE FALSE
    OBVIOUS
  <2>1. a + 1 \in Nat /\ a + 1 <= b
    OBVIOUS
  <2>2. Below(rows, a + 1) <= Below(rows, b) /\ Below(rows, a + 1) \in Nat /\ Below(rows, b) \in Nat
    BY <2>1, BelowCounts
  <2> QED
    BY <2>2 DEF StandsAt
<1>2. v < w \/ w < v \/ v = w
  OBVIOUS
<1> QED
  BY <1>1, <1>2

LEMMA SomeStands ==
  ASSUME NEW n \in Nat, NEW rows, DOMAIN rows = 1..n, \A i \in 1..n : rows[i] \in Nat, NEW i \in 1..n
  PROVE  \E j \in 1..n : StandsAt(rows, i, rows[j])
<1> DEFINE Reached == {v \in Nat : i <= Below(rows, v)}
<1>1. PICK top \in Nat : top \in Reached
  BY AllAreBelow
<1>2. \E v \in Reached : \A u \in Reached : ~(<<u, v>> \in OpToRel(<, Nat))
  BY <1>1, NatLessThanWellFounded, WFMin
<1>3. PICK v \in Reached : \A u \in Reached : ~(u < v)
  BY <1>2 DEF OpToRel
<1>4. v # 0
  <2>1. Below(rows, 0) = 0
    BY BelowCounts
  <2> QED
    BY <2>1
<1>5. PICK u \in Nat : v = u + 1
  <2>1. v - 1 \in Nat /\ v = (v - 1) + 1
    BY <1>4
  <2> QED
    BY <2>1
<1>6. Below(rows, u) \in Nat /\ Copies(rows, u) \in Nat /\ Below(rows, u + 1) = Below(rows, u) + Copies(rows, u)
  BY BelowCounts
<1>7. Below(rows, u) < i
  <2>1. ~(u \in Reached)
    BY <1>3, <1>5
  <2> QED
    BY <1>6, <2>1
<1>8. i <= Below(rows, u + 1)
  BY <1>5
<1>9. Copies(rows, u) # 0
  BY <1>6, <1>7, <1>8
<1>10. \E j \in 1..n : rows[j] = u
  <2> SUFFICES ASSUME ~(\E j \in 1..n : rows[j] = u) PROVE FALSE
    OBVIOUS
  <2>1. {j \in DOMAIN rows : rows[j] = u} = {}
    OBVIOUS
  <2> QED
    BY <1>9, <2>1, FS_EmptySet DEF Copies
<1> QED
  BY <1>7, <1>8, <1>10 DEF StandsAt

\* What Sorted puts at a place is what stands there.
LEMMA SortedStands ==
  ASSUME NEW n \in Nat, NEW rows, DOMAIN rows = 1..n, \A i \in 1..n : rows[i] \in Nat
  PROVE  /\ DOMAIN Sorted(DigestsOf(rows)) = 1..n
         /\ \A i \in 1..n : \E v \in Nat : Sorted(DigestsOf(rows))[i] = LeafDigest(v) /\ StandsAt(rows, i, v)
                                           /\ \E j \in 1..n : rows[j] = v
         /\ Sorted(DigestsOf(rows)) = [i \in 1..n |-> Sorted(DigestsOf(rows))[i]]
<1> DEFINE digests == DigestsOf(rows)
           before(d) == {j \in DOMAIN digests : digests[j].leaf < d.leaf}
           upTo(d) == {j \in DOMAIN digests : digests[j].leaf <= d.leaf}
           Fits(i, d) == Cardinality(before(d)) < i /\ i <= Cardinality(upTo(d))
<1>1. DOMAIN digests = 1..n /\ \A j \in 1..n : digests[j] = LeafDigest(rows[j]) /\ digests[j].leaf = rows[j]
  BY DEF DigestsOf, LeafDigest
<1>2. Sorted(digests) = [i \in 1..n |-> CHOOSE d \in Range(digests) : Fits(i, d)]
  BY <1>1 DEF Sorted
<1>3. \A d : d \in Range(digests) <=> \E j \in 1..n : d = LeafDigest(rows[j])
  BY <1>1 DEF Range
<1>4. \A v \in Nat : \A i \in 1..n : Fits(i, LeafDigest(v)) <=> StandsAt(rows, i, v)
  <2> TAKE v \in Nat
  <2>1. before(LeafDigest(v)) = {j \in DOMAIN rows : rows[j] < v}
    BY <1>1 DEF LeafDigest
  <2>2. upTo(LeafDigest(v)) = {j \in DOMAIN rows : rows[j] < v + 1}
    <3>1. \A j \in 1..n : rows[j] <= v <=> rows[j] < v + 1
      OBVIOUS
    <3>2. LeafDigest(v).leaf = v
      BY DEF LeafDigest
    <3> QED
      BY <1>1, <3>1, <3>2
  <2> HIDE DEF before, upTo
  <2> QED
    BY <2>1, <2>2 DEF StandsAt, Below
<1> HIDE DEF digests, Fits
<1>5. ASSUME NEW i \in 1..n
      PROVE  \E v \in Nat : Sorted(digests)[i] = LeafDigest(v) /\ StandsAt(rows, i, v) /\ \E j \in 1..n : rows[j] = v
  <2>1. PICK j \in 1..n : StandsAt(rows, i, rows[j])
    BY SomeStands
  <2>2. LeafDigest(rows[j]) \in Range(digests) /\ Fits(i, LeafDigest(rows[j]))
    BY <1>3, <1>4, <2>1
  <2>3. Sorted(digests)[i] = CHOOSE d \in Range(digests) : Fits(i, d)
    BY <1>2
  <2>4. Sorted(digests)[i] \in Range(digests) /\ Fits(i, Sorted(digests)[i])
    BY <2>2, <2>3
  <2>5. PICK k \in 1..n : Sorted(digests)[i] = LeafDigest(rows[k])
    BY <1>3, <2>4
  <2> QED
    BY <1>4, <2>4, <2>5
<1>6. DOMAIN Sorted(digests) = 1..n /\ Sorted(digests) = [i \in 1..n |-> Sorted(digests)[i]]
  BY <1>2
<1> QED
  BY <1>5, <1>6 DEF digests

\* The copies of a digest among the sorted leaves are those among the rows.
LEMMA SortedKeepsCopies ==
  ASSUME NEW n \in Nat, NEW rows, DOMAIN rows = 1..n, \A i \in 1..n : rows[i] \in Nat, NEW v \in Nat
  PROVE  Copies(Sorted(DigestsOf(rows)), LeafDigest(v)) = Copies(rows, v)
<1> DEFINE sorted == Sorted(DigestsOf(rows))
           low == Below(rows, v)
           high == Below(rows, v + 1)
<1>1. /\ DOMAIN sorted = 1..n
      /\ \A i \in 1..n : \E w \in Nat : sorted[i] = LeafDigest(w) /\ StandsAt(rows, i, w)
  BY SortedStands
<1>2. /\ low \in Nat /\ Copies(rows, v) \in Nat /\ high = low + Copies(rows, v) /\ high <= n /\ high \in Nat
  <2>1. v + 1 \in Nat
    OBVIOUS
  <2> QED
    BY <2>1, BelowCounts
<1>3. \A i \in 1..n : sorted[i] = LeafDigest(v) <=> StandsAt(rows, i, v)
  <2> TAKE i \in 1..n
  <2>1. PICK w \in Nat : sorted[i] = LeafDigest(w) /\ StandsAt(rows, i, w)
    BY <1>1
  <2>2. i \in Nat
    OBVIOUS
  <2> HIDE DEF sorted
  <2>3. sorted[i] = LeafDigest(v) => v = w
    BY <2>1, DigestsAreIdeal
  <2>4. StandsAt(rows, i, v) => v = w
    BY <2>1, <2>2, OneStands
  <2> QED
    BY <2>1, <2>3, <2>4
<1> HIDE DEF sorted, low, high
<1>4. \A i \in 1..n : StandsAt(rows, i, v) <=> low < i /\ i <= high
  BY DEF StandsAt, low, high
<1>5. {i \in DOMAIN sorted : sorted[i] = LeafDigest(v)} = (low + 1)..high
  <2>1. \A i : i \in (low + 1)..high <=> i \in 1..n /\ low < i /\ i <= high
    BY <1>2
  <2>2. {i \in DOMAIN sorted : sorted[i] = LeafDigest(v)} = {i \in 1..n : low < i /\ i <= high}
    BY <1>1, <1>3, <1>4
  <2> QED
    BY <2>1, <2>2
<1>6. Cardinality((low + 1)..high) = Copies(rows, v)
  <2>1. \A a, b \in Int : Cardinality(a..b) = IF a > b THEN 0 ELSE b - a + 1
    BY FS_Interval
  <2>2. low + 1 \in Int /\ high \in Int
    BY <1>2
  <2>3. Cardinality((low + 1)..high) = IF low + 1 > high THEN 0 ELSE high - (low + 1) + 1
    BY <2>1, <2>2
  <2> QED
    BY <1>2, <2>3
<1> QED
  BY <1>5, <1>6 DEF Copies, sorted

\* Rows with the same copies of every number are the same leaves once sorted, whatever
\* the order they came in.
LEMMA SameCopiesSortTheSame ==
  ASSUME NEW n \in Nat, NEW m \in Nat, NEW rows, NEW others, DOMAIN rows = 1..n, DOMAIN others = 1..m,
         \A i \in 1..n : rows[i] \in Nat, \A i \in 1..m : others[i] \in Nat,
         \A v \in Nat : Copies(rows, v) = Copies(others, v)
  PROVE  n = m /\ Sorted(DigestsOf(rows)) = Sorted(DigestsOf(others))
<1> DEFINE Q == {v \in Nat : Below(rows, v) = Below(others, v)}
<1>a. \A v \in Nat : /\ Below(rows, v) \in Nat /\ Copies(rows, v) \in Nat /\ Below(rows, v) <= n
                     /\ Below(rows, v + 1) = Below(rows, v) + Copies(rows, v)
  BY BelowCounts
<1>b. \A v \in Nat : /\ Below(others, v) \in Nat /\ Copies(others, v) \in Nat /\ Below(others, v) <= m
                     /\ Below(others, v + 1) = Below(others, v) + Copies(others, v)
  BY BelowCounts
<1>1. 0 \in Q
  <2>1. Below(rows, 0) = 0 /\ Below(others, 0) = 0
    BY BelowCounts
  <2> QED
    BY <2>1
<1>2. ASSUME NEW v \in Q  PROVE v + 1 \in Q
  BY <1>a, <1>b
<1>3. Q = Nat
  <2> HIDE DEF Q
  <2>1. Q \in SUBSET Nat
    BY DEF Q
  <2> QED
    BY <1>1, <1>2, <2>1, NatBySets
<1>4. \A v \in Nat : Below(rows, v) = Below(others, v)
  BY <1>3
<1>5. n = m
  <2>1. PICK top \in Nat : Below(rows, top) = n
    BY AllAreBelow
  <2>2. PICK peak \in Nat : Below(others, peak) = m
    BY AllAreBelow
  <2>3. n <= m
    BY <1>4, <1>b, <2>1
  <2>4. m <= n
    BY <1>4, <1>a, <2>2
  <2> QED
    BY <2>3, <2>4
<1>6. \A i, v : v \in Nat => (StandsAt(rows, i, v) <=> StandsAt(others, i, v))
  <2>1. \A v \in Nat : v + 1 \in Nat
    OBVIOUS
  <2> QED
    BY <1>4, <2>1 DEF StandsAt
<1>7. \A i \in 1..n : Sorted(DigestsOf(rows))[i] = Sorted(DigestsOf(others))[i]
  <2> TAKE i \in 1..n
  <2>0. i \in Nat /\ i \in 1..m
    BY <1>5
  <2>1. PICK v \in Nat : Sorted(DigestsOf(rows))[i] = LeafDigest(v) /\ StandsAt(rows, i, v)
    BY SortedStands
  <2>2. PICK w \in Nat : Sorted(DigestsOf(others))[i] = LeafDigest(w) /\ StandsAt(others, i, w)
    BY <2>0, SortedStands
  <2>3. StandsAt(rows, i, w)
    BY <1>6, <2>2
  <2>4. v = w
    BY <2>0, <2>1, <2>3, OneStands
  <2> QED
    BY <2>1, <2>2, <2>4
<1>8. /\ Sorted(DigestsOf(rows)) = [i \in 1..n |-> Sorted(DigestsOf(rows))[i]]
      /\ Sorted(DigestsOf(others)) = [i \in 1..m |-> Sorted(DigestsOf(others))[i]]
  BY SortedStands
<1> QED
  BY <1>5, <1>7, <1>8

-----------------------------------------------------------------------------
(* The root commits to the leaves: how many copies of one there are below a node   *)
(* can be read off its digest.                                                     *)

NextCount(level, count, k) ==
  [i \in 0..Len(level[k]) |->
     count[k - 1][IF 2 * i <= Len(level[k - 1]) THEN 2 * i ELSE Len(level[k - 1])]]

\* count[k][i]: the copies of d below the first i nodes of level k.
Counted(leaves, n, level, d, count) ==
  /\ count[0] = [i \in 0..n |-> Cardinality({j \in 1..i : leaves[j] = d})]
  /\ \A k \in 1..n : count[k] = NextCount(level, count, k)

LEMMA CountsExist ==
  ASSUME NEW n \in Nat, NEW leaves, NEW level, NEW d
  PROVE  \E count : Counted(leaves, n, level, d, count)
<1> DEFINE first == [i \in 0..n |-> Cardinality({j \in 1..i : leaves[j] = d})]
           Body(count, k) == IF k = 0 THEN first ELSE NextCount(level, count, k)
           Q == {m \in Nat : \E g : g = [k \in 0..m |-> Body(g, k)]}
<1>0. \A f, g, k : (k # 0 => f[k - 1] = g[k - 1]) => Body(f, k) = Body(g, k)
  BY DEF NextCount
<1>a. \A g, k : Body(g, k) = IF k = 0 THEN first ELSE NextCount(level, g, k)
  OBVIOUS
<1> HIDE DEF Body, first
<1>1. 0 \in Q
  <2> DEFINE h == [k \in 0..0 |-> Body(<<>>, k)]
  <2>1. h = [k \in 0..0 |-> Body(h, k)]
    <3>1. \A k \in 0..0 : k = 0 /\ Body(<<>>, k) = Body(h, k)
      BY <1>0
    <3> QED
      BY <3>1
  <2> HIDE DEF h
  <2> QED
    BY <2>1
<1>2. ASSUME NEW m \in Q  PROVE m + 1 \in Q
  <2>1. PICK g : g = [k \in 0..m |-> Body(g, k)]
    OBVIOUS
  <2> DEFINE h == [k \in 0..(m + 1) |-> Body(g, k)]
  <2>2. ASSUME NEW k \in 0..(m + 1)  PROVE Body(g, k) = Body(h, k)
    <3>1. k # 0 => k - 1 \in 0..m /\ k - 1 \in 0..(m + 1)
      OBVIOUS
    <3>2. k # 0 => h[k - 1] = g[k - 1]
      BY <2>1, <3>1
    <3> QED
      BY <1>0, <3>2
  <2>3. h = [k \in 0..(m + 1) |-> Body(h, k)]
    <3>1. h = [k \in 0..(m + 1) |-> Body(g, k)]
      OBVIOUS
    <3> HIDE DEF h
    <3> QED
      BY <2>2, <3>1
  <2> HIDE DEF h
  <2>4. m \in Nat /\ m + 1 \in Nat
    OBVIOUS
  <2>5. \E e : e = [k \in 0..(m + 1) |-> Body(e, k)]
    BY <2>3
  <2> QED
    BY <2>4, <2>5
<1>3. Q = Nat
  <2> HIDE DEF Q
  <2>1. Q \in SUBSET Nat
    BY DEF Q
  <2> QED
    BY <1>1, <1>2, <2>1, NatBySets
<1>4. PICK count : count = [k \in 0..n |-> Body(count, k)]
  BY <1>3
<1>5. count[0] = first
  BY <1>4, <1>a
<1>6. \A k \in 1..n : count[k] = NextCount(level, count, k)
  <2> TAKE k \in 1..n
  <2>1. k \in 0..n /\ k # 0
    OBVIOUS
  <2>2. count[k] = Body(count, k)
    BY <1>4, <2>1
  <2> QED
    BY <1>a, <2>1, <2>2
<1> QED
  BY <1>5, <1>6 DEF Counted, first

CopiesUnder(count, k, p) == count[k][p] - count[k][p - 1]

\* The counts are whole numbers, nothing below no node and all the copies below a level.
LEMMA CountsOfLevels ==
  ASSUME NEW n \in Nat, NEW leaves, NEW level, TreeOver(leaves, n, level), DOMAIN leaves = 1..n,
         NEW d, NEW count, Counted(leaves, n, level, d, count)
  PROVE  \A k \in 0..n : /\ \A i \in 0..Len(level[k]) : count[k][i] \in Nat
                         /\ count[k][0] = 0
                         /\ count[k][Len(level[k])] = Copies(leaves, d)
<1> DEFINE Holds(k) == /\ \A i \in 0..Len(level[k]) : count[k][i] \in Nat
                       /\ count[k][0] = 0
                       /\ count[k][Len(level[k])] = Copies(leaves, d)
           Q == {k \in Nat : k <= n => Holds(k)}
<1>1. 0 \in Q
  <2>1. count[0] = [i \in 0..n |-> Cardinality({j \in 1..i : leaves[j] = d})] /\ level[0] = leaves /\ Len(level[0]) = n
    BY DEF Counted, TreeOver
  <2>2. \A i \in 0..n : Cardinality({j \in 1..i : leaves[j] = d}) \in Nat
    <3> TAKE i \in 0..n
    <3>1. i \in Nat /\ {j \in 1..i : leaves[j] = d} \in SUBSET (1..i)
      OBVIOUS
    <3> QED
      BY <3>1, CountedAmong
  <2>3. {j \in 1..0 : leaves[j] = d} = {}
    OBVIOUS
  <2>4. 0 \in 0..n /\ n \in 0..n
    OBVIOUS
  <2>5. Copies(leaves, d) = Cardinality({j \in 1..n : leaves[j] = d})
    BY DEF Copies
  <2>6. count[0][0] = 0
    BY <2>1, <2>3, <2>4, FS_EmptySet
  <2>7. count[0][n] = Copies(leaves, d)
    BY <2>1, <2>4, <2>5
  <2> QED
    BY <2>1, <2>2, <2>6, <2>7
<1>2. ASSUME NEW k \in Q  PROVE k + 1 \in Q
  <2> SUFFICES ASSUME k + 1 <= n  PROVE Holds(k + 1)
    OBVIOUS
  <2>1. k \in Nat /\ k \in 0..n /\ k + 1 \in 1..n /\ (k + 1) - 1 = k /\ Holds(k)
    OBVIOUS
  <2>2. PICK m \in Nat : m = Len(level[k]) /\ m >= 1
    BY <2>1 DEF TreeOver
  <2>3. PICK h \in Nat : h = Len(level[k + 1]) /\ h = (m + 1) \div 2 /\ h >= 1
    <3>1. Len(level[k + 1]) = (Len(level[(k + 1) - 1]) + 1) \div 2
      BY <2>1 DEF TreeOver
    <3>2. Len(level[k + 1]) = (m + 1) \div 2
      BY <2>1, <2>2, <3>1
    <3> QED
      BY <2>2, <3>2, Halves
  <2>4. count[k + 1] = [i \in 0..h |-> count[k][IF 2 * i <= m THEN 2 * i ELSE m]]
    <3>1. count[k + 1] = NextCount(level, count, k + 1)
      BY <2>1 DEF Counted
    <3> QED
      BY <2>1, <2>2, <2>3, <3>1 DEF NextCount
  <2>5. (\A i \in 0..m : count[k][i] \in Nat) /\ count[k][0] = 0 /\ count[k][m] = Copies(leaves, d)
    BY <2>1, <2>2
  <2> HIDE DEF Holds, Q
  <2>6. \A i \in 0..h : (IF 2 * i <= m THEN 2 * i ELSE m) \in 0..m
    OBVIOUS
  <2>7. \A i \in 0..h : count[k + 1][i] \in Nat
    BY <2>4, <2>5, <2>6
  <2>8. count[k + 1][0] = 0
    <3>1. 0 \in 0..h /\ 2 * 0 = 0 /\ 0 <= m
      OBVIOUS
    <3> QED
      BY <2>4, <2>5, <3>1
  <2>9. count[k + 1][h] = Copies(leaves, d)
    <3>1. h \in 0..h /\ (IF 2 * h <= m THEN 2 * h ELSE m) = m
      <4>1. m <= 2 * h
        BY <2>2, <2>3, Halves
      <4>2. 2 * h <= m => 2 * h = m
        BY <4>1
      <4> QED
        BY <4>2
    <3> QED
      BY <2>4, <2>5, <3>1
  <2> QED
    BY <2>3, <2>7, <2>8, <2>9 DEF Holds
<1>3. Q = Nat
  <2> HIDE DEF Q
  <2>1. Q \in SUBSET Nat
    BY DEF Q
  <2> QED
    BY <1>1, <1>2, <2>1, NatBySets
<1>4. \A k \in 0..n : Holds(k)
  <2> HIDE DEF Holds
  <2> QED
    BY <1>3
<1> QED
  BY <1>4

LEMMA CopiesUnderLeaf ==
  ASSUME NEW n \in Nat, NEW leaves, NEW level, NEW d, NEW count, Counted(leaves, n, level, d, count), NEW i \in 1..n
  PROVE  CopiesUnder(count, 0, i) = IF leaves[i] = d THEN 1 ELSE 0
<1> DEFINE S(p) == {j \in 1..p : leaves[j] = d}
<1>1. count[0][i] = Cardinality(S(i)) /\ count[0][i - 1] = Cardinality(S(i - 1))
  <2>1. i \in 0..n /\ i - 1 \in 0..n
    OBVIOUS
  <2> QED
    BY <2>1 DEF Counted
<1>2. IsFiniteSet(S(i - 1)) /\ Cardinality(S(i - 1)) \in Nat
  <2>1. i - 1 \in Nat /\ S(i - 1) \in SUBSET (1..(i - 1))
    OBVIOUS
  <2> HIDE DEF S
  <2> QED
    BY <2>1, CountedAmong
<1>3. ~(i \in S(i - 1)) /\ S(i) = IF leaves[i] = d THEN S(i - 1) \cup {i} ELSE S(i - 1)
  OBVIOUS
<1> HIDE DEF S
<1>4. Cardinality(S(i - 1) \cup {i}) = Cardinality(S(i - 1)) + 1
  BY <1>2, <1>3, FS_AddElement
<1>5. \A a \in Nat : (a + 1) - a = 1 /\ a - a = 0
  OBVIOUS
<1>6. CASE leaves[i] = d
  <2>1. count[0][i] = Cardinality(S(i - 1)) + 1
    BY <1>1, <1>3, <1>4, <1>6
  <2> QED
    BY <1>1, <1>2, <1>5, <1>6, <2>1 DEF CopiesUnder
<1>7. CASE leaves[i] # d
  <2>1. count[0][i] = Cardinality(S(i - 1))
    BY <1>1, <1>3, <1>7
  <2> QED
    BY <1>1, <1>2, <1>5, <1>7, <2>1 DEF CopiesUnder
<1> QED
  BY <1>6, <1>7

LEMMA CopiesUnderNode ==
  ASSUME NEW n \in Nat, NEW leaves, NEW level, TreeOver(leaves, n, level), DOMAIN leaves = 1..n,
         NEW d, NEW count, Counted(leaves, n, level, d, count),
         NEW k \in Nat, k + 1 <= n, NEW p \in 1..Len(level[k + 1])
  PROVE  CopiesUnder(count, k + 1, p) = IF 2 * p <= Len(level[k])
                                   THEN CopiesUnder(count, k, 2 * p - 1) + CopiesUnder(count, k, 2 * p)
                                   ELSE CopiesUnder(count, k, 2 * p - 1)
<1>0. k \in 0..n /\ k + 1 \in 1..n /\ k + 1 \in 0..n /\ (k + 1) - 1 = k
  OBVIOUS
<1>1. PICK m \in Nat : m = Len(level[k])
  BY <1>0 DEF TreeOver
<1>2. PICK h \in Nat : h = Len(level[k + 1])
  BY <1>0 DEF TreeOver
<1>3. /\ 2 * p - 1 \in 1..m
      /\ 2 * p <= m => 2 * p \in 1..m
      /\ ~(2 * p <= m) => 2 * p - 1 = m
  BY <1>1, NodeOfTree
<1>4. count[k + 1] = [i \in 0..h |-> count[k][IF 2 * i <= m THEN 2 * i ELSE m]]
  <2>1. count[k + 1] = NextCount(level, count, k + 1)
    BY <1>0 DEF Counted
  <2> QED
    BY <1>0, <1>1, <1>2, <2>1 DEF NextCount
<1>5. p \in 1..h /\ p \in Nat
  BY <1>2
<1>6. count[k + 1][p - 1] = count[k][2 * p - 2]
  <2>1. p - 1 \in 0..h /\ 2 * (p - 1) = 2 * p - 2 /\ 2 * (p - 1) <= m
    BY <1>3, <1>5
  <2> QED
    BY <1>4, <2>1
<1>7. count[k + 1][p] = count[k][IF 2 * p <= m THEN 2 * p ELSE m]
  <2>1. p \in 0..h
    BY <1>5
  <2> QED
    BY <1>4, <2>1
<1>8. \A i \in 0..m : count[k][i] \in Nat
  BY <1>0, <1>1, CountsOfLevels
<1>9. (2 * p - 1) - 1 = 2 * p - 2 /\ 2 * p - 2 \in 0..m /\ 2 * p - 1 \in 0..m /\ (2 * p <= m => 2 * p \in 0..m)
  BY <1>3, <1>5
<1>10. CASE 2 * p <= m
  <2>1. count[k][2 * p] \in Nat /\ count[k][2 * p - 1] \in Nat /\ count[k][2 * p - 2] \in Nat
    BY <1>8, <1>9, <1>10
  <2>2. \A a, b, c \in Nat : a - c = (b - c) + (a - b)
    OBVIOUS
  <2>3. count[k][2 * p] - count[k][2 * p - 2]
          = (count[k][2 * p - 1] - count[k][2 * p - 2]) + (count[k][2 * p] - count[k][2 * p - 1])
    BY <2>1, <2>2
  <2>4. count[k + 1][p] = count[k][2 * p]
    BY <1>7, <1>10
  <2> QED
    BY <1>1, <1>6, <1>9, <1>10, <2>3, <2>4 DEF CopiesUnder
<1>11. CASE ~(2 * p <= m)
  <2>1. count[k + 1][p] = count[k][2 * p - 1]
    BY <1>3, <1>7, <1>11
  <2> QED
    BY <1>1, <1>6, <1>9, <1>11, <2>1 DEF CopiesUnder
<1> QED
  BY <1>10, <1>11

\* Two nodes with the same digest have the same copies below them, whatever their trees.
LEMMA SameDigestSameCopies ==
  ASSUME NEW n \in Nat, NEW leaves, NEW level, TreeOver(leaves, n, level), DOMAIN leaves = 1..n, AreLeaves(leaves, n),
         NEW m \in Nat, NEW rest, NEW other, TreeOver(rest, m, other), DOMAIN rest = 1..m, AreLeaves(rest, m),
         NEW d, NEW count, Counted(leaves, n, level, d, count), NEW tally, Counted(rest, m, other, d, tally)
  PROVE  \A k \in 0..n, j \in 0..m : \A p \in 1..Len(level[k]), q \in 1..Len(other[j]) :
           level[k][p] = other[j][q] => CopiesUnder(count, k, p) = CopiesUnder(tally, j, q)
<1> DEFINE Same(k, j) == \A p \in 1..Len(level[k]), q \in 1..Len(other[j]) :
                           level[k][p] = other[j][q] => CopiesUnder(count, k, p) = CopiesUnder(tally, j, q)
           Q == {s \in Nat : \A k \in 0..n, j \in 0..m : k + j <= s => Same(k, j)}
<1>1. Same(0, 0)
  <2> SUFFICES ASSUME NEW p \in 1..Len(level[0]), NEW q \in 1..Len(other[0]), level[0][p] = other[0][q]
               PROVE  CopiesUnder(count, 0, p) = CopiesUnder(tally, 0, q)
    OBVIOUS
  <2>1. level[0] = leaves /\ other[0] = rest /\ p \in 1..n /\ q \in 1..m
    BY DEF TreeOver
  <2>2. CopiesUnder(count, 0, p) = IF leaves[p] = d THEN 1 ELSE 0
    BY <2>1, CopiesUnderLeaf
  <2>3. CopiesUnder(tally, 0, q) = IF rest[q] = d THEN 1 ELSE 0
    BY <2>1, CopiesUnderLeaf
  <2> QED
    BY <2>1, <2>2, <2>3
<1>2. 0 \in Q
  <2>1. \A k \in 0..n, j \in 0..m : k + j <= 0 => k = 0 /\ j = 0
    OBVIOUS
  <2> HIDE DEF Same
  <2> QED
    BY <1>1, <2>1
<1>3. ASSUME NEW s \in Q, NEW k \in 0..n, NEW j \in 0..m, k + j <= s + 1  PROVE Same(k, j)
  <2> SUFFICES ASSUME NEW p \in 1..Len(level[k]), NEW q \in 1..Len(other[j]), level[k][p] = other[j][q]
               PROVE  CopiesUnder(count, k, p) = CopiesUnder(tally, j, q)
    OBVIOUS
  <2>0. s \in Nat /\ k \in Nat /\ j \in Nat
    OBVIOUS
  <2>a. \A a \in 0..n, b \in 0..m : a + b <= s => Same(a, b)
    OBVIOUS
  \* A node above the leaves, on either side: hashed from two below it, or promoted.
  <2>1. ASSUME k # 0
        PROVE  \E a \in 0..n : /\ a + 1 = k /\ 2 * p - 1 \in 1..Len(level[a])
                               /\ \/ /\ 2 * p \in 1..Len(level[a])
                                     /\ level[k][p] = hashNode(level[a][2 * p - 1], level[a][2 * p])
                                     /\ CopiesUnder(count, k, p) = CopiesUnder(count, a, 2 * p - 1) + CopiesUnder(count, a, 2 * p)
                                  \/ /\ level[k][p] = level[a][2 * p - 1]
                                     /\ CopiesUnder(count, k, p) = CopiesUnder(count, a, 2 * p - 1)
    <3>1. PICK a \in Nat : a + 1 = k
      <4>1. k - 1 \in Nat /\ (k - 1) + 1 = k
        BY <2>0, <2>1
      <4> QED
        BY <4>1
    <3>2. a \in 0..n /\ a + 1 <= n /\ p \in 1..Len(level[a + 1])
      BY <3>1
    <3>3. /\ 2 * p - 1 \in 1..Len(level[a])
          /\ 2 * p <= Len(level[a]) =>
               2 * p \in 1..Len(level[a]) /\ level[a + 1][p] = hashNode(level[a][2 * p - 1], level[a][2 * p])
          /\ ~(2 * p <= Len(level[a])) => level[a + 1][p] = level[a][2 * p - 1] /\ 2 * p - 1 = Len(level[a])
      BY <3>1, <3>2, NodeOfTree
    <3>4. CopiesUnder(count, a + 1, p) = IF 2 * p <= Len(level[a])
                                    THEN CopiesUnder(count, a, 2 * p - 1) + CopiesUnder(count, a, 2 * p)
                                    ELSE CopiesUnder(count, a, 2 * p - 1)
      BY <3>1, <3>2, CopiesUnderNode
    <3> QED
      BY <3>1, <3>2, <3>3, <3>4
  <2>2. ASSUME j # 0
        PROVE  \E b \in 0..m : /\ b + 1 = j /\ 2 * q - 1 \in 1..Len(other[b])
                               /\ \/ /\ 2 * q \in 1..Len(other[b])
                                     /\ other[j][q] = hashNode(other[b][2 * q - 1], other[b][2 * q])
                                     /\ CopiesUnder(tally, j, q) = CopiesUnder(tally, b, 2 * q - 1) + CopiesUnder(tally, b, 2 * q)
                                  \/ /\ other[j][q] = other[b][2 * q - 1]
                                     /\ CopiesUnder(tally, j, q) = CopiesUnder(tally, b, 2 * q - 1)
    <3>1. PICK b \in Nat : b + 1 = j
      <4>1. j - 1 \in Nat /\ (j - 1) + 1 = j
        BY <2>0, <2>2
      <4> QED
        BY <4>1
    <3>2. b \in 0..m /\ b + 1 <= m /\ q \in 1..Len(other[b + 1])
      BY <3>1
    <3>3. /\ 2 * q - 1 \in 1..Len(other[b])
          /\ 2 * q <= Len(other[b]) =>
               2 * q \in 1..Len(other[b]) /\ other[b + 1][q] = hashNode(other[b][2 * q - 1], other[b][2 * q])
          /\ ~(2 * q <= Len(other[b])) => other[b + 1][q] = other[b][2 * q - 1] /\ 2 * q - 1 = Len(other[b])
      BY <3>1, <3>2, NodeOfTree
    <3>4. CopiesUnder(tally, b + 1, q) = IF 2 * q <= Len(other[b])
                                    THEN CopiesUnder(tally, b, 2 * q - 1) + CopiesUnder(tally, b, 2 * q)
                                    ELSE CopiesUnder(tally, b, 2 * q - 1)
      BY <3>1, <3>2, CopiesUnderNode
    <3> QED
      BY <3>1, <3>2, <3>3, <3>4
  <2>l. /\ k = 0 => \E v : level[k][p] = LeafDigest(v)
        /\ j = 0 => \E v : other[j][q] = LeafDigest(v)
    BY DEF TreeOver, AreLeaves
  <2>3. CASE k = 0 /\ j = 0
    BY <1>1, <2>3
  <2>4. CASE k # 0 /\ \E a \in 0..n : /\ a + 1 = k /\ 2 * p - 1 \in 1..Len(level[a])
                                     /\ level[k][p] = level[a][2 * p - 1] /\ CopiesUnder(count, k, p) = CopiesUnder(count, a, 2 * p - 1)
    <3>1. PICK a \in 0..n : /\ a + 1 = k /\ 2 * p - 1 \in 1..Len(level[a])
                            /\ level[k][p] = level[a][2 * p - 1] /\ CopiesUnder(count, k, p) = CopiesUnder(count, a, 2 * p - 1)
      BY <2>4
    <3>2. a + j <= s
      BY <1>3, <2>0, <3>1
    <3>3. Same(a, j)
      BY <2>a, <3>2
    <3>4. level[a][2 * p - 1] = other[j][q]
      BY <3>1
    <3>5. CopiesUnder(count, a, 2 * p - 1) = CopiesUnder(tally, j, q)
      BY <3>1, <3>3, <3>4
    <3> QED
      BY <3>1, <3>5
  <2>5. CASE j # 0 /\ \E b \in 0..m : /\ b + 1 = j /\ 2 * q - 1 \in 1..Len(other[b])
                                     /\ other[j][q] = other[b][2 * q - 1] /\ CopiesUnder(tally, j, q) = CopiesUnder(tally, b, 2 * q - 1)
    <3>1. PICK b \in 0..m : /\ b + 1 = j /\ 2 * q - 1 \in 1..Len(other[b])
                            /\ other[j][q] = other[b][2 * q - 1] /\ CopiesUnder(tally, j, q) = CopiesUnder(tally, b, 2 * q - 1)
      BY <2>5
    <3>2. k + b <= s
      BY <1>3, <2>0, <3>1
    <3>3. Same(k, b)
      BY <2>a, <3>2
    <3>4. level[k][p] = other[b][2 * q - 1]
      BY <3>1
    <3>5. CopiesUnder(count, k, p) = CopiesUnder(tally, b, 2 * q - 1)
      BY <3>1, <3>3, <3>4
    <3> QED
      BY <3>1, <3>5
  <2>6. CASE /\ k # 0 /\ \E a \in 0..n :
                           /\ a + 1 = k /\ 2 * p - 1 \in 1..Len(level[a]) /\ 2 * p \in 1..Len(level[a])
                           /\ level[k][p] = hashNode(level[a][2 * p - 1], level[a][2 * p])
                           /\ CopiesUnder(count, k, p) = CopiesUnder(count, a, 2 * p - 1) + CopiesUnder(count, a, 2 * p)
             /\ j # 0 /\ \E b \in 0..m :
                           /\ b + 1 = j /\ 2 * q - 1 \in 1..Len(other[b]) /\ 2 * q \in 1..Len(other[b])
                           /\ other[j][q] = hashNode(other[b][2 * q - 1], other[b][2 * q])
                           /\ CopiesUnder(tally, j, q) = CopiesUnder(tally, b, 2 * q - 1) + CopiesUnder(tally, b, 2 * q)
    <3>1. PICK a \in 0..n :
             /\ a + 1 = k /\ 2 * p - 1 \in 1..Len(level[a]) /\ 2 * p \in 1..Len(level[a])
             /\ level[k][p] = hashNode(level[a][2 * p - 1], level[a][2 * p])
             /\ CopiesUnder(count, k, p) = CopiesUnder(count, a, 2 * p - 1) + CopiesUnder(count, a, 2 * p)
      BY <2>6
    <3>2. PICK b \in 0..m :
             /\ b + 1 = j /\ 2 * q - 1 \in 1..Len(other[b]) /\ 2 * q \in 1..Len(other[b])
             /\ other[j][q] = hashNode(other[b][2 * q - 1], other[b][2 * q])
             /\ CopiesUnder(tally, j, q) = CopiesUnder(tally, b, 2 * q - 1) + CopiesUnder(tally, b, 2 * q)
      BY <2>6
    <3>3. Same(a, b)
      <4>1. a + b <= s
        BY <1>3, <2>0, <3>1, <3>2
      <4> QED
        BY <2>a, <4>1
    <3>4. \/ level[a][2 * p - 1] = other[b][2 * q - 1] /\ level[a][2 * p] = other[b][2 * q]
          \/ level[a][2 * p - 1] = other[b][2 * q] /\ level[a][2 * p] = other[b][2 * q - 1]
      <4>1. hashNode(level[a][2 * p - 1], level[a][2 * p]) = hashNode(other[b][2 * q - 1], other[b][2 * q])
        BY <3>1, <3>2
      <4> QED
        BY <4>1, DigestsAreIdeal
    <3>5. \/ /\ CopiesUnder(count, a, 2 * p - 1) = CopiesUnder(tally, b, 2 * q - 1)
             /\ CopiesUnder(count, a, 2 * p) = CopiesUnder(tally, b, 2 * q)
          \/ /\ CopiesUnder(count, a, 2 * p - 1) = CopiesUnder(tally, b, 2 * q)
             /\ CopiesUnder(count, a, 2 * p) = CopiesUnder(tally, b, 2 * q - 1)
      BY <3>1, <3>2, <3>3, <3>4
    <3>6. CopiesUnder(tally, b, 2 * q - 1) \in Int /\ CopiesUnder(tally, b, 2 * q) \in Int
      <4>1. \A i \in 0..Len(other[b]) : tally[b][i] \in Nat
        BY CountsOfLevels
      <4>2. Len(other[b]) \in Nat
        BY DEF TreeOver
      <4>3. 2 * q \in 0..Len(other[b]) /\ 2 * q - 1 \in 0..Len(other[b]) /\ (2 * q - 1) - 1 \in 0..Len(other[b])
        <5>1. \A x, y \in Nat : 2 * x \in 1..y => 2 * x \in 0..y /\ 2 * x - 1 \in 0..y /\ (2 * x - 1) - 1 \in 0..y
          OBVIOUS
        <5>2. q \in Nat
          <6>1. Len(other[j]) \in Nat
            BY DEF TreeOver
          <6> QED
            BY <6>1
        <5> HIDE DEF Same, Q
        <5> QED
          BY <3>2, <4>2, <5>1, <5>2
      <4>4. tally[b][2 * q] \in Nat /\ tally[b][2 * q - 1] \in Nat /\ tally[b][(2 * q - 1) - 1] \in Nat
        <5>1. \A x, y, z \in 0..Len(other[b]) : tally[b][x] \in Nat /\ tally[b][y] \in Nat /\ tally[b][z] \in Nat
          BY <4>1
        <5> QED
          BY <4>3, <5>1
      <4>5. \A x, y \in Nat : x - y \in Int
        OBVIOUS
      <4> QED
        BY <4>4, <4>5 DEF CopiesUnder
    <3>7. \A x, y \in Int : x + y = y + x
      OBVIOUS
    <3> QED
      BY <3>1, <3>2, <3>5, <3>6, <3>7
  <2> HIDE DEF Same, Q
  <2> QED
    BY <2>1, <2>2, <2>3, <2>4, <2>5, <2>6, <2>l, DigestsAreIdeal
<1>4. \A s \in Q : s + 1 \in Q
  <2> TAKE s \in Q
  <2>1. s + 1 \in Nat
    OBVIOUS
  <2> HIDE DEF Same
  <2> QED
    BY <1>3, <2>1
<1>5. Q = Nat
  <2> HIDE DEF Q
  <2>1. Q \in SUBSET Nat
    BY DEF Q
  <2> QED
    BY <1>2, <1>4, <2>1, NatBySets
<1>6. \A k \in 0..n, j \in 0..m : Same(k, j)
  <2> TAKE k \in 0..n, j \in 0..m
  <2>1. k + j \in Nat /\ k + j <= k + j
    OBVIOUS
  <2>2. k + j \in Q
    <3> HIDE DEF Q
    <3> QED
      BY <1>5, <2>1
  <2> HIDE DEF Same
  <2> QED
    BY <2>1, <2>2
<1> QED
  BY <1>6

\* What a tree over the rows of a settlement is.
LEMMA TreeOfRows ==
  ASSUME NEW n \in Nat \ {0}, NEW rows, DOMAIN rows = 1..n, \A i \in 1..n : rows[i] \in Nat,
         NEW leaves, leaves = Sorted(DigestsOf(rows))
  PROVE  /\ DOMAIN leaves = 1..n /\ Len(leaves) = n /\ AreLeaves(leaves, n)
         /\ TreeOver(leaves, n, Levels(leaves))
         /\ BuildMerkleTree(rows) = Levels(leaves)[n][1]
<1>0. n \in Nat
  OBVIOUS
<1>1. /\ DOMAIN leaves = 1..n
      /\ \A i \in 1..n : \E v \in Nat : leaves[i] = LeafDigest(v)
  <2>1. /\ DOMAIN Sorted(DigestsOf(rows)) = 1..n
        /\ \A i \in 1..n : \E v \in Nat : Sorted(DigestsOf(rows))[i] = LeafDigest(v)
    <3> DEFINE sorted == Sorted(DigestsOf(rows))
               AtPlace(i, v) == sorted[i] = LeafDigest(v) /\ StandsAt(rows, i, v) /\ \E j \in 1..n : rows[j] = v
    <3>1. DOMAIN sorted = 1..n /\ \A i \in 1..n : \E v \in Nat : AtPlace(i, v)
      BY <1>0, SortedStands
    <3>2. \A i, v : AtPlace(i, v) => sorted[i] = LeafDigest(v)
      OBVIOUS
    <3> HIDE DEF AtPlace, sorted
    <3>3. DOMAIN sorted = 1..n /\ \A i \in 1..n : \E v \in Nat : sorted[i] = LeafDigest(v)
      BY <3>1, <3>2
    <3> QED
      BY <3>3 DEF sorted
  <2> QED
    BY <2>1
<1>2. Len(leaves) = n
  <2>1. leaves = [i \in 1..n |-> leaves[i]]
    BY <1>0, SortedStands
  <2> QED
    BY <1>0, <2>1
<1>3. TreeOver(leaves, n, Levels(leaves))
  BY <1>1, LevelsAreATree
<1>4. BuildMerkleTree(rows) = Levels(leaves)[n][1]
  BY <1>2 DEF BuildMerkleTree, buildFromDigests, DigestsOf
<1> QED
  BY <1>1, <1>2, <1>3, <1>4 DEF AreLeaves

\* Equal roots are over the same leaves.
LEMMA RootCommits ==
  ASSUME NEW n \in Nat \ {0}, NEW rows, DOMAIN rows = 1..n, \A i \in 1..n : rows[i] \in Nat,
         NEW m \in Nat \ {0}, NEW others, DOMAIN others = 1..m, \A i \in 1..m : others[i] \in Nat,
         BuildMerkleTree(rows) = BuildMerkleTree(others), NEW v \in Nat
  PROVE  Copies(rows, v) = Copies(others, v)
<1>0. n \in Nat /\ m \in Nat
  OBVIOUS
<1>1. PICK leaves : leaves = Sorted(DigestsOf(rows))
  OBVIOUS
<1>2. PICK rest : rest = Sorted(DigestsOf(others))
  OBVIOUS
<1>3. PICK level : level = Levels(leaves)
  OBVIOUS
<1>4. PICK other : other = Levels(rest)
  OBVIOUS
<1>5. /\ DOMAIN leaves = 1..n /\ AreLeaves(leaves, n) /\ TreeOver(leaves, n, level) /\ BuildMerkleTree(rows) = level[n][1]
  BY <1>1, <1>3, TreeOfRows
<1>6. /\ DOMAIN rest = 1..m /\ AreLeaves(rest, m) /\ TreeOver(rest, m, other) /\ BuildMerkleTree(others) = other[m][1]
  BY <1>2, <1>4, TreeOfRows
<1>d. PICK d : d = LeafDigest(v)
  OBVIOUS
<1>7. PICK count : Counted(leaves, n, level, d, count)
  BY <1>0, CountsExist
<1>8. PICK tally : Counted(rest, m, other, d, tally)
  BY <1>0, CountsExist
<1>9. CopiesUnder(count, n, 1) = CopiesUnder(tally, m, 1)
  <2>1. n \in 0..n /\ m \in 0..m /\ 1 \in 1..Len(level[n]) /\ 1 \in 1..Len(other[m])
    BY <1>0, <1>5, <1>6 DEF TreeOver
  <2>2. level[n][1] = other[m][1]
    BY <1>5, <1>6
  <2>3. \A k \in 0..n, j \in 0..m : \A p \in 1..Len(level[k]), q \in 1..Len(other[j]) :
           level[k][p] = other[j][q] => CopiesUnder(count, k, p) = CopiesUnder(tally, j, q)
    BY <1>0, <1>5, <1>6, <1>7, <1>8, SameDigestSameCopies
  <2> QED
    BY <2>1, <2>2, <2>3
<1>10. CopiesUnder(count, n, 1) = Copies(leaves, d) /\ Copies(leaves, d) \in Nat
  <2>1. n \in 0..n /\ Len(level[n]) = 1 /\ 1 \in 0..1
    BY <1>0, <1>5 DEF TreeOver
  <2>2. count[n][0] = 0 /\ count[n][Len(level[n])] = Copies(leaves, d) /\ count[n][1] \in Nat
    <3>1. \A k \in 0..n : /\ \A i \in 0..Len(level[k]) : count[k][i] \in Nat
                         /\ count[k][0] = 0
                         /\ count[k][Len(level[k])] = Copies(leaves, d)
      BY <1>0, <1>5, <1>7, CountsOfLevels
    <3> QED
      BY <2>1, <3>1
  <2>3. \A a \in Nat : a - 0 = a
    OBVIOUS
  <2> QED
    BY <2>1, <2>2, <2>3 DEF CopiesUnder
<1>11. CopiesUnder(tally, m, 1) = Copies(rest, d) /\ Copies(rest, d) \in Nat
  <2>1. m \in 0..m /\ Len(other[m]) = 1 /\ 1 \in 0..1
    BY <1>0, <1>6 DEF TreeOver
  <2>2. tally[m][0] = 0 /\ tally[m][Len(other[m])] = Copies(rest, d) /\ tally[m][1] \in Nat
    <3>1. \A k \in 0..m : /\ \A i \in 0..Len(other[k]) : tally[k][i] \in Nat
                         /\ tally[k][0] = 0
                         /\ tally[k][Len(other[k])] = Copies(rest, d)
      BY <1>0, <1>6, <1>8, CountsOfLevels
    <3> QED
      BY <2>1, <3>1
  <2>3. \A a \in Nat : a - 0 = a
    OBVIOUS
  <2> QED
    BY <2>1, <2>2, <2>3 DEF CopiesUnder
<1>12. Copies(leaves, LeafDigest(v)) = Copies(rows, v) /\ Copies(rest, LeafDigest(v)) = Copies(others, v)
  BY <1>0, <1>1, <1>2, SortedKeepsCopies
<1> QED
  BY <1>d, <1>9, <1>10, <1>11, <1>12

\* The proof of a row of the settlement takes it to the root.
LEMMA RowsHaveProofs ==
  ASSUME NEW n \in Nat \ {0}, NEW rows, DOMAIN rows = 1..n, \A i \in 1..n : rows[i] \in Nat, NEW i \in 1..n
  PROVE  VerifyProof(BuildMerkleTree(rows), LeafDigest(rows[i]), proofForDigest(DigestsOf(rows), LeafDigest(rows[i])))
<1>0. n \in Nat /\ rows[i] \in Nat
  OBVIOUS
<1>1. PICK leaves : leaves = Sorted(DigestsOf(rows))
  OBVIOUS
<1>2. DOMAIN leaves = 1..n /\ BuildMerkleTree(rows) = Levels(leaves)[n][1]
  BY <1>1, TreeOfRows
<1>3. \E j \in 1..n : leaves[j] = LeafDigest(rows[i])
  <2> SUFFICES ASSUME ~(\E j \in 1..n : leaves[j] = LeafDigest(rows[i])) PROVE FALSE
    OBVIOUS
  <2>1. {j \in DOMAIN leaves : leaves[j] = LeafDigest(rows[i])} = {}
    BY <1>2
  <2>2. Copies(leaves, LeafDigest(rows[i])) = 0
    BY <2>1, FS_EmptySet DEF Copies
  <2>3. Copies(rows, rows[i]) = 0
    BY <1>0, <1>1, <2>2, SortedKeepsCopies
  <2> DEFINE Equal == {j \in 1..n : rows[j] = rows[i]}
  <2>4. Cardinality(Equal) = 0
    BY <2>3 DEF Copies
  <2>5. IsFiniteSet(Equal) /\ i \in Equal
    <3>1. Equal \in SUBSET (1..n) /\ i \in Equal
      OBVIOUS
    <3> HIDE DEF Equal
    <3> QED
      BY <1>0, <3>1, CountedAmong
  <2> HIDE DEF Equal
  <2> QED
    BY <2>4, <2>5, FS_EmptySet
<1>4. PICK j \in 1..n : /\ leaves[j] = LeafDigest(rows[i])
                        /\ proofForDigest(DigestsOf(rows), LeafDigest(rows[i])) = Siblings(leaves, j)
  <2> DEFINE place == CHOOSE j \in 1..n : leaves[j] = LeafDigest(rows[i])
  <2>1. place \in 1..n /\ leaves[place] = LeafDigest(rows[i])
    BY <1>3
  <2>2. proofForDigest(DigestsOf(rows), LeafDigest(rows[i])) = Siblings(leaves, place)
    BY <1>1, <1>2 DEF proofForDigest
  <2> HIDE DEF place
  <2> QED
    BY <2>1, <2>2
<1>5. VerifyProof(Levels(leaves)[n][1], leaves[j], Siblings(leaves, j))
  BY <1>2, EveryLeafHasAProof
<1> QED
  BY <1>2, <1>4, <1>5

\* A listing is numbers, one at least.
LEMMA ListingsAreRows ==
  ASSUME NEW l \in Listings
  PROVE  /\ l \in Seq(Entitlement) /\ Len(l) \in Nat \ {0} /\ DOMAIN l = 1..Len(l)
         /\ \A i \in 1..Len(l) : l[i] \in Entitlement /\ l[i] \in Nat
<1>1. l \in Seq(Entitlement) /\ l # <<>>
  BY ListingsAssumption
<1>2. Len(l) \in Nat /\ DOMAIN l = 1..Len(l) /\ \A i \in 1..Len(l) : l[i] \in Entitlement
  BY <1>1
<1>3. Len(l) # 0
  BY <1>1
<1> QED
  BY <1>1, <1>2, <1>3, ListingsAssumption

\* The root the escrow was given is the one built from the listing, the stored rows are
\* digests of leaves, and what has been handed out is a leaf the escrow accepts.
TreeInv ==
  /\ listing \in Listings /\ eventRoot = BuildMerkleTree(listing)
  /\ claimLeaves \in Seq({LeafDigest(v) : v \in Entitlement})
  /\ servedClaim # NoClaim => /\ \E i \in DOMAIN listing : LeafDigest(listing[i]) = servedClaim.leaf
                              /\ VerifyProof(eventRoot, servedClaim.leaf, servedClaim.proof)

\* Stored rows that give the published root are the leaves it was built from.
LEMMA SameRootSameLeaves ==
  ASSUME NEW l \in Listings, NEW digests \in Seq({LeafDigest(v) : v \in Entitlement}),
         buildFromDigests(digests) = BuildMerkleTree(l),
         NEW v \in Entitlement, NEW i \in DOMAIN digests, digests[i] = LeafDigest(v)
  PROVE  \E j \in DOMAIN l : LeafDigest(l[j]) = LeafDigest(v)
<1>1. /\ Len(l) \in Nat \ {0} /\ DOMAIN l = 1..Len(l)
      /\ \A j \in 1..Len(l) : l[j] \in Nat
  BY ListingsAreRows
<1>2. PICK m \in Nat : m = Len(digests) /\ DOMAIN digests = 1..m /\ digests = [j \in 1..m |-> digests[j]]
  OBVIOUS
<1>3. m \in Nat \ {0} /\ i \in 1..m
  BY <1>2
<1> DEFINE rows == [j \in 1..m |-> digests[j].leaf]
<1>4. \A j \in 1..m : rows[j] \in Entitlement /\ digests[j] = LeafDigest(rows[j])
  <2> TAKE j \in 1..m
  <2>1. PICK w \in Entitlement : digests[j] = LeafDigest(w)
    BY <1>2
  <2>2. digests[j].leaf = w
    BY <2>1 DEF LeafDigest
  <2> QED
    BY <2>1, <2>2
<1>5. DOMAIN rows = 1..m /\ DigestsOf(rows) = digests
  BY <1>2, <1>4 DEF DigestsOf
<1>6. rows[i] = v
  BY <1>3, <1>4, DigestsAreIdeal
<1>7. v \in Nat /\ \A j \in 1..m : rows[j] \in Nat
  BY <1>4, ListingsAssumption
<1> HIDE DEF rows
<1>8. BuildMerkleTree(rows) = BuildMerkleTree(l)
  BY <1>5 DEF BuildMerkleTree, DigestsOf
<1>9. Copies(rows, v) = Copies(l, v)
  BY <1>1, <1>3, <1>5, <1>7, <1>8, RootCommits
<1>10. Copies(rows, v) # 0
  <2> DEFINE T == {j \in DOMAIN rows : rows[j] = v}
  <2>1. T \in SUBSET (1..m) /\ i \in T
    BY <1>3, <1>5, <1>6
  <2> HIDE DEF T
  <2>2. IsFiniteSet(T) /\ T # {}
    BY <2>1, <1>2, CountedAmong
  <2>3. Cardinality(T) # 0
    BY <2>2, FS_EmptySet
  <2> QED
    BY <2>3 DEF Copies, T
<1>11. \E j \in DOMAIN l : l[j] = v
  <2> SUFFICES ASSUME ~(\E j \in DOMAIN l : l[j] = v) PROVE FALSE
    OBVIOUS
  <2>1. {j \in DOMAIN l : l[j] = v} = {}
    OBVIOUS
  <2> QED
    BY <1>9, <1>10, <2>1, FS_EmptySet DEF Copies
<1> QED
  BY <1>11

LEMMA TreeStarts == TreeInit => TreeInv
<1> SUFFICES ASSUME TreeInit PROVE TreeInv
  OBVIOUS
<1>1. listing \in Listings /\ eventRoot = BuildMerkleTree(listing) /\ servedClaim = NoClaim /\ claimLeaves = AsBuilt
  BY DEF TreeInit
<1>2. AsBuilt \in Seq({LeafDigest(v) : v \in Entitlement})
  <2>1. DOMAIN listing = 1..Len(listing) /\ Len(listing) \in Nat /\ \A i \in 1..Len(listing) : listing[i] \in Entitlement
    BY <1>1, ListingsAreRows
  <2> QED
    BY <2>1 DEF AsBuilt
<1> QED
  BY <1>1, <1>2 DEF TreeInv

LEMMA TreeInvKept == TreeInv /\ [TreeNext]_merkleVars => TreeInv'
<1> SUFFICES ASSUME TreeInv, [TreeNext]_merkleVars PROVE TreeInv'
  OBVIOUS
<1>0. claimLeaves \in Seq({LeafDigest(v) : v \in Entitlement})
  BY DEF TreeInv
<1>1. ASSUME NEW n \in Entitlement, ClaimFor(n)  PROVE TreeInv'
  <2>1. /\ listing' = listing /\ eventRoot' = eventRoot /\ claimLeaves' = claimLeaves
        /\ servedClaim'.leaf = LeafDigest(n) /\ buildFromDigests(claimLeaves) = eventRoot
        /\ VerifyProof(eventRoot, servedClaim'.leaf, servedClaim'.proof)
    <3> DEFINE proof == proofForDigest(claimLeaves, LeafDigest(n))
    <3>1. /\ buildFromDigests(claimLeaves) = eventRoot
          /\ VerifyProof(eventRoot, LeafDigest(n), proof) /\ servedClaim' = [leaf |-> LeafDigest(n), proof |-> proof]
          /\ listing' = listing /\ eventRoot' = eventRoot /\ claimLeaves' = claimLeaves
      BY <1>1 DEF ClaimFor
    <3> HIDE DEF proof
    <3> QED
      BY <3>1
  <2>2. PICK i \in DOMAIN claimLeaves : claimLeaves[i] = LeafDigest(n)
    BY <1>1 DEF ClaimFor
  <2>3. \E j \in DOMAIN listing : LeafDigest(listing[j]) = LeafDigest(n)
    <3>1. listing \in Listings /\ buildFromDigests(claimLeaves) = BuildMerkleTree(listing)
      BY <2>1 DEF TreeInv
    <3> QED
      BY <1>0, <2>2, <3>1, SameRootSameLeaves
  <2> QED
    BY <2>1, <2>3 DEF TreeInv
<1>2. ASSUME NEW i \in DOMAIN claimLeaves, NEW n, n \in Entitlement \/ n = 0, RowDrifts(i, n)  PROVE TreeInv'
  <2>1. /\ listing' = listing /\ eventRoot' = eventRoot /\ servedClaim' = servedClaim
        /\ claimLeaves' = IF n = 0 THEN RemoveAt(claimLeaves, i) ELSE [claimLeaves EXCEPT ![i] = LeafDigest(n)]
    BY <1>2 DEF RowDrifts
  <2>2. claimLeaves' \in Seq({LeafDigest(v) : v \in Entitlement})
    <3> DEFINE S == {LeafDigest(v) : v \in Entitlement}
    <3>1. n # 0 => LeafDigest(n) \in S
      BY <1>2
    <3> HIDE DEF S
    <3>2. claimLeaves \in Seq(S) /\ i \in 1..Len(claimLeaves)
      BY <1>0, <1>2 DEF S
    <3>3. CASE n = 0
      BY <2>1, <3>2, <3>3 DEF RemoveAt, S
    <3>4. CASE n # 0
      BY <2>1, <3>1, <3>2, <3>4 DEF S
    <3> QED
      BY <3>3, <3>4
  <2> QED
    BY <2>1, <2>2 DEF TreeInv
<1>3. CASE UNCHANGED merkleVars
  BY <1>3 DEF merkleVars, TreeInv
<1> QED
  BY <1>1, <1>2, <1>3 DEF TreeNext

\* Whatever is tried as a proof, of any length and made of anything.
LEMMA NoOtherProof ==
  ASSUME TreeInv, NEW v \in Nat, NEW m \in Nat, NEW proof, DOMAIN proof = 1..m,
         VerifyProof(eventRoot, LeafDigest(v), proof)
  PROVE  \E i \in DOMAIN listing : listing[i] = v
<1> DEFINE n == Len(listing)
<1>1. n \in Nat \ {0} /\ DOMAIN listing = 1..n /\ \A i \in 1..n : listing[i] \in Nat
  BY ListingsAreRows DEF TreeInv
<1>2. eventRoot = BuildMerkleTree(listing)
  BY DEF TreeInv
<1> HIDE DEF n
<1>3. \E i \in DOMAIN listing : listing[i] = v
  <2>0. n \in Nat
    BY <1>1
  <2>1. PICK leaves : leaves = Sorted(DigestsOf(listing))
    OBVIOUS
  <2>2. /\ DOMAIN leaves = 1..n /\ AreLeaves(leaves, n) /\ TreeOver(leaves, n, Levels(leaves))
        /\ BuildMerkleTree(listing) = Levels(leaves)[n][1]
    BY <1>1, <2>1, TreeOfRows
  <2>3. VerifyProof(Levels(leaves)[n][1], LeafDigest(v), proof)
    BY <1>2, <2>2
  <2>4. PICK i \in 1..n : leaves[i] = LeafDigest(v)
    BY <2>0, <2>2, <2>3, OnlyLeavesHaveProofs
  <2>5. PICK w \in Nat : leaves[i] = LeafDigest(w) /\ \E j \in 1..n : listing[j] = w
    <3>1. \E w \in Nat : /\ Sorted(DigestsOf(listing))[i] = LeafDigest(w) /\ StandsAt(listing, i, w)
                         /\ \E j \in 1..n : listing[j] = w
      <4>1. \A j \in 1..n : listing[j] \in Nat
        BY <1>1
      <4> QED
        BY <1>1, <2>0, <4>1, SortedStands
    <3> QED
      BY <2>1, <3>1
  <2> QED
    BY <1>1, <2>4, <2>5, DigestsAreIdeal
<1> QED
  BY <1>3

LEMMA TreeInvSuffices == TreeInv => OnlyLeavesProve
<1> SUFFICES ASSUME TreeInv PROVE OnlyLeavesProve
  OBVIOUS
<1> DEFINE n == Len(listing)
<1>1. n \in Nat \ {0} /\ DOMAIN listing = 1..n /\ \A i \in 1..n : listing[i] \in Entitlement /\ listing[i] \in Nat
  BY ListingsAreRows DEF TreeInv
<1>2. eventRoot = BuildMerkleTree(listing)
  BY DEF TreeInv
<1> HIDE DEF n
<1>3. ASSUME NEW l \in Listings  PROVE BuildMerkleTree(l) = eventRoot <=> SameLeaves(l, listing)
  <2> DEFINE m == Len(l)
  <2>1. m \in Nat \ {0} /\ DOMAIN l = 1..m /\ \A i \in 1..m : l[i] \in Entitlement /\ l[i] \in Nat
    BY ListingsAreRows
  <2> HIDE DEF m
  <2>2. ASSUME BuildMerkleTree(l) = eventRoot  PROVE SameLeaves(l, listing)
    <3>1. \A v \in Nat : Copies(l, v) = Copies(listing, v)
      BY <1>1, <1>2, <2>1, <2>2, RootCommits
    <3> QED
      BY <3>1, ListingsAssumption DEF SameLeaves
  <2>3. ASSUME SameLeaves(l, listing)  PROVE BuildMerkleTree(l) = eventRoot
    <3>1. ASSUME NEW v \in Nat  PROVE Copies(l, v) = Copies(listing, v)
      <4>1. CASE v \in Entitlement
        BY <2>3, <4>1 DEF SameLeaves
      <4>2. CASE ~(v \in Entitlement)
        <5>1. {i \in DOMAIN l : l[i] = v} = {} /\ {i \in DOMAIN listing : listing[i] = v} = {}
          BY <1>1, <2>1, <4>2
        <5> QED
          BY <5>1 DEF Copies
      <4> QED
        BY <4>1, <4>2
    <3>2. m \in Nat /\ n \in Nat
      BY <1>1, <2>1
    <3>3. m = n /\ Sorted(DigestsOf(l)) = Sorted(DigestsOf(listing))
      BY <1>1, <2>1, <3>1, <3>2, SameCopiesSortTheSame
    <3> QED
      BY <1>2, <3>3 DEF BuildMerkleTree, buildFromDigests, DigestsOf
  <2> QED
    BY <2>2, <2>3
<1>4. AsBuilt = DigestsOf(listing) /\ DOMAIN AsBuilt = 1..n /\ \A i \in 1..n : AsBuilt[i] = LeafDigest(listing[i])
  BY <1>1 DEF AsBuilt, DigestsOf
<1>5. \A i \in DOMAIN AsBuilt : VerifyProof(eventRoot, AsBuilt[i], proofForDigest(AsBuilt, AsBuilt[i]))
  <2> TAKE i \in DOMAIN AsBuilt
  <2>1. i \in 1..n /\ AsBuilt[i] = LeafDigest(listing[i])
    BY <1>4
  <2>2. VerifyProof(BuildMerkleTree(listing), LeafDigest(listing[i]),
                    proofForDigest(DigestsOf(listing), LeafDigest(listing[i])))
    BY <1>1, <2>1, RowsHaveProofs
  <2> QED
    BY <1>2, <1>4, <2>1, <2>2
<1>6. ASSUME NEW v \in Entitlement, NEW m \in 0..3, NEW proof \in [1..m -> Nodes(AsBuilt)],
             VerifyProof(eventRoot, LeafDigest(v), proof)
      PROVE  \E i \in DOMAIN listing : listing[i] = v
  <2>1. m \in Nat /\ DOMAIN proof = 1..m /\ v \in Nat
    BY ListingsAssumption
  <2> QED
    BY <1>6, <2>1, NoOtherProof
<1>7. \A v \in Entitlement : \A proof \in BoundedSeq(Nodes(AsBuilt), 3) :
         VerifyProof(eventRoot, LeafDigest(v), proof) => \E i \in DOMAIN listing : listing[i] = v
  BY <1>6 DEF BoundedSeq, SeqOf
<1>8. servedClaim # NoClaim => /\ \E i \in DOMAIN AsBuilt : AsBuilt[i] = servedClaim.leaf
                                /\ VerifyProof(eventRoot, servedClaim.leaf, servedClaim.proof)
  BY <1>1, <1>4 DEF TreeInv
<1> QED
  BY <1>3, <1>5, <1>7, <1>8 DEF OnlyLeavesProve

\* The root commits to the leaves whatever order their rows come in, and to no others; every
\* leaf has a proof, nothing else has one, and a claim that is handed out is one the escrow
\* accepts (chain/merkle.go, payout/serve.go).
THEOREM OnlyLeavesHaveClaims == TreeSpec => []OnlyLeavesProve
<1> QED
  BY TreeStarts, TreeInvKept, TreeInvSuffices, PTL DEF TreeSpec

\* Nothing else proves: a proof of any length, made of any values at all, takes nothing
\* but a leaf of the settlement to the published root, whatever has become of the rows.
THEOREM NothingElseProves ==
  TreeSpec => [](\A v \in Nat, m \in Nat : \A proof :
                   DOMAIN proof = 1..m /\ VerifyProof(eventRoot, LeafDigest(v), proof)
                     => \E i \in DOMAIN listing : listing[i] = v)
<1> DEFINE Nothing == \A v \in Nat, m \in Nat : \A proof :
                        DOMAIN proof = 1..m /\ VerifyProof(eventRoot, LeafDigest(v), proof)
                          => \E i \in DOMAIN listing : listing[i] = v
<1>1. TreeInit => TreeInv
  BY TreeStarts
<1>2. TreeInv => Nothing
  BY NoOtherProof
<1> HIDE DEF Nothing
<1>3. TreeSpec => []Nothing
  BY <1>1, <1>2, TreeInvKept, PTL DEF TreeSpec
<1> QED
  BY <1>3 DEF Nothing
=============================================================================
