------------------------------ MODULE Sums_proofs ------------------------------
(* Sums and positions in finite sets, for any function and any set: what the    *)
(* other proofs need of them. SumFunctionOnSet is a fold, that is a recursive   *)
(* function over the subsets of the set that takes its elements in an order     *)
(* nobody chose; the lemmas below free the sum from that order.                 *)
EXTENDS Functions, FiniteSetTheorems, WellFoundedInduction, TLAPS

------------------------------------------------------------------------------
(* Induction over a finite set, with the induction hypothesis given as a set.  *)

\* A set of naturals with an element has a least one.
LEMMA LeastExists ==
    ASSUME NEW S \in SUBSET Nat, S # {}
    PROVE  \E m \in S : \A n \in S : m <= n
<1>1. PICK m \in S : \A y \in S : ~ (<<y, m>> \in OpToRel(<, Nat))
  BY WFMin, NatLessThanWellFounded
<1>2. \A y \in S : ~ (y < m)
  BY <1>1 DEF OpToRel
<1>3. QED
  BY <1>2

\* What a finite set inherits from its proper subsets it has.
LEMMA SubsetInduction ==
    ASSUME NEW S, IsFiniteSet(S), NEW G,
           \A T \in SUBSET S : (\A U \in SUBSET T : U # T => U \in G) => T \in G
    PROVE  S \in G
<1> DEFINE Bad == {T \in SUBSET S : T \notin G}
           Sizes == {Cardinality(T) : T \in Bad}
<1>1. SUFFICES ASSUME S \notin G PROVE FALSE
  OBVIOUS
<1>2. \A T \in SUBSET S : IsFiniteSet(T) /\ Cardinality(T) \in Nat
  BY FS_Subset, FS_CardinalityType
<1>3. Sizes \in SUBSET Nat /\ Sizes # {}
  BY <1>1, <1>2
<1>4. PICK m \in Sizes : \A n \in Sizes : m <= n
  BY <1>3, LeastExists
<1>5. PICK T \in Bad : Cardinality(T) = m
  BY <1>4
<1>6. ASSUME NEW U \in SUBSET T, U # T
      PROVE  U \in G
  <2>1. Cardinality(U) < Cardinality(T)
    BY <1>2, <1>5, <1>6, FS_Subset, FS_CardinalityType
  <2>2. Cardinality(U) \in Nat /\ Cardinality(T) \in Nat
    BY <1>2, <1>5, <1>6
  <2>3. ~(m <= Cardinality(U))
    BY <1>5, <2>1, <2>2
  <2>4. U \notin Bad
    BY <1>4, <2>3
  <2>5. QED
    BY <1>5, <1>6, <2>4
<1>7. QED
  BY <1>5, <1>6

\* What holds of zero and passes to the successor holds of every natural.
LEMMA UpToInduction ==
    ASSUME NEW G, 0 \in G, \A n \in Nat : n \in G => n + 1 \in G
    PROVE  Nat \subseteq G
<1> DEFINE Bad == {n \in Nat : n \notin G}
<1>1. SUFFICES ASSUME Bad # {} PROVE FALSE
  OBVIOUS
<1>2. Bad \in SUBSET Nat
  OBVIOUS
<1>3. PICK m \in Bad : \A n \in Bad : m <= n
  BY <1>1, <1>2, LeastExists
<1>4. m \in Nat /\ m # 0
  BY <1>3
<1>5. m - 1 \in Nat /\ ~(m <= m - 1)
  BY <1>4
<1>6. m - 1 \in G
  BY <1>3, <1>5
<1>7. (m - 1) + 1 \in G
  BY <1>5, <1>6
<1>8. (m - 1) + 1 = m
  BY <1>4
<1>9. QED
  BY <1>3, <1>7, <1>8

------------------------------------------------------------------------------
(* The recursion behind a sum.                                                 *)

Pick(s) == CHOOSE x \in s : TRUE
Partial(f, g, s) == IF s = {} THEN 0 ELSE f[Pick(s)] + g[s \ {Pick(s)}]

\* g sums f over every subset of S.
Sums(f, S, g) == g = [s \in SUBSET S |-> Partial(f, g, s)]

LEMMA PickIn == ASSUME NEW s, s # {} PROVE Pick(s) \in s
BY DEF Pick

\* The subsets of a finite set have their sums.
LEMMA SumsExist ==
    ASSUME NEW f, NEW S, IsFiniteSet(S)
    PROVE  \E g : Sums(f, S, g)
<1> DEFINE Upto(n) == {s \in SUBSET S : Cardinality(s) <= n}
           Good == {n \in Nat : \E g : g = [s \in Upto(n) |-> Partial(f, g, s)]}
<1>1. \A s \in SUBSET S : IsFiniteSet(s) /\ Cardinality(s) \in Nat
  BY FS_Subset, FS_CardinalityType
<1>2. ASSUME NEW n \in Nat, NEW s \in Upto(n), s # {}
      PROVE  s \ {Pick(s)} \in SUBSET S /\ Cardinality(s \ {Pick(s)}) = Cardinality(s) - 1
  BY <1>1, <1>2, PickIn, FS_RemoveElement
<1>3. 0 \in Good
  <2> DEFINE g == [s \in Upto(0) |-> 0]
  <2>1. \A s \in Upto(0) : s = {}
    BY <1>1, FS_EmptySet
  <2>2. \A s \in Upto(0) : Partial(f, g, s) = 0
    BY <2>1 DEF Partial
  <2>3. g = [s \in Upto(0) |-> Partial(f, g, s)]
    BY <2>2
  <2>4. QED
    BY <2>3
<1>4. ASSUME NEW n \in Nat, n \in Good
      PROVE  n + 1 \in Good
  <2>1. PICK g : g = [s \in Upto(n) |-> Partial(f, g, s)]
    BY <1>4
  <2> DEFINE h == [s \in Upto(n + 1) |-> Partial(f, g, s)]
  <2>2. \A s \in Upto(n) : s \in Upto(n + 1) /\ h[s] = g[s]
    <3>1. \A s \in Upto(n) : s \in Upto(n + 1)
      BY <1>1
    <3>2. QED
      BY <2>1, <3>1
  <2>3. ASSUME NEW s \in Upto(n + 1)
        PROVE  Partial(f, h, s) = Partial(f, g, s)
    <3>1. CASE s = {}
      BY <3>1 DEF Partial
    <3>2. CASE s # {}
      <4>1. s \ {Pick(s)} \in Upto(n)
        <5>1. s \ {Pick(s)} \in SUBSET S /\ Cardinality(s \ {Pick(s)}) = Cardinality(s) - 1
          BY <1>2, <2>3, <3>2
        <5>2. Cardinality(s) \in Nat /\ Cardinality(s) <= n + 1
          BY <1>1, <2>3
        <5>3. QED
          BY <5>1, <5>2
      <4>2. h[s \ {Pick(s)}] = g[s \ {Pick(s)}]
        BY <2>2, <4>1
      <4>3. QED
        BY <3>2, <4>2 DEF Partial
    <3>3. QED
      BY <3>1, <3>2
  <2>4. h = [s \in Upto(n + 1) |-> Partial(f, h, s)]
    BY <2>3
  <2>5. \E k : k = [s \in Upto(n + 1) |-> Partial(f, k, s)]
    <3> HIDE DEF h
    <3>1. QED
      BY <2>4
  <2>6. n + 1 \in Nat
    OBVIOUS
  <2> HIDE DEF Upto
  <2>7. QED
    BY <2>5, <2>6
<1>5. Cardinality(S) \in Good
  <2>1. Nat \subseteq Good
    <3> HIDE DEF Good
    <3>1. QED
      BY <1>3, <1>4, UpToInduction
  <2>2. QED
    BY <1>1, <2>1
<1>6. Upto(Cardinality(S)) = SUBSET S
  <2>1. \A s \in SUBSET S : Cardinality(s) <= Cardinality(S)
    BY FS_Subset
  <2>2. QED
    BY <2>1
<1>7. PICK g : g = [s \in Upto(Cardinality(S)) |-> Partial(f, g, s)]
  BY <1>5
<1>8. QED
  BY <1>6, <1>7 DEF Sums

\* And two functions that sum f agree wherever both are defined.
LEMMA SumsAgree ==
    ASSUME NEW f, NEW S, NEW T \in SUBSET S, IsFiniteSet(S), NEW g, NEW h,
           Sums(f, S, g), Sums(f, T, h)
    PROVE  g[T] = h[T]
<1> DEFINE G == {U \in SUBSET T : g[U] = h[U]}
<1>1. IsFiniteSet(T)
  BY FS_Subset
<1>2. ASSUME NEW U \in SUBSET T, \A V \in SUBSET U : V # U => V \in G
      PROVE  U \in G
  <2>1. g[U] = Partial(f, g, U) /\ h[U] = Partial(f, h, U)
    BY <1>2 DEF Sums
  <2>2. U # {} => U \ {Pick(U)} \in G
    BY <1>2, PickIn
  <2>3. Partial(f, g, U) = Partial(f, h, U)
    BY <2>2 DEF Partial
  <2>4. QED
    BY <2>1, <2>3
<1>3. T \in G
  <2> HIDE DEF G
  <2>1. QED
    BY <1>1, <1>2, SubsetInduction
<1>4. QED
  BY <1>3

------------------------------------------------------------------------------
(* Sums.                                                                       *)

LEMMA SumIsSums ==
    ASSUME NEW f, NEW S, IsFiniteSet(S)
    PROVE  \E g : Sums(f, S, g) /\ SumFunctionOnSet(f, S) = g[S]
<1> DEFINE g == CHOOSE g : Sums(f, S, g)
<1>1. SumFunctionOnSet(f, S)
        = (CHOOSE iter : iter = [s \in SUBSET S |-> IF s = {} THEN 0 ELSE f[Pick(s)] + iter[s \ {Pick(s)}]])[S]
  BY DEF SumFunctionOnSet, FoldFunctionOnSet, MapThenFoldSet, Pick
<1>2. g = CHOOSE iter : iter = [s \in SUBSET S |-> IF s = {} THEN 0 ELSE f[Pick(s)] + iter[s \ {Pick(s)}]]
  BY DEF Sums, Partial
<1>3. Sums(f, S, g)
  BY SumsExist
<1>4. QED
  BY <1>1, <1>2, <1>3

\* Nothing adds up to zero.
LEMMA SumEmpty == ASSUME NEW f PROVE SumFunctionOnSet(f, {}) = 0
<1>1. IsFiniteSet({})
  BY FS_EmptySet
<1>2. PICK g : Sums(f, {}, g) /\ SumFunctionOnSet(f, {}) = g[{}]
  BY <1>1, SumIsSums
<1>3. QED
  BY <1>2 DEF Sums, Partial

LEMMA SumPick ==
    ASSUME NEW f, NEW S, IsFiniteSet(S), S # {}
    PROVE  SumFunctionOnSet(f, S) = f[Pick(S)] + SumFunctionOnSet(f, S \ {Pick(S)})
<1> DEFINE T == S \ {Pick(S)}
<1>1. IsFiniteSet(T)
  BY FS_Subset
<1>2. PICK g : Sums(f, S, g) /\ SumFunctionOnSet(f, S) = g[S]
  BY SumIsSums
<1>3. PICK h : Sums(f, T, h) /\ SumFunctionOnSet(f, T) = h[T]
  BY <1>1, SumIsSums
<1>4. g[T] = h[T]
  BY <1>2, <1>3, SumsAgree
<1>5. g[S] = Partial(f, g, S)
  BY <1>2 DEF Sums
<1>6. QED
  BY <1>2, <1>3, <1>4, <1>5 DEF Partial

\* The sum of integers is an integer.
LEMMA SumType ==
    ASSUME NEW S, IsFiniteSet(S), NEW f, \A x \in S : f[x] \in Int
    PROVE  SumFunctionOnSet(f, S) \in Int
<1> DEFINE G == {T \in SUBSET S : SumFunctionOnSet(f, T) \in Int}
<1>1. ASSUME NEW T \in SUBSET S, \A U \in SUBSET T : U # T => U \in G
      PROVE  T \in G
  <2>1. CASE T = {}
    BY <2>1, SumEmpty
  <2>2. CASE T # {}
    <3>1. Pick(T) \in T /\ T \ {Pick(T)} \in G
      BY <1>1, <2>2, PickIn
    <3>2. IsFiniteSet(T)
      BY FS_Subset
    <3>3. SumFunctionOnSet(f, T) = f[Pick(T)] + SumFunctionOnSet(f, T \ {Pick(T)})
      BY <2>2, <3>2, SumPick
    <3>4. f[Pick(T)] \in Int /\ SumFunctionOnSet(f, T \ {Pick(T)}) \in Int
      BY <3>1
    <3>5. QED
      BY <3>3, <3>4
  <2>3. QED
    BY <2>1, <2>2
<1>2. S \in G
  <2> HIDE DEF G
  <2>1. QED
    BY <1>1, SubsetInduction
<1>3. QED
  BY <1>2

\* Whichever element is taken first, the sum is the same.
LEMMA SumRemove ==
    ASSUME NEW S, IsFiniteSet(S), NEW f, \A x \in S : f[x] \in Int, NEW x \in S
    PROVE  SumFunctionOnSet(f, S) = f[x] + SumFunctionOnSet(f, S \ {x})
<1> DEFINE Sum(T) == SumFunctionOnSet(f, T)
           G == {T \in SUBSET S : \A y \in T : Sum(T) = f[y] + Sum(T \ {y})}
<1>1. \A T \in SUBSET S : IsFiniteSet(T)
  BY FS_Subset
<1>2. \A T \in SUBSET S : Sum(T) \in Int
  BY <1>1, SumType
<1>3. \A T \in SUBSET S : T # {} => Sum(T) = f[Pick(T)] + Sum(T \ {Pick(T)})
  BY <1>1, SumPick
<1> HIDE DEF Sum
<1>4. ASSUME NEW T \in SUBSET S, \A U \in SUBSET T : U # T => U \in G
      PROVE  T \in G
  <2> SUFFICES ASSUME NEW y \in T, y # Pick(T)
               PROVE  Sum(T) = f[y] + Sum(T \ {y})
    BY <1>3
  <2> DEFINE p == Pick(T)
  <2>1. p \in T
    BY PickIn
  <2>2. T \ {p} \in G /\ T \ {y} \in G
    BY <1>4, <2>1
  <2> HIDE DEF p
  <2>3. Sum(T \ {p}) = f[y] + Sum((T \ {p}) \ {y})
    BY <2>2 DEF p
  <2>4. Sum(T \ {y}) = f[p] + Sum((T \ {y}) \ {p})
    BY <2>1, <2>2 DEF p
  <2>5. (T \ {p}) \ {y} = (T \ {y}) \ {p}
    OBVIOUS
  <2>6. Sum(T) = f[p] + Sum(T \ {p})
    BY <1>3, <2>1 DEF p
  <2> DEFINE rest == Sum((T \ {y}) \ {p})
             a == f[p]
             b == f[y]
  <2>7. a \in Int /\ b \in Int /\ rest \in Int
    BY <1>2, <2>1
  <2>8. Sum(T) = a + (b + rest) /\ Sum(T \ {y}) = a + rest
    BY <2>3, <2>4, <2>5, <2>6
  <2> HIDE DEF a, b, rest
  <2>9. a + (b + rest) = b + (a + rest)
    BY <2>7
  <2>10. QED
    BY <2>8, <2>9 DEF b
<1>5. S \in G
  <2> HIDE DEF G
  <2>1. QED
    BY <1>4, SubsetInduction
<1>6. QED
  BY <1>5 DEF Sum

\* An element that joins adds its value.
LEMMA SumAdd ==
    ASSUME NEW S, IsFiniteSet(S), NEW x, x \notin S,
           NEW f, \A y \in S \cup {x} : f[y] \in Int
    PROVE  SumFunctionOnSet(f, S \cup {x}) = f[x] + SumFunctionOnSet(f, S)
<1> DEFINE T == S \cup {x}
<1>1. IsFiniteSet(T)
  BY FS_AddElement
<1>2. x \in T /\ T \ {x} = S
  OBVIOUS
<1> HIDE DEF T
<1>3. SumFunctionOnSet(f, T) = f[x] + SumFunctionOnSet(f, T \ {x})
  <2>1. \A y \in T : f[y] \in Int
    BY DEF T
  <2>2. QED
    BY <1>1, <1>2, <2>1, SumRemove
<1>4. QED
  BY <1>2, <1>3 DEF T

\* A finite set is reached from the empty set by adding one element at a time.
LEMMA AddingInduction ==
    ASSUME NEW S, IsFiniteSet(S), NEW G, {} \in G,
           \A T \in SUBSET S : \A x \in S \ T : T \in G => T \cup {x} \in G
    PROVE  S \in G
<1>1. ASSUME NEW T \in SUBSET S, \A U \in SUBSET T : U # T => U \in G
      PROVE  T \in G
  <2>1. CASE T = {}
    BY <2>1
  <2>2. CASE T # {}
    <3>1. PICK x : x \in T
      BY <2>2
    <3>2. T \ {x} \in G /\ T \ {x} \in SUBSET S /\ x \in S \ (T \ {x})
      BY <1>1, <3>1
    <3>3. (T \ {x}) \cup {x} \in G
      BY <3>2
    <3>4. (T \ {x}) \cup {x} = T
      BY <3>1
    <3>5. QED
      BY <3>3, <3>4
  <2>3. QED
    BY <2>1, <2>2
<1>2. QED
  BY <1>1, SubsetInduction

\* The sum over two sets without a common element is the sum of their sums.
LEMMA SumUnion ==
    ASSUME NEW A, IsFiniteSet(A), NEW B, IsFiniteSet(B), A \cap B = {},
           NEW f, \A x \in A \cup B : f[x] \in Int
    PROVE  SumFunctionOnSet(f, A \cup B) = SumFunctionOnSet(f, A) + SumFunctionOnSet(f, B)
<1> DEFINE Sum(T) == SumFunctionOnSet(f, T)
           G == {T \in SUBSET B : Sum(A \cup T) = Sum(A) + Sum(T)}
<1>1. \A T \in SUBSET B : IsFiniteSet(T) /\ IsFiniteSet(A \cup T)
  BY FS_Subset, FS_Union
<1>2. \A T \in SUBSET B : Sum(T) \in Int
  BY <1>1, SumType
<1>3. Sum(A) \in Int
  BY SumType
<1>4. Sum({}) = 0
  BY SumEmpty
<1>5. ASSUME NEW T \in SUBSET B, NEW x \in B \ T
      PROVE  /\ Sum(T \cup {x}) = f[x] + Sum(T)
             /\ Sum((A \cup T) \cup {x}) = f[x] + Sum(A \cup T)
  <2>1. x \notin T /\ x \notin A \cup T
    OBVIOUS
  <2>2. Sum(T \cup {x}) = f[x] + Sum(T)
    BY <1>1, <2>1, SumAdd
  <2>3. \A y \in (A \cup T) \cup {x} : f[y] \in Int
    OBVIOUS
  <2>4. Sum((A \cup T) \cup {x}) = f[x] + Sum(A \cup T)
    <3> DEFINE C == A \cup T
    <3>1. IsFiniteSet(C) /\ x \notin C /\ \A y \in C \cup {x} : f[y] \in Int
      BY <1>1, <2>1, <2>3
    <3> HIDE DEF C
    <3>2. Sum(C \cup {x}) = f[x] + Sum(C)
      BY <3>1, SumAdd
    <3>3. QED
      BY <3>2 DEF C
  <2>5. QED
    BY <2>2, <2>4
<1> HIDE DEF Sum
<1>6. {} \in G
  <2>1. A \cup {} = A
    OBVIOUS
  <2>2. QED
    BY <1>3, <1>4, <2>1
<1>7. ASSUME NEW T \in SUBSET B, NEW x \in B \ T, T \in G
      PROVE  T \cup {x} \in G
  <2> DEFINE a == Sum(A)
             t == Sum(T)
             v == f[x]
  <2>1. a \in Int /\ t \in Int /\ v \in Int
    BY <1>2, <1>3
  <2>2. (A \cup T) \cup {x} = A \cup (T \cup {x})
    OBVIOUS
  <2>3. Sum(A \cup (T \cup {x})) = v + (a + t) /\ Sum(T \cup {x}) = v + t
    BY <1>5, <1>7, <2>2
  <2> HIDE DEF a, t, v
  <2>4. v + (a + t) = a + (v + t)
    BY <2>1
  <2>5. Sum(A \cup (T \cup {x})) = Sum(A) + Sum(T \cup {x})
    BY <2>3, <2>4 DEF a
  <2>6. QED
    BY <2>5
<1>8. B \in G
  <2> HIDE DEF G
  <2>1. QED
    BY <1>6, <1>7, AddingInduction
<1>9. QED
  BY <1>8 DEF Sum

\* What is never more, one by one, is not more in the sum.
LEMMA SumMonotone ==
    ASSUME NEW S, IsFiniteSet(S), NEW f, NEW g,
           \A x \in S : f[x] \in Int /\ g[x] \in Int /\ f[x] <= g[x]
    PROVE  SumFunctionOnSet(f, S) <= SumFunctionOnSet(g, S)
<1> DEFINE F(T) == SumFunctionOnSet(f, T)
           H(T) == SumFunctionOnSet(g, T)
           G == {T \in SUBSET S : F(T) <= H(T)}
<1>1. \A T \in SUBSET S : IsFiniteSet(T)
  BY FS_Subset
<1>2. \A T \in SUBSET S : F(T) \in Int /\ H(T) \in Int
  BY <1>1, SumType
<1>3. F({}) = 0 /\ H({}) = 0
  BY SumEmpty
<1>4. ASSUME NEW T \in SUBSET S, NEW x \in S \ T
      PROVE  F(T \cup {x}) = f[x] + F(T) /\ H(T \cup {x}) = g[x] + H(T)
  BY <1>1, SumAdd
<1> HIDE DEF F, H
<1>5. ASSUME NEW T \in SUBSET S, NEW x \in S \ T, T \in G
      PROVE  T \cup {x} \in G
  <2>1. F(T) <= H(T) /\ f[x] <= g[x] /\ f[x] \in Int /\ g[x] \in Int
    BY <1>5
  <2>2. f[x] + F(T) <= g[x] + H(T)
    BY <1>2, <2>1
  <2>3. QED
    BY <1>4, <2>2
<1>6. S \in G
  <2>1. {} \in G
    BY <1>3
  <2> HIDE DEF G
  <2>2. QED
    BY <1>5, <2>1, AddingInduction
<1>7. QED
  BY <1>6 DEF F, H

\* Only the values on the set count.
LEMMA SumEqual ==
    ASSUME NEW S, IsFiniteSet(S), NEW f, NEW g,
           \A x \in S : f[x] \in Int /\ f[x] = g[x]
    PROVE  SumFunctionOnSet(f, S) = SumFunctionOnSet(g, S)
<1>1. SumFunctionOnSet(f, S) \in Int /\ SumFunctionOnSet(g, S) \in Int
  BY SumType
<1>2. SumFunctionOnSet(f, S) <= SumFunctionOnSet(g, S)
  BY SumMonotone
<1>3. SumFunctionOnSet(g, S) <= SumFunctionOnSet(f, S)
  BY SumMonotone
<1>4. QED
  BY <1>1, <1>2, <1>3

\* A function that repeats another one over a finite set has its sum.
LEMMA SumOfFunction ==
    ASSUME NEW S, IsFiniteSet(S), NEW f, DOMAIN f = S, NEW g,
           \A x \in S : f[x] \in Int /\ f[x] = g[x]
    PROVE  SumFunction(f) = SumFunctionOnSet(g, S)
<1>1. SumFunction(f) = SumFunctionOnSet(f, S)
  BY DEF SumFunction
<1>2. SumFunctionOnSet(f, S) = SumFunctionOnSet(g, S)
  BY SumEqual
<1>3. QED
  BY <1>1, <1>2

\* Counting is summing ones.
LEMMA SumOfOnes ==
    ASSUME NEW S, IsFiniteSet(S), NEW f, \A x \in S : f[x] = 1
    PROVE  SumFunctionOnSet(f, S) = Cardinality(S)
<1> DEFINE Sum(T) == SumFunctionOnSet(f, T)
           G == {T \in SUBSET S : Sum(T) = Cardinality(T)}
<1>1. \A T \in SUBSET S : IsFiniteSet(T) /\ Cardinality(T) \in Nat
  BY FS_Subset, FS_CardinalityType
<1>2. {} \in G
  BY SumEmpty, FS_EmptySet
<1>3. ASSUME NEW T \in SUBSET S, NEW x \in S \ T, T \in G
      PROVE  T \cup {x} \in G
  <2>4. \A y \in T \cup {x} : f[y] \in Int
    OBVIOUS
  <2>1. Sum(T \cup {x}) = f[x] + Sum(T)
    BY <1>1, <2>4, SumAdd
  <2>2. Cardinality(T \cup {x}) = Cardinality(T) + 1
    BY <1>1, FS_AddElement
  <2> HIDE DEF Sum
  <2>3. QED
    BY <1>1, <1>3, <2>1, <2>2
<1>4. S \in G
  <2> HIDE DEF G
  <2>1. QED
    BY <1>2, <1>3, AddingInduction
<1>5. QED
  BY <1>4

\* What is never negative, one by one, is not negative in the sum.
LEMMA SumNatural ==
    ASSUME NEW S, IsFiniteSet(S), NEW f, \A x \in S : f[x] \in Nat
    PROVE  SumFunctionOnSet(f, S) \in Nat
<1> DEFINE Sum(T) == SumFunctionOnSet(f, T)
           G == {T \in SUBSET S : Sum(T) \in Nat}
<1>1. {} \in G
  BY SumEmpty
<1>2. ASSUME NEW T \in SUBSET S, NEW x \in S \ T, T \in G
      PROVE  T \cup {x} \in G
  <2>1. IsFiniteSet(T)
    BY FS_Subset
  <2>2. \A y \in T \cup {x} : f[y] \in Int
    OBVIOUS
  <2>3. Sum(T \cup {x}) = f[x] + Sum(T)
    BY <2>1, <2>2, SumAdd
  <2>4. f[x] \in Nat /\ Sum(T) \in Nat
    BY <1>2
  <2> HIDE DEF Sum
  <2>5. Sum(T \cup {x}) \in Nat
    BY <2>3, <2>4
  <2>6. QED
    BY <2>5
<1>3. S \in G
  <2> HIDE DEF G
  <2>1. QED
    BY <1>1, <1>2, AddingInduction
<1>4. QED
  BY <1>3

\* Leaving elements out leaves no more, unless one of them is negative.
LEMMA SumSubset ==
    ASSUME NEW S, IsFiniteSet(S), NEW T \in SUBSET S, NEW f,
           \A x \in S : f[x] \in Int, \A x \in S \ T : f[x] >= 0
    PROVE  SumFunctionOnSet(f, T) <= SumFunctionOnSet(f, S)
<1> DEFINE R == S \ T
<1>1. IsFiniteSet(T) /\ IsFiniteSet(R) /\ T \cap R = {} /\ T \cup R = S
  BY FS_Subset
<1>2. \A x \in R : f[x] \in Nat
  OBVIOUS
<1> HIDE DEF R
<1>3. SumFunctionOnSet(f, T \cup R) = SumFunctionOnSet(f, T) + SumFunctionOnSet(f, R)
  <2>1. \A x \in T \cup R : f[x] \in Int
    BY <1>1
  <2>2. QED
    BY <1>1, <2>1, SumUnion
<1>4. SumFunctionOnSet(f, R) \in Nat
  BY <1>1, <1>2, SumNatural
<1>5. SumFunctionOnSet(f, T) \in Int
  BY <1>1, SumType
<1>6. SumFunctionOnSet(f, S) = SumFunctionOnSet(f, T) + SumFunctionOnSet(f, R)
  BY <1>1, <1>3
<1>7. QED
  BY <1>4, <1>5, <1>6

\* In a finite strict total order the number of predecessors is a bijection.
LEMMA PositionsFill ==
    ASSUME NEW S, IsFiniteSet(S), NEW before \in SUBSET (S \X S),
           \A c \in S : <<c, c>> \notin before,
           \A c, d, e \in S : <<c, d>> \in before /\ <<d, e>> \in before => <<c, e>> \in before,
           \A c, d \in S : c = d \/ <<c, d>> \in before \/ <<d, c>> \in before,
           NEW pos, pos = [c \in S |-> Cardinality({d \in S : <<d, c>> \in before})]
    PROVE  /\ pos \in Injection(S, 0 .. Cardinality(S) - 1)
           /\ pos \in Surjection(S, 0 .. Cardinality(S) - 1)
<1> DEFINE B(c) == {d \in S : <<d, c>> \in before}
<1>1. \A c \in S : IsFiniteSet(B(c)) /\ Cardinality(B(c)) \in Nat
  BY FS_Subset, FS_CardinalityType
<1>2. Cardinality(S) \in Nat
  BY FS_CardinalityType
<1>3. ASSUME NEW c \in S
      PROVE  Cardinality(B(c)) < Cardinality(S)
  <2>1. B(c) \in SUBSET S /\ c \notin B(c)
    OBVIOUS
  <2> HIDE DEF B
  <2>2. Cardinality(B(c)) <= Cardinality(S) /\ Cardinality(B(c)) # Cardinality(S)
    BY <2>1, FS_Subset
  <2>3. QED
    BY <1>1, <1>2, <2>2
<1>4. ASSUME NEW c \in S, NEW d \in S, <<c, d>> \in before
      PROVE  Cardinality(B(c)) < Cardinality(B(d))
  <2>1. B(c) \in SUBSET B(d) /\ c \in B(d) /\ c \notin B(c)
    BY <1>4
  <2> HIDE DEF B
  <2>2. Cardinality(B(c)) <= Cardinality(B(d)) /\ Cardinality(B(c)) # Cardinality(B(d))
    BY <1>1, <2>1, FS_Subset
  <2>3. QED
    BY <1>1, <2>2
<1>5. \A c \in S : pos[c] = Cardinality(B(c))
  OBVIOUS
<1>. HIDE DEF B
<1>6. pos \in [S -> 0 .. Cardinality(S) - 1]
  <2>1. \A c \in S : pos[c] \in 0 .. Cardinality(S) - 1
    BY <1>1, <1>2, <1>3, <1>5
  <2>2. QED
    BY <2>1
<1>7. ASSUME NEW c \in S, NEW d \in S, pos[c] = pos[d]
      PROVE  c = d
  <2>1. ~(<<c, d>> \in before) /\ ~(<<d, c>> \in before)
    BY <1>1, <1>4, <1>5, <1>7
  <2>2. QED
    BY <2>1
<1>8. pos \in Injection(S, 0 .. Cardinality(S) - 1)
  BY <1>6, <1>7 DEF Injection, IsInjective
<1>9. /\ IsFiniteSet(0 .. Cardinality(S) - 1)
      /\ Cardinality(0 .. Cardinality(S) - 1) = Cardinality(S)
  BY <1>2, FS_Interval
<1>10. QED
  BY <1>8, <1>9, FS_Injection

\* The values of a function on a finite set are finitely many.
LEMMA FiniteImage ==
    ASSUME NEW S, IsFiniteSet(S), NEW f
    PROVE  IsFiniteSet({f[x] : x \in S})
<1> DEFINE T == {f[x] : x \in S}
           g == [x \in S |-> f[x]]
<1>1. g \in Surjection(S, T)
  BY DEF Surjection
<1> HIDE DEF g, T
<1>2. IsFiniteSet(T)
  BY <1>1, FS_Surjection
<1>3. QED
  BY <1>2 DEF T

------------------------------------------------------------------------------
(* Sums by group.                                                              *)

\* The elements of S whose key is k, and those whose key is in K.
Group(S, key, k) == {x \in S : key[x] = k}
Grouped(S, key, K) == {x \in S : key[x] \in K}

\* Records put into groups by a key: the sums of the groups add up to the sum of all
\* records whose key is one of the groups.
LEMMA SumByGroup ==
    ASSUME NEW S, IsFiniteSet(S), NEW f, \A x \in S : f[x] \in Int,
           NEW key, NEW K, IsFiniteSet(K), NEW sum,
           \A k \in K : sum[k] = SumFunctionOnSet(f, Group(S, key, k))
    PROVE  SumFunctionOnSet(sum, K) = SumFunctionOnSet(f, Grouped(S, key, K))
<1> DEFINE Below(L) == Grouped(S, key, L)
           One(k) == Group(S, key, k)
           F(T) == SumFunctionOnSet(f, T)
           H(L) == SumFunctionOnSet(sum, L)
           G == {L \in SUBSET K : H(L) = F(Below(L))}
<1>1. \A T \in SUBSET S : IsFiniteSet(T) /\ F(T) \in Int
  BY FS_Subset, SumType
<1>2. \A k \in K : sum[k] = F(One(k)) /\ sum[k] \in Int
  BY <1>1 DEF Group
<1>3. ASSUME NEW L \in SUBSET K, NEW k \in K \ L
      PROVE  /\ H(L \cup {k}) = sum[k] + H(L)
             /\ F(Below(L \cup {k})) = F(One(k)) + F(Below(L))
  <2>1. H(L \cup {k}) = sum[k] + H(L)
    BY <1>2, FS_Subset, SumAdd
  <2>2. Below(L \cup {k}) = One(k) \cup Below(L) /\ One(k) \cap Below(L) = {}
    BY DEF Group, Grouped
  <2>3. One(k) \in SUBSET S /\ Below(L) \in SUBSET S
    BY DEF Group, Grouped
  <2>4. F(One(k) \cup Below(L)) = F(One(k)) + F(Below(L))
    <3> DEFINE A == One(k)
               B == Below(L)
    <3>1. IsFiniteSet(A) /\ IsFiniteSet(B) /\ A \cap B = {} /\ \A x \in A \cup B : f[x] \in Int
      BY <1>1, <2>2, <2>3
    <3> HIDE DEF A, B
    <3>2. F(A \cup B) = F(A) + F(B)
      BY <3>1, SumUnion
    <3>3. QED
      BY <3>2 DEF A, B
  <2> HIDE DEF F, H, Below, One
  <2>5. QED
    BY <2>1, <2>2, <2>4
<1>4. {} \in G
  <2>1. Below({}) = {}
    BY DEF Grouped
  <2>2. H({}) = 0 /\ F({}) = 0
    BY SumEmpty
  <2> HIDE DEF F, H, Below
  <2>3. QED
    BY <2>1, <2>2
<1> HIDE DEF F, H, Below, One
<1>5. ASSUME NEW L \in SUBSET K, NEW k \in K \ L, L \in G
      PROVE  L \cup {k} \in G
  BY <1>2, <1>3, <1>5
<1>6. K \in G
  <2> HIDE DEF G
  <2>1. QED
    BY <1>4, <1>5, AddingInduction
<1>7. QED
  BY <1>6 DEF F, H, Below

\* And their numbers of members add up to the number of those records.
LEMMA CountByGroup ==
    ASSUME NEW S, IsFiniteSet(S), NEW key, NEW K, IsFiniteSet(K), NEW count,
           \A k \in K : count[k] = Cardinality(Group(S, key, k))
    PROVE  SumFunctionOnSet(count, K) = Cardinality(Grouped(S, key, K))
<1> DEFINE one == [x \in S |-> 1]
<1>1. \A T \in SUBSET S : IsFiniteSet(T) /\ SumFunctionOnSet(one, T) = Cardinality(T)
  <2>1. \A x \in S : one[x] = 1
    OBVIOUS
  <2> HIDE DEF one
  <2>2. QED
    BY <2>1, FS_Subset, SumOfOnes
<1>2. \A x \in S : one[x] \in Int
  OBVIOUS
<1> HIDE DEF one
<1>3. \A k \in K : Group(S, key, k) \in SUBSET S
  BY DEF Group
<1>4. \A k \in K : count[k] = SumFunctionOnSet(one, Group(S, key, k))
  BY <1>1, <1>3
<1>5. SumFunctionOnSet(count, K) = SumFunctionOnSet(one, Grouped(S, key, K))
  BY <1>2, <1>4, SumByGroup
<1>6. Grouped(S, key, K) \in SUBSET S
  BY DEF Grouped
<1>7. QED
  BY <1>1, <1>5, <1>6
===============================================================================
