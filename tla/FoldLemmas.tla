----------------------------- MODULE FoldLemmas -----------------------------
(***************************************************************************)
(* Facts about the operators of the community modules that the models use  *)
(* and whose definitions recurse: sums over finite sets and the            *)
(* concatenation of a sequence of sequences; and about sorting by rank.    *)
(* Inductions are by the least counterexample.                             *)
(***************************************************************************)
EXTENDS Integers, SequencesExt, FiniteSetTheorems, TLAPS

-----------------------------------------------------------------------------
(* Least elements and cardinalities. *)

\* A non-empty set of naturals has a least element.
LEMMA LeastNat ==
  ASSUME NEW T \in SUBSET Nat, T # {}
  PROVE  \E m \in T : \A n \in T : m <= n
<1>1. \E x \in T : \A y \in T : ~ (<<y, x>> \in OpToRel(<, Nat))
  BY WFMin, NatLessThanWellFounded
<1>2. \A x, y \in Nat : x < y => <<x, y>> \in OpToRel(<, Nat)
  BY DEF OpToRel
<1>3. PICK m \in T : \A y \in T : ~ (<<y, m>> \in OpToRel(<, Nat))
  BY <1>1
<1>4. \A y \in T : ~ (y < m)
  BY <1>2, <1>3
<1> QED
  BY <1>4

\* If the naturals up to n that are not in T have no least one, then n is in T.
LEMMA NatInductionBySet ==
  ASSUME NEW T, 0 \in T, \A n \in Nat : n \in T => n + 1 \in T
  PROVE  Nat \subseteq T
<1> SUFFICES ASSUME Nat \ T # {} PROVE FALSE
  OBVIOUS
<1>1. PICK m \in Nat \ T : \A n \in Nat \ T : m <= n
  BY LeastNat
<1>2. m # 0 /\ m \in Nat
  BY <1>1
<1>3. m - 1 \in Nat /\ ~ (m <= m - 1) /\ (m - 1) + 1 = m
  BY <1>2
<1>4. m - 1 \in T
  BY <1>1, <1>3
<1> QED
  BY <1>1, <1>3, <1>4

\* Taking an element out of a finite set leaves a smaller one.
LEMMA RemoveOne ==
  ASSUME NEW S, IsFiniteSet(S), NEW x \in S
  PROVE  /\ IsFiniteSet(S \ {x}) /\ Cardinality(S) \in Nat /\ Cardinality(S \ {x}) \in Nat
         /\ Cardinality(S) = Cardinality(S \ {x}) + 1
<1>1. IsFiniteSet(S \ {x}) /\ Cardinality(S \ {x}) = Cardinality(S) - 1
  BY FS_RemoveElement
<1>2. Cardinality(S) \in Nat /\ Cardinality(S \ {x}) \in Nat
  BY <1>1, FS_CardinalityType
<1> QED
  BY <1>1, <1>2

\* Every subset of a finite set is finite, and no larger.
LEMMA SubsetCard ==
  ASSUME NEW S, IsFiniteSet(S), NEW T \in SUBSET S
  PROVE  /\ IsFiniteSet(T) /\ Cardinality(T) \in Nat /\ Cardinality(S) \in Nat
         /\ Cardinality(T) <= Cardinality(S)
         /\ (Cardinality(T) = Cardinality(S) => T = S)
<1>1. IsFiniteSet(T) /\ Cardinality(T) <= Cardinality(S) /\ (Cardinality(S) = Cardinality(T) => S = T)
  BY FS_Subset
<1> QED
  BY <1>1, FS_CardinalityType

-----------------------------------------------------------------------------
(* Sums over finite sets: SumFunctionOnSet. *)

Sigma(f, S) == SumFunctionOnSet(f, S)

\* The element that the fold takes first, and one round of it.
First(s) == CHOOSE x \in s : TRUE
Round(f, g, s) == IF s = {} THEN 0 ELSE f[First(s)] + g[s \ {First(s)}]

\* The sets of at most n elements of S.
UpTo(S, n) == {s \in SUBSET S : Cardinality(s) <= n}

\* g satisfies the recursion of the fold on the sets in D.
FoldsOn(f, D, g) == g = [s \in D |-> Round(f, g, s)]

\* The fold is the function that the recursion defines.
LEMMA SigmaDef ==
  ASSUME NEW f, NEW S
  PROVE  Sigma(f, S) = (CHOOSE g : FoldsOn(f, SUBSET S, g))[S]
BY DEF Sigma, SumFunctionOnSet, FoldFunctionOnSet, MapThenFoldSet, FoldsOn, Round, First

\* There is a function that satisfies the recursion on the sets of at most n elements.
LEMMA FoldsUpTo ==
  ASSUME NEW f, NEW S, IsFiniteSet(S), NEW n \in Nat
  PROVE  \E g : FoldsOn(f, UpTo(S, n), g)
<1> DEFINE T == {m \in Nat : \E g : FoldsOn(f, UpTo(S, m), g)}
<1>f. \A s \in SUBSET S : IsFiniteSet(s) /\ Cardinality(s) \in Nat
  BY SubsetCard
<1>1. 0 \in T
  <2> DEFINE g == [s \in UpTo(S, 0) |-> 0]
  <2>1. \A s \in UpTo(S, 0) : s = {}
    BY <1>f, FS_EmptySet DEF UpTo
  <2>2. g = [s \in UpTo(S, 0) |-> Round(f, g, s)]
    BY <2>1 DEF Round
  <2> QED
    BY <2>2 DEF FoldsOn
<1>2. ASSUME NEW m \in Nat, m \in T PROVE m + 1 \in T
  <2>1. PICK g : FoldsOn(f, UpTo(S, m), g)
    BY <1>2
  <2> DEFINE h == [s \in UpTo(S, m + 1) |-> Round(f, g, s)]
  <2>2. ASSUME NEW s \in UpTo(S, m + 1), s # {}
        PROVE  s \ {First(s)} \in UpTo(S, m) /\ s \ {First(s)} \in UpTo(S, m + 1)
    <3>1. First(s) \in s
      BY <2>2 DEF First
    <3>2. s \in SUBSET S /\ Cardinality(s) <= m + 1 /\ IsFiniteSet(s)
      BY <1>f DEF UpTo
    <3> DEFINE t == s \ {First(s)}
    <3>3. Cardinality(s) = Cardinality(t) + 1 /\ Cardinality(t) \in Nat /\ Cardinality(s) \in Nat
      BY <3>1, <3>2, RemoveOne
    <3>4. t \in SUBSET S
      BY <3>2
    <3> HIDE DEF t
    <3>5. Cardinality(t) <= m /\ Cardinality(t) <= m + 1
      BY <3>2, <3>3
    <3>6. t \in UpTo(S, m) /\ t \in UpTo(S, m + 1)
      BY <3>4, <3>5 DEF UpTo
    <3> QED
      BY <3>6 DEF t
  <2>3. \A s \in UpTo(S, m) : g[s] = Round(f, g, s)
    BY <2>1 DEF FoldsOn
  <2>4. \A s \in UpTo(S, m) : s \in UpTo(S, m + 1) => h[s] = g[s]
    BY <2>3
  <2>5. ASSUME NEW s \in UpTo(S, m + 1) PROVE Round(f, g, s) = Round(f, h, s)
    <3>1. CASE s = {}
      BY <3>1 DEF Round
    <3>2. CASE s # {}
      <4>1. h[s \ {First(s)}] = g[s \ {First(s)}]
        BY <2>2, <2>4, <3>2
      <4> QED
        BY <3>2, <4>1 DEF Round
    <3> QED
      BY <3>1, <3>2
  <2>6. h = [s \in UpTo(S, m + 1) |-> Round(f, h, s)]
    BY <2>5
  <2> HIDE DEF h
  <2>7. FoldsOn(f, UpTo(S, m + 1), h)
    BY <2>6 DEF FoldsOn
  <2> QED
    BY <2>7
<1>3. Nat \subseteq T
  <2> HIDE DEF T
  <2> QED
    BY <1>1, <1>2, NatInductionBySet
<1> QED
  BY <1>3

\* The recursion holds of the sum on all subsets of a finite set.
LEMMA FoldsExists ==
  ASSUME NEW f, NEW S, IsFiniteSet(S)
  PROVE  \E g : FoldsOn(f, SUBSET S, g)
<1>1. Cardinality(S) \in Nat
  BY FS_CardinalityType
<1>2. UpTo(S, Cardinality(S)) = SUBSET S
  BY SubsetCard DEF UpTo
<1>3. \E g : FoldsOn(f, UpTo(S, Cardinality(S)), g)
  BY <1>1, FoldsUpTo
<1> QED
  BY <1>2, <1>3

\* On the subsets of both, folds over two sets agree.
LEMMA FoldsAgree ==
  ASSUME NEW f, NEW S, NEW T, NEW g, NEW h,
         IsFiniteSet(S), T \in SUBSET S, FoldsOn(f, SUBSET S, g), FoldsOn(f, SUBSET T, h)
  PROVE  \A s \in SUBSET T : g[s] = h[s]
<1> DEFINE N == {n \in Nat : \A s \in SUBSET T : Cardinality(s) = n => g[s] = h[s]}
<1>f. \A s \in SUBSET T : IsFiniteSet(s) /\ Cardinality(s) \in Nat
  BY SubsetCard
<1>g. \A s \in SUBSET T : g[s] = Round(f, g, s) /\ h[s] = Round(f, h, s)
  <2>1. \A s \in SUBSET S : g[s] = Round(f, g, s)
    BY DEF FoldsOn
  <2>2. \A s \in SUBSET T : h[s] = Round(f, h, s)
    BY DEF FoldsOn
  <2> QED
    BY <2>1, <2>2
<1>1. 0 \in N
  <2>1. \A s \in SUBSET T : Cardinality(s) = 0 => s = {}
    BY <1>f, FS_EmptySet
  <2> QED
    BY <1>g, <2>1 DEF Round
<1>2. ASSUME NEW n \in Nat, n \in N PROVE n + 1 \in N
  <2> SUFFICES ASSUME NEW s \in SUBSET T, Cardinality(s) = n + 1 PROVE g[s] = h[s]
    OBVIOUS
  <2>1. s # {}
    BY <1>f, FS_EmptySet
  <2>2. First(s) \in s
    BY <2>1 DEF First
  <2> DEFINE t == s \ {First(s)}
  <2>3. t \in SUBSET T /\ Cardinality(t) \in Nat /\ Cardinality(s) = Cardinality(t) + 1
    BY <1>f, <2>2, RemoveOne
  <2>4. g[t] = h[t]
    <3> HIDE DEF t
    <3>1. Cardinality(t) = n
      BY <2>3
    <3> QED
      BY <1>2, <2>3, <3>1
  <2> QED
    BY <1>g, <2>1, <2>4 DEF Round
<1>3. Nat \subseteq N
  <2> HIDE DEF N
  <2> QED
    BY <1>1, <1>2, NatInductionBySet
<1> QED
  BY <1>f, <1>3

\* The recursion of the sum.
LEMMA SigmaRound ==
  ASSUME NEW f, NEW S, IsFiniteSet(S)
  PROVE  /\ Sigma(f, {}) = 0
         /\ S # {} => First(S) \in S /\ Sigma(f, S) = f[First(S)] + Sigma(f, S \ {First(S)})
<1>1. ASSUME NEW T, IsFiniteSet(T)
      PROVE  \E g : FoldsOn(f, SUBSET T, g) /\ Sigma(f, T) = g[T]
  <2> DEFINE G == CHOOSE g : FoldsOn(f, SUBSET T, g)
  <2>1. FoldsOn(f, SUBSET T, G)
    BY <1>1, FoldsExists
  <2>2. Sigma(f, T) = G[T]
    BY SigmaDef
  <2> HIDE DEF G
  <2> QED
    BY <2>1, <2>2
<1>2. Sigma(f, {}) = 0
  <2>1. PICK g : FoldsOn(f, SUBSET {}, g) /\ Sigma(f, {}) = g[{}]
    BY <1>1, FS_EmptySet
  <2>2. g[{}] = Round(f, g, {})
    BY <2>1 DEF FoldsOn
  <2> QED
    BY <2>1, <2>2 DEF Round
<1>3. ASSUME S # {}
      PROVE  First(S) \in S /\ Sigma(f, S) = f[First(S)] + Sigma(f, S \ {First(S)})
  <2>1. First(S) \in S
    BY <1>3 DEF First
  <2> DEFINE T == S \ {First(S)}
  <2>2. IsFiniteSet(T) /\ T \in SUBSET S
    BY <2>1, RemoveOne
  <2>3. PICK g : FoldsOn(f, SUBSET S, g) /\ Sigma(f, S) = g[S]
    BY <1>1
  <2>4. PICK h : FoldsOn(f, SUBSET T, h) /\ Sigma(f, T) = h[T]
    BY <1>1, <2>2
  <2>5. g[T] = h[T]
    <3> HIDE DEF T
    <3>1. IsFiniteSet(S) /\ T \in SUBSET S /\ FoldsOn(f, SUBSET S, g) /\ FoldsOn(f, SUBSET T, h)
      BY <2>2, <2>3, <2>4
    <3>2. T \in SUBSET T
      OBVIOUS
    <3> QED
      BY <3>1, <3>2, FoldsAgree
  <2>6. g[S] = Round(f, g, S)
    BY <2>3 DEF FoldsOn
  <2> QED
    BY <1>3, <2>1, <2>3, <2>4, <2>5, <2>6 DEF Round
<1> QED
  BY <1>2, <1>3

\* A sum of integers is an integer.
LEMMA SigmaInt ==
  ASSUME NEW f, NEW S, IsFiniteSet(S), \A y \in S : f[y] \in Int
  PROVE  Sigma(f, S) \in Int
<1> DEFINE N == {n \in Nat : \A T \in SUBSET S : Cardinality(T) = n => Sigma(f, T) \in Int}
<1>f. \A T \in SUBSET S : IsFiniteSet(T) /\ Cardinality(T) \in Nat
  BY SubsetCard
<1>1. 0 \in N
  <2>1. \A T \in SUBSET S : Cardinality(T) = 0 => T = {}
    BY <1>f, FS_EmptySet
  <2>2. Sigma(f, {}) = 0
    BY SigmaRound
  <2> QED
    BY <2>1, <2>2
<1>2. ASSUME NEW n \in Nat, n \in N PROVE n + 1 \in N
  <2> SUFFICES ASSUME NEW T \in SUBSET S, Cardinality(T) = n + 1
               PROVE  Sigma(f, T) \in Int
    OBVIOUS
  <2> DEFINE c == First(T)
             U == T \ {c}
  <2>1. T # {}
    BY <1>f, FS_EmptySet
  <2>2. c \in T /\ Sigma(f, T) = f[c] + Sigma(f, U)
    BY <1>f, <2>1, SigmaRound
  <2> HIDE DEF c
  <2>3. U \in SUBSET S /\ Cardinality(U) = n
    <3>1. Cardinality(T) = Cardinality(U) + 1 /\ Cardinality(U) \in Nat
      BY <1>f, <2>2, RemoveOne
    <3> QED
      BY <3>1
  <2>4. Sigma(f, U) \in Int
    <3> HIDE DEF U
    <3> QED
      BY <1>2, <2>3
  <2>5. f[c] \in Int
    BY <2>2
  <2> HIDE DEF U
  <2> QED
    BY <2>2, <2>4, <2>5
<1>3. Nat \subseteq N
  <2> HIDE DEF N
  <2> QED
    BY <1>1, <1>2, NatInductionBySet
<1> QED
  BY <1>f, <1>3

\* The sum over the empty set, and the sum with any element taken out.
LEMMA SigmaRemove ==
  ASSUME NEW f, NEW S, IsFiniteSet(S), \A y \in S : f[y] \in Int
  PROVE  /\ Sigma(f, {}) = 0
         /\ \A x \in S : Sigma(f, S) = f[x] + Sigma(f, S \ {x})
<1> DEFINE N == {n \in Nat : \A T \in SUBSET S : Cardinality(T) = n =>
                   \A x \in T : Sigma(f, T) = f[x] + Sigma(f, T \ {x})}
<1>0. Sigma(f, {}) = 0
  BY SigmaRound
<1>f. \A T \in SUBSET S : IsFiniteSet(T) /\ Cardinality(T) \in Nat
  BY SubsetCard
<1>i. \A T \in SUBSET S : Sigma(f, T) \in Int
  BY <1>f, SigmaInt
<1>1. 0 \in N
  <2>1. \A T \in SUBSET S : Cardinality(T) = 0 => T = {}
    BY <1>f, FS_EmptySet
  <2> QED
    BY <2>1
<1>2. ASSUME NEW n \in Nat, n \in N PROVE n + 1 \in N
  <2> SUFFICES ASSUME NEW T \in SUBSET S, Cardinality(T) = n + 1, NEW x \in T
               PROVE  Sigma(f, T) = f[x] + Sigma(f, T \ {x})
    OBVIOUS
  <2> DEFINE c == First(T)
             U == T \ {c}
             V == T \ {x}
  <2>1. T # {}
    OBVIOUS
  <2>2. c \in T /\ Sigma(f, T) = f[c] + Sigma(f, U)
    BY <1>f, <2>1, SigmaRound
  <2>c. \A y \in T : T \ {y} \in SUBSET S /\ Cardinality(T \ {y}) = n
    <3> TAKE y \in T
    <3>1. Cardinality(T) = Cardinality(T \ {y}) + 1 /\ Cardinality(T \ {y}) \in Nat
      BY <1>f, RemoveOne
    <3> QED
      BY <3>1
  <2> HIDE DEF c
  <2>3. CASE x = c
    BY <2>2, <2>3
  <2>4. CASE x # c
    <3>1. V \in SUBSET S /\ Cardinality(V) = n /\ c \in V
      BY <2>2, <2>c, <2>4
    <3>2. U \in SUBSET S /\ Cardinality(U) = n /\ x \in U
      BY <2>2, <2>c, <2>4
    <3>3. V \ {c} = U \ {x} /\ U \ {x} \in SUBSET S /\ f[x] \in Int /\ f[c] \in Int
      BY <2>2, <3>2
    <3>a. Sigma(f, T) = f[c] + Sigma(f, U)
      BY <2>2
    <3> HIDE DEF V, U
    <3>4. Sigma(f, V) = f[c] + Sigma(f, V \ {c})
      BY <1>2, <3>1
    <3>5. Sigma(f, U) = f[x] + Sigma(f, U \ {x})
      BY <1>2, <3>2
    <3>6. Sigma(f, U \ {x}) \in Int
      BY <1>i, <3>3
    <3> DEFINE rest == Sigma(f, U \ {x})
    <3>7. /\ Sigma(f, V) = f[c] + rest /\ Sigma(f, T) = f[c] + (f[x] + rest)
          /\ rest \in Int /\ f[x] \in Int /\ f[c] \in Int
      BY <3>a, <3>3, <3>4, <3>5, <3>6, Zenon
    <3> HIDE DEF rest
    <3>8. f[c] + (f[x] + rest) = f[x] + (f[c] + rest)
      BY <3>7
    <3>9. Sigma(f, T) = f[x] + Sigma(f, V)
      BY <3>7, <3>8, Zenon
    <3> QED
      BY <3>9 DEF V
  <2> QED
    BY <2>3, <2>4
<1>3. Nat \subseteq N
  <2> HIDE DEF N
  <2> QED
    BY <1>1, <1>2, NatInductionBySet
<1>4. S \in SUBSET S /\ Cardinality(S) \in N
  BY <1>f, <1>3
<1> QED
  BY <1>0, <1>4

\* Induction over a finite set: what holds of {} and is kept by adding an element holds
\* of the set.
LEMMA FiniteInduction ==
  ASSUME NEW S, NEW P, IsFiniteSet(S), {} \in P,
         \A T \in SUBSET S : \A x \in S : T \in P /\ x \notin T => T \cup {x} \in P
  PROVE  S \in P
<1> DEFINE N == {n \in Nat : \A T \in SUBSET S : Cardinality(T) = n => T \in P}
<1>f. \A T \in SUBSET S : IsFiniteSet(T) /\ Cardinality(T) \in Nat
  BY SubsetCard
<1>1. 0 \in N
  <2>1. \A T \in SUBSET S : Cardinality(T) = 0 => T = {}
    BY <1>f, FS_EmptySet
  <2> QED
    BY <2>1
<1>2. ASSUME NEW n \in Nat, n \in N PROVE n + 1 \in N
  <2> SUFFICES ASSUME NEW T \in SUBSET S, Cardinality(T) = n + 1 PROVE T \in P
    OBVIOUS
  <2>1. T # {}
    BY <1>f, FS_EmptySet
  <2>2. PICK x \in T : TRUE
    BY <2>1
  <2> DEFINE U == T \ {x}
  <2>3. Cardinality(T) = Cardinality(U) + 1 /\ Cardinality(U) \in Nat
    BY <1>f, RemoveOne
  <2>4. U \in SUBSET S /\ x \in S /\ x \notin U /\ T = U \cup {x}
    OBVIOUS
  <2> HIDE DEF U
  <2>5. U \in P
    BY <1>2, <2>3, <2>4
  <2> QED
    BY <2>4, <2>5
<1>3. Nat \subseteq N
  <2> HIDE DEF N
  <2> QED
    BY <1>1, <1>2, NatInductionBySet
<1>4. Cardinality(S) \in N /\ S \in SUBSET S
  BY <1>f, <1>3
<1> QED
  BY <1>4

\* The sum over the empty set, and the sum with an element added.
LEMMA SigmaAdd ==
  ASSUME NEW f, NEW S, NEW x, IsFiniteSet(S), x \notin S, \A y \in S \cup {x} : f[y] \in Int
  PROVE  /\ Sigma(f, S \cup {x}) = f[x] + Sigma(f, S)
         /\ Sigma(f, S) \in Int /\ f[x] \in Int
<1> DEFINE T == S \cup {x}
<1>1. IsFiniteSet(T) /\ x \in T /\ T \ {x} = S
  BY FS_AddElement
<1>2. \A y \in T : f[y] \in Int
  OBVIOUS
<1> HIDE DEF T
<1>3. Sigma(f, T) = f[x] + Sigma(f, T \ {x})
  BY <1>1, <1>2, SigmaRemove
<1>4. Sigma(f, S) \in Int
  BY SigmaInt
<1> QED
  BY <1>1, <1>3, <1>4 DEF T

\* The sum over the empty set.
LEMMA SigmaEmpty ==
  ASSUME NEW f
  PROVE  Sigma(f, {}) = 0
BY SigmaRound, FS_EmptySet

\* A sum of naturals is at least each of them.
LEMMA SigmaNat ==
  ASSUME NEW f, NEW S, IsFiniteSet(S), \A y \in S : f[y] \in Nat
  PROVE  Sigma(f, S) \in Nat /\ \A x \in S : f[x] <= Sigma(f, S)
<1> DEFINE P == {T \in SUBSET S : Sigma(f, T) \in Nat}
<1>1. {} \in P
  BY SigmaEmpty
<1>2. ASSUME NEW T \in SUBSET S, NEW x \in S, T \in P, x \notin T PROVE T \cup {x} \in P
  <2>1. IsFiniteSet(T) /\ \A y \in T \cup {x} : f[y] \in Int
    BY SubsetCard
  <2>2. Sigma(f, T \cup {x}) = f[x] + Sigma(f, T)
    BY <1>2, <2>1, SigmaAdd
  <2>3. Sigma(f, T \cup {x}) \in Nat
    BY <1>2, <2>2
  <2> QED
    BY <2>3
<1>3. \A T \in SUBSET S : Sigma(f, T) \in Nat
  <2> SUFFICES ASSUME NEW T \in SUBSET S PROVE Sigma(f, T) \in Nat
    OBVIOUS
  <2> DEFINE Q == {U \in SUBSET T : U \in P}
  <2>1. {} \in Q
    BY <1>1
  <2>2. \A U \in SUBSET T : \A x \in T : U \in Q /\ x \notin U => U \cup {x} \in Q
    BY <1>2
  <2>3. IsFiniteSet(T)
    BY SubsetCard
  <2> HIDE DEF Q
  <2>4. T \in Q
    BY <2>1, <2>2, <2>3, FiniteInduction
  <2> QED
    BY <2>4 DEF Q
<1>4. ASSUME NEW x \in S PROVE f[x] <= Sigma(f, S)
  <2>1. Sigma(f, S) = f[x] + Sigma(f, S \ {x})
    BY SigmaRemove
  <2>2. Sigma(f, S \ {x}) \in Nat /\ f[x] \in Nat
    BY <1>3
  <2> QED
    BY <2>1, <2>2
<1> QED
  BY <1>3, <1>4

\* The sum over two disjoint sets.
LEMMA SigmaUnion ==
  ASSUME NEW f, NEW S, NEW R, IsFiniteSet(S), IsFiniteSet(R), S \cap R = {},
         \A y \in S \cup R : f[y] \in Int
  PROVE  Sigma(f, S \cup R) = Sigma(f, S) + Sigma(f, R)
<1> DEFINE P == {T \in SUBSET R : Sigma(f, S \cup T) = Sigma(f, S) + Sigma(f, T)}
<1>0. Sigma(f, S) \in Int
  BY SigmaInt
<1>1. {} \in P
  BY <1>0, SigmaEmpty
<1>2. ASSUME NEW T \in SUBSET R, NEW x \in R, T \in P, x \notin T PROVE T \cup {x} \in P
  <2> DEFINE A == S \cup T
  <2>1. IsFiniteSet(T) /\ IsFiniteSet(A) /\ x \notin A
    BY <1>2, SubsetCard, FS_Union
  <2>2. (\A y \in T \cup {x} : f[y] \in Int) /\ (\A y \in A \cup {x} : f[y] \in Int)
    OBVIOUS
  <2>3. Sigma(f, T \cup {x}) = f[x] + Sigma(f, T) /\ Sigma(f, T) \in Int /\ f[x] \in Int
    BY <1>2, <2>1, <2>2, SigmaAdd
  <2>4. A \cup {x} = S \cup (T \cup {x})
    OBVIOUS
  <2>5. Sigma(f, A) = Sigma(f, S) + Sigma(f, T)
    BY <1>2
  <2> HIDE DEF A
  <2>6. Sigma(f, A \cup {x}) = f[x] + Sigma(f, A)
    BY <2>1, <2>2, SigmaAdd
  <2> DEFINE a == Sigma(f, S)
             b == Sigma(f, T)
             c == f[x]
  <2>7. c + (a + b) = a + (c + b)
    <3>1. a \in Int /\ b \in Int /\ c \in Int
      BY <1>0, <2>3
    <3> HIDE DEF a, b, c
    <3> QED
      BY <3>1
  <2>8. Sigma(f, S \cup (T \cup {x})) = Sigma(f, S) + Sigma(f, T \cup {x})
    BY <2>3, <2>4, <2>5, <2>6, <2>7, Zenon
  <2>9. T \cup {x} \in SUBSET R
    OBVIOUS
  <2> QED
    BY <2>8, <2>9
<1>3. R \in P
  <2> HIDE DEF P
  <2> QED
    BY <1>1, <1>2, FiniteInduction
<1> QED
  BY <1>3

\* A bound on each term, up to factors, is a bound on the sum.
LEMMA SigmaScaled ==
  ASSUME NEW f, NEW g, NEW S, NEW a \in Int, NEW b \in Int, IsFiniteSet(S),
         \A y \in S : f[y] \in Int /\ g[y] \in Int /\ a * f[y] <= b * g[y]
  PROVE  a * Sigma(f, S) <= b * Sigma(g, S)
<1> DEFINE P == {T \in SUBSET S : a * Sigma(f, T) <= b * Sigma(g, T)}
<1>1. {} \in P
  <2>1. a * 0 <= b * 0
    OBVIOUS
  <2> QED
    BY <2>1, SigmaEmpty
<1>2. ASSUME NEW T \in SUBSET S, NEW x \in S, T \in P, x \notin T PROVE T \cup {x} \in P
  <2>1. IsFiniteSet(T) /\ (\A y \in T \cup {x} : f[y] \in Int) /\ (\A y \in T \cup {x} : g[y] \in Int)
    BY SubsetCard
  <2>2. Sigma(f, T \cup {x}) = f[x] + Sigma(f, T) /\ Sigma(f, T) \in Int /\ f[x] \in Int
    BY <1>2, <2>1, SigmaAdd
  <2>3. Sigma(g, T \cup {x}) = g[x] + Sigma(g, T) /\ Sigma(g, T) \in Int /\ g[x] \in Int
    BY <1>2, <2>1, SigmaAdd
  <2>4. a * f[x] <= b * g[x] /\ a * Sigma(f, T) <= b * Sigma(g, T)
    BY <1>2
  <2> DEFINE F == Sigma(f, T)
             G == Sigma(g, T)
             u == f[x]
             v == g[x]
  <2>5. a * (u + F) <= b * (v + G)
    <3>1. F \in Int /\ G \in Int /\ u \in Int /\ v \in Int /\ a * u <= b * v /\ a * F <= b * G
      BY <2>2, <2>3, <2>4
    <3> HIDE DEF F, G, u, v
    <3>2. a * (u + F) = a * u + a * F /\ b * (v + G) = b * v + b * G
      BY <3>1
    <3>3. a * u \in Int /\ a * F \in Int /\ b * v \in Int /\ b * G \in Int
      BY <3>1
    <3> QED
      BY <3>1, <3>2, <3>3
  <2>6. a * Sigma(f, T \cup {x}) <= b * Sigma(g, T \cup {x})
    BY <2>2, <2>3, <2>5, Zenon
  <2> QED
    BY <2>6
<1>3. S \in P
  <2> HIDE DEF P
  <2> QED
    BY <1>1, <1>2, FiniteInduction
<1> QED
  BY <1>3

\* Functions that agree on a set have the same sum over it.
LEMMA SigmaEqual ==
  ASSUME NEW f, NEW g, NEW S, IsFiniteSet(S), \A y \in S : f[y] \in Int /\ f[y] = g[y]
  PROVE  Sigma(f, S) = Sigma(g, S)
<1>1. Sigma(f, S) \in Int /\ Sigma(g, S) \in Int
  BY SigmaInt
<1>2. \A y \in S : f[y] \in Int /\ g[y] \in Int /\ 1 * f[y] <= 1 * g[y]
  OBVIOUS
<1>3. \A y \in S : f[y] \in Int /\ g[y] \in Int /\ 1 * g[y] <= 1 * f[y]
  OBVIOUS
<1>4. 1 * Sigma(f, S) <= 1 * Sigma(g, S)
  BY <1>2, SigmaScaled
<1>5. 1 * Sigma(g, S) <= 1 * Sigma(f, S)
  BY <1>3, SigmaScaled
<1> QED
  BY <1>1, <1>4, <1>5

\* q names every element of I once, and h has the values of f under the new names.
Renamed(f, q, h, D, I) ==
  /\ \A d \in D : f[q[d]] \in Int /\ h[d] = f[q[d]]
  /\ \A d, e \in D : q[d] = q[e] => d = e
  /\ \A y : y \in I <=> \E d \in D : y = q[d]

\* A sum may be taken over the indices of its terms.
LEMMA SigmaImage ==
  ASSUME NEW f, NEW q, NEW h, NEW D, NEW I, IsFiniteSet(D), Renamed(f, q, h, D, I)
  PROVE  Sigma(h, D) = Sigma(f, I)
<1>0. /\ \A d \in D : f[q[d]] \in Int /\ h[d] = f[q[d]]
      /\ \A d, e \in D : q[d] = q[e] => d = e
      /\ \A y : y \in I <=> \E d \in D : y = q[d]
  BY DEF Renamed
<1> DEFINE Im(T) == {q[d] : d \in T}
           P == {T \in SUBSET D : IsFiniteSet(Im(T)) /\ Sigma(h, T) = Sigma(f, Im(T))}
<1>1. {} \in P
  <2>1. Im({}) = {}
    OBVIOUS
  <2> QED
    BY <2>1, SigmaEmpty, FS_EmptySet
<1>2. ASSUME NEW T \in SUBSET D, NEW x \in D, T \in P, x \notin T PROVE T \cup {x} \in P
  <2>1. IsFiniteSet(T) /\ \A y \in T \cup {x} : h[y] \in Int
    BY <1>0, SubsetCard
  <2>2. Sigma(h, T \cup {x}) = h[x] + Sigma(h, T)
    BY <1>2, <2>1, SigmaAdd
  <2>3. Im(T \cup {x}) = Im(T) \cup {q[x]} /\ q[x] \notin Im(T)
    BY <1>0, <1>2
  <2>4. \A y \in Im(T) \cup {q[x]} : f[y] \in Int
    BY <1>0
  <2>5. IsFiniteSet(Im(T)) /\ Sigma(h, T) = Sigma(f, Im(T)) /\ h[x] = f[q[x]]
    BY <1>0, <1>2
  <2> DEFINE J == Im(T)
             z == q[x]
  <2>6. IsFiniteSet(J \cup {z}) /\ Sigma(f, J \cup {z}) = f[z] + Sigma(f, J)
    <3>1. IsFiniteSet(J) /\ z \notin J /\ \A y \in J \cup {z} : f[y] \in Int
      BY <2>3, <2>4, <2>5
    <3> HIDE DEF J, z
    <3> QED
      BY <3>1, SigmaAdd, FS_AddElement
  <2>7. IsFiniteSet(Im(T \cup {x})) /\ Sigma(h, T \cup {x}) = Sigma(f, Im(T \cup {x}))
    <3> HIDE DEF Im
    <3> QED
      BY <2>2, <2>3, <2>5, <2>6
  <2> QED
    BY <2>7
<1>3. D \in P
  <2> HIDE DEF P
  <2> QED
    BY <1>1, <1>2, FiniteInduction
<1>4. Sigma(h, D) = Sigma(f, Im(D)) /\ Im(D) = I
  BY <1>0, <1>3
<1> QED
  BY <1>4

\* A bound on each term bounds the sum by the number of terms.
LEMMA SigmaBound ==
  ASSUME NEW f, NEW S, NEW c \in Int, IsFiniteSet(S), \A y \in S : f[y] \in Int /\ f[y] <= c
  PROVE  Sigma(f, S) <= Cardinality(S) * c
<1> DEFINE P == {T \in SUBSET S : Sigma(f, T) <= Cardinality(T) * c}
<1>1. {} \in P
  <2>1. 0 <= 0 * c
    OBVIOUS
  <2> QED
    BY <2>1, SigmaEmpty, FS_EmptySet
<1>2. ASSUME NEW T \in SUBSET S, NEW x \in S, T \in P, x \notin T PROVE T \cup {x} \in P
  <2>1. IsFiniteSet(T) /\ Cardinality(T) \in Nat /\ \A y \in T \cup {x} : f[y] \in Int
    BY SubsetCard
  <2>2. Sigma(f, T \cup {x}) = f[x] + Sigma(f, T) /\ Sigma(f, T) \in Int /\ f[x] \in Int
    BY <1>2, <2>1, SigmaAdd
  <2>3. Cardinality(T \cup {x}) = Cardinality(T) + 1
    BY <1>2, <2>1, FS_AddElement
  <2> DEFINE n == Cardinality(T)
             F == Sigma(f, T)
             u == f[x]
  <2>4. u + F <= (n + 1) * c
    <3>1. n \in Nat /\ F \in Int /\ u \in Int /\ u <= c /\ F <= n * c
      BY <1>2, <2>1, <2>2
    <3> HIDE DEF n, F, u
    <3>2. (n + 1) * c = n * c + c /\ n * c \in Int
      BY <3>1
    <3> QED
      BY <3>1, <3>2
  <2>5. Sigma(f, T \cup {x}) <= Cardinality(T \cup {x}) * c
    BY <2>2, <2>3, <2>4, Zenon
  <2> QED
    BY <2>5
<1>3. S \in P
  <2> HIDE DEF P
  <2> QED
    BY <1>1, <1>2, FiniteInduction
<1> QED
  BY <1>3

\* If the sum over each of k disjoint parts is at least c, the sum over all is at least k * c.
LEMMA SigmaParts ==
  ASSUME NEW f, NEW k \in Nat, NEW c \in Int, NEW P, NEW V,
         \A i \in 1..k : IsFiniteSet(P[i]) /\ c <= Sigma(f, P[i]),
         \A i \in 1..k : \A y \in P[i] : f[y] \in Int,
         \A i, j \in 1..k : i # j => P[i] \cap P[j] = {},
         \A y : y \in V <=> \E i \in 1..k : y \in P[i]
  PROVE  k * c <= Sigma(f, V)
<1>0. V = UNION {P[i] : i \in 1..k}
  OBVIOUS
<1> DEFINE U(n) == UNION {P[i] : i \in 1..n}
           T == {n \in Nat : n <= k => IsFiniteSet(U(n)) /\ n * c <= Sigma(f, U(n))}
<1>1. 0 \in T
  <2>1. U(0) = {}
    OBVIOUS
  <2>2. 0 * c <= 0
    OBVIOUS
  <2> QED
    BY <2>1, <2>2, SigmaEmpty, FS_EmptySet
<1>2. ASSUME NEW n \in Nat, n \in T PROVE n + 1 \in T
  <2> SUFFICES ASSUME n + 1 <= k PROVE IsFiniteSet(U(n + 1)) /\ (n + 1) * c <= Sigma(f, U(n + 1))
    OBVIOUS
  <2>1. n + 1 \in 1..k /\ n <= k /\ 1..(n + 1) = 1..n \cup {n + 1} /\ 1..n \subseteq 1..k /\ n + 1 \notin 1..n
    OBVIOUS
  <2> DEFINE A == U(n)
             B == P[n + 1]
  <2>2. U(n + 1) = A \cup B
    BY <2>1
  <2>3. A \cap B = {}
    BY <2>1
  <2>4. \A y \in A \cup B : f[y] \in Int
    BY <2>1
  <2>5. IsFiniteSet(A) /\ n * c <= Sigma(f, A)
    BY <1>2, <2>1
  <2>6. IsFiniteSet(B) /\ c <= Sigma(f, B)
    BY <2>1
  <2> HIDE DEF A, B
  <2>7. IsFiniteSet(A \cup B) /\ Sigma(f, A \cup B) = Sigma(f, A) + Sigma(f, B)
    BY <2>3, <2>4, <2>5, <2>6, SigmaUnion, FS_Union
  <2>8. Sigma(f, A) \in Int /\ Sigma(f, B) \in Int
    BY <2>4, <2>5, <2>6, SigmaInt
  <2>9. (n + 1) * c = n * c + c /\ n * c \in Int
    OBVIOUS
  <2>10. (n + 1) * c <= Sigma(f, A) + Sigma(f, B)
    BY <2>5, <2>6, <2>8, <2>9
  <2> QED
    BY <2>2, <2>7, <2>10
<1>3. Nat \subseteq T
  <2> HIDE DEF T
  <2> QED
    BY <1>1, <1>2, NatInductionBySet
<1>4. k * c <= Sigma(f, U(k)) /\ U(k) = V
  BY <1>0, <1>3
<1> HIDE DEF U
<1> QED
  BY <1>4

-----------------------------------------------------------------------------
(* Maxima. *)

\* A non-empty finite set of naturals has a largest element.
LEMMA LargestNat ==
  ASSUME NEW S, IsFiniteSet(S), S # {}, S \subseteq Nat
  PROVE  \E m \in S : \A n \in S : n <= m
<1> DEFINE P == {T \in SUBSET S : T # {} => \E m \in T : \A n \in T : n <= m}
<1>1. {} \in P
  OBVIOUS
<1>2. ASSUME NEW T \in SUBSET S, NEW x \in S, T \in P, x \notin T PROVE T \cup {x} \in P
  <2> SUFFICES \E m \in T \cup {x} : \A n \in T \cup {x} : n <= m
    OBVIOUS
  <2>1. CASE T = {}
    <3>1. x \in Nat
      OBVIOUS
    <3> QED
      BY <2>1, <3>1
  <2>2. CASE T # {}
    <3>1. PICK m \in T : \A n \in T : n <= m
      BY <1>2, <2>2
    <3>2. m \in Nat /\ x \in Nat /\ \A n \in T : n \in Nat
      OBVIOUS
    <3>3. CASE x <= m
      BY <3>1, <3>3
    <3>4. CASE m <= x
      <4>1. \A n \in T : n <= x
        BY <3>1, <3>2, <3>4
      <4> QED
        BY <3>2, <4>1
    <3> QED
      BY <3>2, <3>3, <3>4
  <2> QED
    BY <2>1, <2>2
<1>3. S \in P
  <2> HIDE DEF P
  <2> QED
    BY <1>1, <1>2, FiniteInduction
<1> QED
  BY <1>3

-----------------------------------------------------------------------------
(* The concatenation of a sequence of sequences: FlattenSeq. *)

\* G[i] is the concatenation of the first i parts.
Concats(F, G) == \A i \in 1..Len(F) : G[i] = IF i = 1 THEN F[1] ELSE G[i - 1] \o F[i]

\* The concatenations of the first parts exist, and FlattenSeq is the last of them.
LEMMA FlattenConcats ==
  ASSUME NEW X, NEW F \in Seq(X), F # <<>>
  PROVE  \E G : Concats(F, G) /\ FlattenSeq(F) = G[Len(F)]
<1> DEFINE Term(g, i) == IF i = 1 THEN F[i] ELSE g[i - 1] \o F[i]
           Rec(n, g) == g = [i \in 1..n |-> Term(g, i)]
           T == {n \in Nat : \E g : Rec(n, g)}
<1>1. 0 \in T
  <2> DEFINE g == [i \in 1..0 |-> 0]
  <2>1. g = [i \in 1..0 |-> Term(g, i)]
    OBVIOUS
  <2> QED
    BY <2>1
<1>2. ASSUME NEW n \in Nat, n \in T PROVE n + 1 \in T
  <2>1. PICK g : Rec(n, g)
    BY <1>2
  <2> DEFINE h == [i \in 1..(n + 1) |-> Term(g, i)]
  <2>2. \A i \in 1..n : g[i] = Term(g, i) /\ h[i] = g[i]
    <3>1. \A i \in 1..n : g[i] = Term(g, i)
      BY <2>1
    <3> HIDE DEF Term
    <3>2. \A i \in 1..n : h[i] = Term(g, i)
      OBVIOUS
    <3> QED
      BY <3>1, <3>2
  <2>3. \A i \in 1..(n + 1) : i # 1 => i - 1 \in 1..n
    OBVIOUS
  <2>4. \A i \in 1..(n + 1) : Term(g, i) = Term(h, i)
    <3> HIDE DEF h
    <3> QED
      BY <2>2, <2>3
  <2>5. h = [i \in 1..(n + 1) |-> Term(h, i)]
    <3> HIDE DEF Term
    <3> QED
      BY <2>4
  <2> HIDE DEF h, Term
  <2> QED
    BY <2>5
<1>3. Nat \subseteq T
  <2> HIDE DEF T
  <2> QED
    BY <1>1, <1>2, NatInductionBySet
<1>4. Len(F) \in Nat /\ Len(F) # 0
  OBVIOUS
<1>5. \E g : Rec(Len(F), g)
  BY <1>3, <1>4
<1> DEFINE G == CHOOSE g : Rec(Len(F), g)
<1>6. Rec(Len(F), G)
  <2> HIDE DEF Rec
  <2> QED
    BY <1>5
<1>7. FlattenSeq(F) = G[Len(F)]
  BY <1>4 DEF FlattenSeq
<1> HIDE DEF G
<1>8. Concats(F, G)
  <2>1. \A i \in 1..Len(F) : G[i] = Term(G, i)
    <3> HIDE DEF Term
    <3> QED
      BY <1>6
  <2> QED
    BY <2>1 DEF Concats
<1> QED
  BY <1>7, <1>8

\* A sequence with no repetition.
Distinct(s) == \A i, j \in DOMAIN s : s[i] = s[j] => i = j

\* Concatenating two sequences with nothing in common.
LEMMA ConcatDistinct ==
  ASSUME NEW X, NEW s \in Seq(X), NEW t \in Seq(X)
  PROVE  /\ s \o t \in Seq(X) /\ ToSet(s \o t) = ToSet(s) \cup ToSet(t)
         /\ Len(s \o t) = Len(s) + Len(t)
         /\ Distinct(s) /\ Distinct(t) /\ ToSet(s) \cap ToSet(t) = {} => Distinct(s \o t)
<1> DEFINE u == s \o t
<1>1. u \in Seq(X) /\ Len(u) = Len(s) + Len(t) /\ Len(s) \in Nat /\ Len(t) \in Nat
  OBVIOUS
<1>2. DOMAIN s = 1..Len(s) /\ DOMAIN t = 1..Len(t) /\ DOMAIN u = 1..(Len(s) + Len(t))
  BY <1>1
<1>3. \A i \in 1..(Len(s) + Len(t)) : u[i] = IF i <= Len(s) THEN s[i] ELSE t[i - Len(s)]
  OBVIOUS
<1> DEFINE m == Len(s)
           n == Len(t)
<1> HIDE DEF u, m, n
<1>4. m \in Nat /\ n \in Nat /\ DOMAIN s = 1..m /\ DOMAIN t = 1..n /\ DOMAIN u = 1..(m + n)
  BY <1>1, <1>2 DEF m, n
<1>5. \A i \in 1..m : i \in 1..(m + n) /\ u[i] = s[i]
  BY <1>3, <1>4 DEF m, n
<1>6. \A i \in 1..n : m + i \in 1..(m + n) /\ u[m + i] = t[i]
  <2> TAKE i \in 1..n
  <2>1. m + i \in 1..(m + n) /\ ~ (m + i <= m) /\ (m + i) - m = i
    BY <1>4
  <2>2. u[m + i] = t[(m + i) - m]
    BY <1>3, <2>1 DEF m, n
  <2> QED
    BY <2>1, <2>2
<1>7. \A i \in 1..(m + n) : i \in 1..m \/ \E j \in 1..n : i = m + j
  <2> TAKE i \in 1..(m + n)
  <2>1. i \in 1..m \/ (i - m \in 1..n /\ i = m + (i - m))
    BY <1>4
  <2> QED
    BY <2>1
<1>8. ToSet(u) = ToSet(s) \cup ToSet(t)
  <2>1. ASSUME NEW x \in ToSet(u) PROVE x \in ToSet(s) \cup ToSet(t)
    <3>1. PICK i \in 1..(m + n) : x = u[i]
      BY <1>4 DEF ToSet
    <3>2. CASE i \in 1..m
      BY <1>4, <1>5, <3>1, <3>2 DEF ToSet
    <3>3. CASE \E j \in 1..n : i = m + j
      BY <1>4, <1>6, <3>1, <3>3 DEF ToSet
    <3> QED
      BY <1>7, <3>2, <3>3
  <2>2. \A x : x \in ToSet(s) \cup ToSet(t) => x \in ToSet(u)
    BY <1>4, <1>5, <1>6 DEF ToSet
  <2> QED
    BY <2>1, <2>2
<1>9. ASSUME Distinct(s), Distinct(t), ToSet(s) \cap ToSet(t) = {} PROVE Distinct(u)
  <2> SUFFICES ASSUME NEW i \in 1..(m + n), NEW j \in 1..(m + n), u[i] = u[j] PROVE i = j
    BY <1>4 DEF Distinct
  <2>1. \A a \in 1..m : \A b \in 1..n : s[a] # t[b]
    BY <1>4, <1>9 DEF ToSet
  <2>2. CASE i \in 1..m /\ j \in 1..m
    BY <1>4, <1>5, <1>9, <2>2 DEF Distinct
  <2>3. CASE i \in 1..m /\ ~ (j \in 1..m)
    BY <1>5, <1>6, <1>7, <2>1, <2>3
  <2>4. CASE ~ (i \in 1..m) /\ j \in 1..m
    BY <1>5, <1>6, <1>7, <2>1, <2>4
  <2>5. CASE ~ (i \in 1..m) /\ ~ (j \in 1..m)
    <3>1. PICK a \in 1..n : i = m + a
      BY <1>7, <2>5
    <3>2. PICK b \in 1..n : j = m + b
      BY <1>7, <2>5
    <3>3. t[a] = t[b]
      BY <1>6, <3>1, <3>2
    <3> QED
      BY <1>4, <1>9, <3>1, <3>2, <3>3 DEF Distinct
  <2> QED
    BY <2>2, <2>3, <2>4, <2>5
<1> QED
  BY <1>1, <1>8, <1>9 DEF u

\* The concatenation has the elements of the parts, and none twice if no part has one
\* twice and no two parts have one in common.
LEMMA FlattenDistinct ==
  ASSUME NEW X, NEW F \in Seq(Seq(X)), F # <<>>,
         \A i \in 1..Len(F) : Distinct(F[i]),
         \A i, j \in 1..Len(F) : i # j => ToSet(F[i]) \cap ToSet(F[j]) = {}
  PROVE  /\ FlattenSeq(F) \in Seq(X) /\ Distinct(FlattenSeq(F))
         /\ ToSet(FlattenSeq(F)) = UNION {ToSet(F[i]) : i \in 1..Len(F)}
<1>1. PICK G : Concats(F, G) /\ FlattenSeq(F) = G[Len(F)]
  BY FlattenConcats
<1> DEFINE m == Len(F)
           U(n) == UNION {ToSet(F[i]) : i \in 1..n}
           Good(n) == G[n] \in Seq(X) /\ Distinct(G[n]) /\ ToSet(G[n]) = U(n)
           T == {n \in Nat : n + 1 <= m => Good(n + 1)}
<1>2. m \in Nat /\ m # 0 /\ \A i \in 1..m : F[i] \in Seq(X)
  OBVIOUS
<1>3. 0 \in T
  <2> SUFFICES ASSUME 1 <= m PROVE Good(1)
    OBVIOUS
  <2>1. 1 \in 1..m /\ 1..1 = {1}
    BY <1>2
  <2>2. G[1] = F[1]
    BY <1>1, <2>1 DEF Concats
  <2>3. U(1) = ToSet(F[1])
    BY <2>1
  <2> QED
    BY <1>2, <2>1, <2>2, <2>3
<1>4. ASSUME NEW n \in Nat, n \in T PROVE n + 1 \in T
  <2> SUFFICES ASSUME (n + 1) + 1 <= m PROVE Good((n + 1) + 1)
    <3> HIDE DEF Good
    <3> QED
      OBVIOUS
  <2> DEFINE a == n + 1
             b == n + 2
  <2>1. /\ a \in 1..m /\ b \in 1..m /\ b # 1 /\ b - 1 = a /\ (n + 1) + 1 = b /\ b \notin 1..a
        /\ 1..b = 1..a \cup {b} /\ 1..a \subseteq 1..m
    BY <1>2
  <2>2. Good(a)
    BY <1>4, <2>1
  <2> HIDE DEF a, b
  <2>3. G[b] = G[a] \o F[b]
    BY <1>1, <2>1 DEF Concats
  <2>4. F[b] \in Seq(X) /\ Distinct(F[b])
    BY <1>2, <2>1
  <2>5. U(b) = U(a) \cup ToSet(F[b])
    BY <2>1
  <2>6. U(a) \cap ToSet(F[b]) = {}
    <3> SUFFICES ASSUME NEW x \in U(a), x \in ToSet(F[b]) PROVE FALSE
      OBVIOUS
    <3>1. PICK i \in 1..a : x \in ToSet(F[i])
      OBVIOUS
    <3>2. i \in 1..m /\ i # b
      BY <2>1
    <3>3. ToSet(F[i]) \cap ToSet(F[b]) = {}
      BY <2>1, <3>2
    <3> QED
      BY <3>1, <3>3
  <2>7. Good(b)
    <3> HIDE DEF U
    <3>1. G[a] \in Seq(X) /\ Distinct(G[a]) /\ ToSet(G[a]) = U(a)
      BY <2>2
    <3> QED
      BY <2>3, <2>4, <2>5, <2>6, <3>1, ConcatDistinct
  <2> HIDE DEF Good
  <2> QED
    BY <2>1, <2>7
<1>5. Nat \subseteq T
  <2> HIDE DEF T
  <2> QED
    BY <1>3, <1>4, NatInductionBySet
<1>6. Good(m)
  <2>1. m - 1 \in Nat /\ (m - 1) + 1 = m /\ m <= m
    BY <1>2
  <2>2. m - 1 \in T
    BY <1>5, <2>1
  <2> HIDE DEF Good, m
  <2> QED
    BY <2>1, <2>2
<1> QED
  BY <1>1, <1>6

Chunked(G, F, c) == \A q \in 1..Len(F) : \A i \in 1..c : G[(q - 1) * c + i] = F[q][i]

\* The concatenation of m parts of length c.
LEMMA FlattenEqualParts ==
  ASSUME NEW X, NEW F \in Seq(Seq(X)), NEW c \in Nat, F # <<>>,
         \A i \in 1..Len(F) : Len(F[i]) = c
  PROVE  /\ FlattenSeq(F) \in Seq(X) /\ Len(FlattenSeq(F)) = Len(F) * c
         /\ Chunked(FlattenSeq(F), F, c)
<1>1. PICK G : Concats(F, G) /\ FlattenSeq(F) = G[Len(F)]
  BY FlattenConcats
<1> DEFINE m == Len(F)
           Good(n) == /\ G[n] \in Seq(X) /\ Len(G[n]) = n * c
                      /\ \A q \in 1..n : \A i \in 1..c : G[n][(q - 1) * c + i] = F[q][i]
           T == {n \in Nat : n + 1 <= m => Good(n + 1)}
<1>2. m \in Nat /\ m # 0 /\ \A i \in 1..m : F[i] \in Seq(X)
  OBVIOUS
<1>3. 0 \in T
  <2> SUFFICES ASSUME 1 <= m PROVE Good(1)
    OBVIOUS
  <2>1. 1 \in 1..m
    BY <1>2
  <2>2. G[1] = F[1] /\ F[1] \in Seq(X) /\ Len(F[1]) = c /\ 1 * c = c
    BY <1>1, <1>2, <2>1 DEF Concats
  <2>3. \A q \in 1..1 : \A i \in 1..c : q = 1 /\ (q - 1) * c + i = i
    OBVIOUS
  <2> QED
    BY <2>2, <2>3
<1>4. ASSUME NEW n \in Nat, n \in T PROVE n + 1 \in T
  <2> SUFFICES ASSUME (n + 1) + 1 <= m PROVE Good((n + 1) + 1)
    <3> HIDE DEF Good
    <3> QED
      OBVIOUS
  <2> DEFINE a == n + 1
             b == n + 2
  <2>1. /\ a \in 1..m /\ b \in 1..m /\ b # 1 /\ b - 1 = a /\ (n + 1) + 1 = b
        /\ a \in Nat /\ b = a + 1 /\ \A q \in 1..b : q \in 1..a \/ q = b
    BY <1>2
  <2>2. Good(a)
    BY <1>4, <2>1
  <2> HIDE DEF a, b
  <2>3. G[b] = G[a] \o F[b]
    BY <1>1, <2>1 DEF Concats
  <2>4. F[b] \in Seq(X) /\ Len(F[b]) = c
    BY <1>2, <2>1
  <2> DEFINE s == G[a]
             t == F[b]
             L == a * c
  <2>5. s \in Seq(X) /\ Len(s) = L /\ t \in Seq(X) /\ Len(t) = c /\ L \in Nat
    BY <2>1, <2>2, <2>4
  <2>6. b * c = L + c
    BY <2>1
  <2>7. \A q \in 1..a : \A i \in 1..c : (q - 1) * c + i \in 1..L
    <3> SUFFICES ASSUME NEW q \in 1..a, NEW i \in 1..c PROVE (q - 1) * c + i \in 1..L
      OBVIOUS
    <3>1. PICK d \in Nat : a = q + d
      <4>1. a - q \in Nat /\ a = q + (a - q)
        BY <2>1
      <4> QED
        BY <4>1
    <3>2. PICK e \in Nat : q = e + 1
      <4>1. q - 1 \in Nat /\ q = (q - 1) + 1
        BY <2>1
      <4> QED
        BY <4>1
    <3>3. L = e * c + c + d * c /\ d * c \in Nat /\ e * c \in Nat /\ q - 1 = e
      BY <3>1, <3>2
    <3> DEFINE x == e * c
               y == d * c
    <3>4. (q - 1) * c = x /\ L = x + c + y /\ x \in Nat /\ y \in Nat
      BY <3>3
    <3> HIDE DEF L, x, y
    <3> QED
      BY <3>4
  <2>8. (b - 1) * c = L
    BY <2>1
  <2> HIDE DEF L, s, t
  <2> DEFINE u == s \o t
  <2>9. u \in Seq(X) /\ Len(u) = L + c
    BY <2>5, ConcatDistinct
  <2>10. \A i \in 1..L : u[i] = s[i]
    BY <2>5
  <2>11. \A i \in 1..c : u[L + i] = t[i]
    <3> TAKE i \in 1..c
    <3>1. L + i \in 1..(L + c) /\ ~ (L + i <= L) /\ (L + i) - L = i
      BY <2>5
    <3> QED
      BY <2>5, <3>1, SMTT(30)
  <2> HIDE DEF u
  <2>12. ASSUME NEW q \in 1..b, NEW i \in 1..c PROVE u[(q - 1) * c + i] = F[q][i]
    <3>1. CASE q \in 1..a
      <4>1. s[(q - 1) * c + i] = F[q][i]
        BY <2>2, <3>1 DEF s
      <4> QED
        BY <2>7, <2>10, <3>1, <4>1
    <3>2. CASE q = b
      BY <2>8, <2>11, <3>2 DEF t
    <3> QED
      BY <2>1, <3>1, <3>2
  <2>13. Good(b)
    <3>1. G[b] = u
      BY <2>3 DEF u, s, t
    <3> QED
      BY <2>6, <2>9, <2>12, <3>1
  <2> HIDE DEF Good
  <2> QED
    BY <2>1, <2>13
<1>5. Nat \subseteq T
  <2> HIDE DEF T
  <2> QED
    BY <1>3, <1>4, NatInductionBySet
<1>6. Good(m)
  <2>1. m - 1 \in Nat /\ (m - 1) + 1 = m /\ m <= m
    BY <1>2
  <2>2. m - 1 \in T
    BY <1>5, <2>1
  <2> HIDE DEF Good, m
  <2> QED
    BY <2>1, <2>2
<1> QED
  BY <1>1, <1>6 DEF Chunked
=============================================================================
