------------------------ MODULE KarmarkarKarpProofs ------------------------
(***************************************************************************)
(* karmarkar_karp balances: SpreadBound for any workloads, any number of   *)
(* partitions and any number of calls.                                     *)
(***************************************************************************)
EXTENDS KarmarkarKarp, FoldLemmas

SetRecord == [sum : Nat, items : Seq(Nat)]

\* The sets of a State are in decreasing order of their sums (State.__init__, State.merge).
Decreasing == \A s \in heap : \A a, b \in 1..k : a <= b => s[a].sum >= s[b].sum

IndInv == KKTypeOK /\ Decreasing /\ SpreadBound

-----------------------------------------------------------------------------
(* The sorted list of workloads.                                           *)

\* The size of an initial segment.
LEMMA CardSegment ==
  ASSUME NEW n \in Nat
  PROVE  IsFiniteSet(1..n) /\ Cardinality(1..n) = n
<1>1. 1 \in Int /\ n \in Int
  OBVIOUS
<1>2. IsFiniteSet(1..n) /\ Cardinality(1..n) = IF 1 > n THEN 0 ELSE n - 1 + 1
  BY <1>1, FS_Interval, Zenon
<1> QED BY <1>2

\* A proper subset is smaller.
LEMMA CardStrict ==
  ASSUME NEW S, IsFiniteSet(S), NEW T \in SUBSET S, NEW x \in S, x \notin T
  PROVE  Cardinality(T) < Cardinality(S)
<1>1. Cardinality(T) <= Cardinality(S) /\ (Cardinality(S) = Cardinality(T) => S = T) /\ IsFiniteSet(T)
  BY FS_Subset, Zenon
<1>2. Cardinality(S) # Cardinality(T)
  BY <1>1
<1>3. Cardinality(T) \in Nat /\ Cardinality(S) \in Nat
  BY <1>1, FS_CardinalityType, Zenon
<1> QED BY <1>1, <1>2, <1>3

\* A lighter item has an earlier place in the sorted list.
LEMMA PositionStrict ==
  ASSUME work \in Seq(Nat), NEW i \in DOMAIN work, NEW j \in DOMAIN work, Lighter(i, j)
  PROVE  Position(i) \in 1..Len(work) /\ Position(i) < Position(j)
<1> DEFINE Below(x) == {h \in DOMAIN work : Lighter(h, x)}
<1>0. DOMAIN work = 1..Len(work) /\ Len(work) \in Nat /\ \A x \in DOMAIN work : work[x] \in Nat
  OBVIOUS
<1>1. IsFiniteSet(DOMAIN work) /\ Cardinality(DOMAIN work) = Len(work)
  BY <1>0, CardSegment, Zenon
<1>2. \A x \in DOMAIN work : IsFiniteSet(Below(x)) /\ Cardinality(Below(x)) \in Nat
  BY <1>1, FS_Subset, FS_CardinalityType
<1>3. Below(i) \subseteq Below(j) /\ i \in Below(j) /\ i \notin Below(i)
  BY <1>0 DEF Lighter
<1>4. Cardinality(Below(i)) < Cardinality(Below(j))
  BY <1>2, <1>3, CardStrict
<1>5. Cardinality(Below(j)) <= Len(work)
  BY <1>1, FS_Subset
<1>6. Position(i) = Cardinality(Below(i)) + 1 /\ Position(j) = Cardinality(Below(j)) + 1
  BY DEF Position
<1>7. Cardinality(Below(i)) \in Nat /\ Cardinality(Below(j)) \in Nat
  BY <1>2
<1> HIDE DEF Below
<1> QED BY <1>0, <1>4, <1>5, <1>6, <1>7

\* Every place of the sorted list is taken, by one item.
LEMMA PositionsTaken ==
  ASSUME work \in Seq(Nat)
  PROVE  /\ \A q \in 1..Len(work) : AtPosition(q) \in 1..Len(work) /\ Position(AtPosition(q)) = q
         /\ \A i \in 1..Len(work) : Position(i) \in 1..Len(work) /\ AtPosition(Position(i)) = i
<1> DEFINE D == 1..Len(work)
           Place == [i \in D |-> Position(i)]
<1>0. DOMAIN work = D /\ Len(work) \in Nat /\ \A x \in D : work[x] \in Nat
  OBVIOUS
<1>1. \A i, j \in D : i # j => Lighter(i, j) \/ Lighter(j, i)
  BY <1>0 DEF Lighter
<1>2. \A i, j \in D : Lighter(i, j) => Position(i) < Position(j)
  BY <1>0, PositionStrict
<1>3. \A i \in D : Position(i) \in D
  <2> TAKE i \in D
  <2> DEFINE Below == {h \in DOMAIN work : Lighter(h, i)}
  <2>1. IsFiniteSet(D) /\ Cardinality(D) = Len(work)
    BY <1>0, CardSegment, Zenon
  <2>2. Below \subseteq D /\ i \in D /\ i \notin Below
    BY <1>0 DEF Lighter
  <2>3. Cardinality(Below) < Cardinality(D)
    BY <2>1, <2>2, CardStrict
  <2>4. Cardinality(Below) \in Nat
    BY <2>1, <2>2, FS_Subset, FS_CardinalityType
  <2>5. Position(i) = Cardinality(Below) + 1
    BY DEF Position
  <2> HIDE DEF Below
  <2> QED BY <1>0, <2>1, <2>3, <2>4, <2>5
<1>a. \A i, j \in D : Position(i) = Position(j) => i = j
  <2> SUFFICES ASSUME NEW i \in D, NEW j \in D, i # j PROVE Position(i) # Position(j)
    OBVIOUS
  <2>1. Position(i) \in Int /\ Position(j) \in Int
    BY <1>0, <1>3
  <2> QED BY <1>1, <1>2, <2>1
<1>4. Place \in Injection(D, D)
  BY <1>3, <1>a DEF Injection, IsInjective
<1>5. \A q \in D : \E i \in D : Position(i) = q
  <2>1. IsFiniteSet(D)
    BY <1>0, CardSegment
  <2>2. Place \in Surjection(D, D)
    <3> HIDE DEF D, Place
    <3> QED BY <1>4, <2>1, FS_Injection, Zenon
  <2> QED BY <2>2 DEF Surjection
<1>6. \A q \in D : AtPosition(q) \in D /\ Position(AtPosition(q)) = q
  BY <1>0, <1>5 DEF AtPosition
<1>7. \A i \in D : AtPosition(Position(i)) = i
  <2> TAKE i \in D
  <2>1. AtPosition(Position(i)) \in D /\ Position(AtPosition(Position(i))) = Position(i)
    BY <1>3, <1>6
  <2> QED BY <1>a, <2>1
<1> QED BY <1>3, <1>6, <1>7

\* The sorted list is increasing.
LEMMA PositionsSorted ==
  ASSUME work \in Seq(Nat), NEW p \in 1..Len(work)
  PROVE  /\ AtPosition(p) \in DOMAIN work
         /\ \A q \in 1..p : AtPosition(q) \in DOMAIN work /\ work[AtPosition(q)] <= work[AtPosition(p)]
<1> DEFINE D == 1..Len(work)
<1>0. DOMAIN work = D /\ Len(work) \in Nat /\ \A x \in D : work[x] \in Nat
  OBVIOUS
<1>2. \A i, j \in D : Lighter(i, j) => Position(i) < Position(j)
  BY <1>0, PositionStrict
<1>6. \A q \in D : AtPosition(q) \in D /\ Position(AtPosition(q)) = q
  BY PositionsTaken
<1>7. ASSUME NEW q \in 1..p PROVE work[AtPosition(q)] <= work[AtPosition(p)]
  <2>1. q \in D /\ p \in D /\ q <= p
    BY <1>0
  <2> DEFINE x == AtPosition(q)
             y == AtPosition(p)
  <2>a. x \in D /\ y \in D /\ Position(x) = q /\ Position(y) = p
    BY <1>6, <2>1, Zenon
  <2>2. x \in D /\ y \in D /\ Position(x) <= Position(y) /\ Position(x) \in Int /\ Position(y) \in Int
    <3> HIDE DEF x, y
    <3> QED BY <2>1, <2>a
  <2> HIDE DEF x, y
  <2>3. ~Lighter(y, x)
    BY <1>2, <2>2
  <2>4. work[x] \in Nat /\ work[y] \in Nat
    BY <1>0, <2>2
  <2>5. work[x] <= work[y]
    BY <2>3, <2>4 DEF Lighter
  <2> QED BY <2>5 DEF x, y
<1> QED BY <1>0, <1>6, <1>7

-----------------------------------------------------------------------------
(* One step of the method.                                                 *)

\* Sets of the code: a sum and a list.
LEMMA SetFields ==
  ASSUME NEW x \in SetRecord
  PROVE  x.sum \in Nat /\ x.sum \in Int /\ x.items \in Seq(Nat)
<1>1. x.sum \in Nat /\ x.items \in Seq(Nat)
  BY DEF SetRecord
<1> QED BY <1>1

\* Joining two Sets gives a Set (Set.merge).
LEMMA JoinedType ==
  ASSUME NEW x \in SetRecord, NEW y \in SetRecord
  PROVE  Joined(x, y) \in SetRecord
<1>1. x.sum + y.sum \in Nat
  BY SetFields
<1>2. x.items \o y.items \in Seq(Nat)
  <2>1. x.items \in Seq(Nat) /\ y.items \in Seq(Nat)
    BY SetFields
  <2> QED BY <2>1
<1> QED BY <1>1, <1>2 DEF Joined, SetRecord

\* What the sets of State s differ by is bounded by c.
Within(s, c) == \A a, b \in 1..k : s[a].sum - s[b].sum <= c

\* Joining largest with smallest does not increase the difference: where one State
\* contributes more, the other contributes less.
LEMMA MergeWithin ==
  ASSUME k \in Nat \ {0},
         NEW s \in [1..k -> SetRecord], NEW t \in [1..k -> SetRecord],
         \A a, b \in 1..k : a <= b => s[a].sum >= s[b].sum,
         \A a, b \in 1..k : a <= b => t[a].sum >= t[b].sum,
         NEW c \in Int, NEW d \in Int, Within(s, c), Within(t, d), d <= c
  PROVE  Within(Merged(s, t), c)
<1> DEFINE M == Merged(s, t)
<1> SUFFICES ASSUME NEW a \in 1..k, NEW b \in 1..k PROVE M[a].sum - M[b].sum <= c
  BY DEF Within
<1> DEFINE e == k + 1 - a
           f == k + 1 - b
<1>1. e \in 1..k /\ f \in 1..k /\ (a <= b <=> f <= e)
  OBVIOUS
<1>2. M[a].sum = s[a].sum + t[e].sum /\ M[b].sum = s[b].sum + t[f].sum
  BY DEF Merged, Joined
<1>3. s[a].sum \in Int /\ s[b].sum \in Int /\ t[e].sum \in Int /\ t[f].sum \in Int
  <2> HIDE DEF e, f
  <2>1. s[a] \in SetRecord /\ s[b] \in SetRecord /\ t[e] \in SetRecord /\ t[f] \in SetRecord
    BY <1>1
  <2> QED BY <2>1, SetFields
<1>4. s[a].sum - s[b].sum <= c /\ t[e].sum - t[f].sum <= d
  BY <1>1 DEF Within
<1>5. CASE a <= b
  <2>1. t[f].sum >= t[e].sum
    BY <1>1, <1>5
  <2> HIDE DEF M, e, f
  <2> QED BY <1>2, <1>3, <1>4, <2>1, SMTT(30)
<1>6. CASE b <= a
  <2>1. s[b].sum >= s[a].sum
    BY <1>6
  <2> HIDE DEF M, e, f
  <2> QED BY <1>2, <1>3, <1>4, <2>1, SMTT(30)
<1> QED BY <1>5, <1>6

\* Whichever of two States is the wider, their merge is no wider (State.merge).
LEMMA MergeWithinEither ==
  ASSUME k \in Nat \ {0},
         NEW s \in [1..k -> SetRecord], NEW t \in [1..k -> SetRecord],
         \A a, b \in 1..k : a <= b => s[a].sum >= s[b].sum,
         \A a, b \in 1..k : a <= b => t[a].sum >= t[b].sum,
         NEW c \in Int, NEW d \in Int, Within(s, c), Within(t, d)
  PROVE  Within(Merged(s, t), c) \/ Within(Merged(s, t), d)
<1>1. CASE d <= c
  BY <1>1, MergeWithin
<1>2. CASE c <= d
  <2>1. Within(s, d)
    <3> SUFFICES ASSUME NEW a \in 1..k, NEW b \in 1..k PROVE s[a].sum - s[b].sum <= d
      BY DEF Within
    <3>1. s[a].sum \in Int /\ s[b].sum \in Int /\ s[a].sum - s[b].sum <= c
      BY SMTT(30) DEF Within, SetRecord
    <3> QED BY <1>2, <3>1
  <2> QED BY <2>1, MergeWithin
<1> QED BY <1>1, <1>2

\* The sorted State has the sets of the merged one, in decreasing order.
LEMMA ResortedState ==
  ASSUME k \in Nat \ {0},
         NEW s \in [1..k -> SetRecord], NEW t \in [1..k -> SetRecord],
         NEW g \in Resorted(Merged(s, t))
  PROVE  /\ g \in [1..k -> SetRecord]
         /\ \A a, b \in 1..k : a <= b => g[a].sum >= g[b].sum
         /\ \A c \in Int : Within(Merged(s, t), c) => Within(g, c)
<1> DEFINE M == Merged(s, t)
<1>1. PICK p \in Bijection(1..k, 1..k) : g = [i \in 1..k |-> M[p[i]]]
  BY DEF Resorted
<1>2. p \in [1..k -> 1..k]
  BY DEF Bijection, Injection
<1>3. M \in [1..k -> SetRecord]
  <2> SUFFICES ASSUME NEW i \in 1..k PROVE Joined(s[i], t[k + 1 - i]) \in SetRecord
    BY DEF Merged
  <2>1. k + 1 - i \in 1..k
    OBVIOUS
  <2>2. s[i] \in SetRecord /\ t[k + 1 - i] \in SetRecord
    BY <2>1
  <2> QED BY <2>2, JoinedType
<1> HIDE DEF M
<1>4. g \in [1..k -> SetRecord]
  BY <1>1, <1>2, <1>3
<1>5. ASSUME NEW a \in 1..k, NEW b \in 1..k, a <= b PROVE g[a].sum >= g[b].sum
  <2>1. g[a].sum \in Nat /\ g[b].sum \in Nat
    BY <1>4 DEF SetRecord
  <2>2. CASE a = b
    BY <2>1, <2>2
  <2>3. CASE a < b
    <3>1. ~SetLess(g[a], g[b])
      BY <2>3 DEF Resorted
    <3> QED BY <2>1, <3>1 DEF SetLess
  <2> QED BY <1>5, <2>2, <2>3
<1>6. ASSUME NEW c \in Int, Within(M, c) PROVE Within(g, c)
  BY <1>1, <1>2, <1>6 DEF Within
<1> QED BY <1>4, <1>5, <1>6 DEF M

-----------------------------------------------------------------------------
(* The States the method starts from.                                      *)

\* The places of block b are places of the list.
LEMMA BlockPlaces ==
  ASSUME NEW n \in Nat, NEW m \in Nat \ {0}, n % m = 0, NEW b \in 1..(n \div m), NEW i \in 1..m
  PROVE  b * m + 1 - i \in 1..n
<1> DEFINE q == n \div m
<1>1. q \in Nat /\ n = m * q
  OBVIOUS
<1> HIDE DEF q
<1>2. b \in Nat /\ b >= 1 /\ b <= q
  BY <1>1 DEF q
<1>3. PICK r \in Nat : q = b + r
  <2>1. q - b \in Nat /\ q = b + (q - b)
    BY <1>1, <1>2
  <2> QED BY <2>1
<1>4. n = m * b + m * r /\ m * r \in Nat
  BY <1>1, <1>2, <1>3
<1>5. PICK c \in Nat : b = c + 1
  <2>1. b - 1 \in Nat /\ b = (b - 1) + 1
    BY <1>2
  <2> QED BY <2>1
<1>6. b * m = m * b /\ m * b = m * c + m /\ m * c \in Nat
  BY <1>2, <1>5
<1> QED BY <1>4, <1>6

\* Inside a block the places go down.
LEMMA EarlierPlace ==
  ASSUME NEW z \in Int, NEW n \in Nat, NEW i \in Nat, NEW j \in Nat, i <= j, z + 1 - j \in 1..n
  PROVE  z + 1 - j \in 1..(z + 1 - i)
OBVIOUS

\* A Set of one item has the item's workload as its sum (Set.add).
LEMMA SingletonType ==
  ASSUME work \in Seq(Nat), NEW i \in DOMAIN work
  PROVE  Singleton(i) \in SetRecord /\ Singleton(i).sum = work[i] /\ work[i] \in Nat
<1>1. work[i] \in Nat /\ i \in Nat
  OBVIOUS
<1>2. <<i>> \in Seq(Nat)
  BY <1>1
<1> QED BY <1>1, <1>2 DEF Singleton, SetRecord

\* A decreasing tuple is as wide as its ends are apart.
LEMMA DecreasingWithin ==
  ASSUME k \in Nat \ {0}, NEW s, NEW v \in [1..k -> Nat], \A x \in 1..k : s[x].sum = v[x],
         \A x, y \in 1..k : x <= y => v[y] <= v[x],
         NEW c \in Int, v[1] - v[k] <= c
  PROVE  /\ \A x, y \in 1..k : x <= y => s[x].sum >= s[y].sum
         /\ Within(s, c)
<1>1. ASSUME NEW x \in 1..k, NEW y \in 1..k PROVE v[x] - v[y] <= c
  <2>1. 1 \in 1..k /\ k \in 1..k /\ 1 <= x /\ y <= k
    OBVIOUS
  <2>2. v[x] <= v[1] /\ v[k] <= v[y]
    BY <2>1
  <2>3. v[x] \in Nat /\ v[y] \in Nat /\ v[1] \in Nat /\ v[k] \in Nat
    BY <2>1
  <2> QED BY <2>2, <2>3
<1>2. ASSUME NEW x \in 1..k, NEW y \in 1..k, x <= y PROVE s[x].sum >= s[y].sum
  <2>1. v[x] \in Nat /\ v[y] \in Nat /\ v[y] <= v[x]
    BY <1>2
  <2> QED BY <2>1
<1> QED BY <1>1, <1>2 DEF Within

\* With equal_size a State starts decreasing, as wide as two items are apart.
LEMMA StateOfBlock ==
  ASSUME work \in Seq(Nat), k \in Nat \ {0}, Len(work) % k = 0, NEW b \in 1..(Len(work) \div k),
         NEW s, s = [i \in 1..k |-> Singleton(AtPosition(b * k + 1 - i))]
  PROVE  /\ s \in [1..k -> SetRecord]
         /\ \A x, y \in 1..k : x <= y => s[x].sum >= s[y].sum
         /\ \E i, j \in DOMAIN work : Within(s, work[i] - work[j])
<1> DEFINE z == b * k
           At(i) == AtPosition(z + 1 - i)
           v == [i \in 1..k |-> work[At(i)]]
<1>0. Len(work) \in Nat
  OBVIOUS
<1>1. \A i \in 1..k : z + 1 - i \in 1..Len(work)
  BY <1>0, BlockPlaces
<1>z. z \in Int
  <2>1. Len(work) \div k \in Int
    BY <1>0
  <2>2. b \in Int
    BY <2>1
  <2> QED BY <2>2
<1>2. \A i \in 1..k : At(i) \in DOMAIN work
  BY <1>1, PositionsSorted
<1>s. \A i \in 1..k : s[i] = Singleton(At(i))
  OBVIOUS
<1> HIDE DEF z
<1>3. ASSUME NEW i \in 1..k, NEW j \in 1..k, i <= j PROVE work[At(j)] <= work[At(i)]
  <2>1. z + 1 - i \in 1..Len(work) /\ z + 1 - j \in 1..Len(work)
    BY <1>1, Zenon
  <2>2. i \in Nat /\ j \in Nat
    OBVIOUS
  <2>3. z + 1 - j \in 1..(z + 1 - i)
    BY <1>0, <1>3, <1>z, <2>1, <2>2, EarlierPlace, Zenon
  <2> QED BY <2>1, <2>3, PositionsSorted
<1> HIDE DEF At
<1>4. \A i \in 1..k : s[i] \in SetRecord /\ s[i].sum = work[At(i)] /\ work[At(i)] \in Nat
  BY <1>2, <1>s, SingletonType
<1>5. s \in [1..k -> SetRecord]
  BY <1>4
<1>6. v \in [1..k -> Nat] /\ \A x \in 1..k : s[x].sum = v[x]
  BY <1>4
<1>7. \A x, y \in 1..k : x <= y => v[y] <= v[x]
  BY <1>3
<1>8. v[1] - v[k] \in Int /\ v[1] - v[k] <= v[1] - v[k] /\ 1 \in 1..k /\ k \in 1..k
  BY <1>6
<1>9. /\ \A x, y \in 1..k : x <= y => s[x].sum >= s[y].sum
      /\ Within(s, v[1] - v[k])
  <2> HIDE DEF v
  <2> QED BY <1>6, <1>7, <1>8, DecreasingWithin
<1>10. v[1] = work[At(1)] /\ v[k] = work[At(k)] /\ At(1) \in DOMAIN work /\ At(k) \in DOMAIN work
  BY <1>2, <1>8
<1> QED BY <1>5, <1>9, <1>10

\* Without equal_size a State starts decreasing, as wide as its item.
LEMMA StateOfItem ==
  ASSUME work \in Seq(Nat), k \in Nat \ {0}, NEW g \in 1..Len(work),
         NEW s, s = [i \in 1..k |-> IF i = 1 THEN Singleton(g) ELSE EmptySet]
  PROVE  /\ s \in [1..k -> SetRecord]
         /\ \A x, y \in 1..k : x <= y => s[x].sum >= s[y].sum
         /\ Within(s, work[g])
<1> DEFINE v == [i \in 1..k |-> IF i = 1 THEN work[g] ELSE 0]
<1>1. Singleton(g) \in SetRecord /\ Singleton(g).sum = work[g] /\ work[g] \in Nat
  <2>1. g \in DOMAIN work
    OBVIOUS
  <2> QED BY <2>1, SingletonType
<1>2. EmptySet \in SetRecord /\ EmptySet.sum = 0
  <2>1. <<>> \in Seq(Nat) /\ 0 \in Nat
    OBVIOUS
  <2> QED BY <2>1 DEF EmptySet, SetRecord
<1>3. s \in [1..k -> SetRecord] /\ \A x \in 1..k : s[x].sum = v[x]
  BY <1>1, <1>2
<1>4. v \in [1..k -> Nat] /\ \A x, y \in 1..k : x <= y => v[y] <= v[x]
  BY <1>1
<1>5. v[1] - v[k] <= work[g] /\ work[g] \in Int
  BY <1>1
<1> HIDE DEF v
<1> QED BY <1>3, <1>4, <1>5, DecreasingWithin

-----------------------------------------------------------------------------
(* The invariant.                                                          *)

\* SpreadBound with the bound of each kind of call named.
Bound(i, j) == IF equal THEN work[i] - work[j] ELSE work[i]

\* SpreadBound says that every State is within the bound of its call.
LEMMA SpreadWithin == SpreadBound <=> \A s \in heap : \E i, j \in DOMAIN work : Within(s, Bound(i, j))
BY DEF SpreadBound, Within, Bound

\* Every step of karmarkar_karp keeps the invariant.
LEMMA StepKeepsInv == IndInv /\ [KKNext]_kkVars => IndInv'
<1> SUFFICES ASSUME IndInv, [KKNext]_kkVars PROVE IndInv'
  OBVIOUS
<1>t. work \in Seq(Nat) /\ k \in Nat \ {0} /\ equal \in BOOLEAN
  BY DEF IndInv, KKTypeOK
<1>0. ASSUME heap' = {}, work' \in Seq(Nat), k' \in Nat \ {0}, equal' \in BOOLEAN,
             kk' \in {"idle", "build", "merge", "failed"}
      PROVE  IndInv'
  BY <1>0 DEF IndInv, KKTypeOK, Decreasing, SpreadBound
<1>1. CASE KKCall
  <2>1. heap' = {} /\ kk' \in {"idle", "build", "merge", "failed"}
    BY <1>1 DEF KKCall, IndInv, KKTypeOK
  <2> QED BY <1>0, <1>1, <2>1 DEF KKCall
<1>2. CASE BuildEqual
  <2>a. work' = work /\ k' = k /\ equal' = equal /\ equal = TRUE /\ heap = {}
    BY <1>2, <1>t DEF BuildEqual, kkArgs, IndInv, KKTypeOK
  <2>1. CASE Len(work) % k # 0
    <3>1. heap' = {} /\ kk' = "failed"
      BY <1>2, <2>1, <2>a DEF BuildEqual
    <3> QED BY <1>0, <1>t, <2>a, <3>1
  <2>2. CASE Len(work) % k = 0
    <3>1. kk' = "merge" /\ heap' = {[i \in 1..k |-> Singleton(AtPosition(b * k + 1 - i))] :
                                     b \in 1..(Len(work) \div k)}
      BY <1>2, <2>2 DEF BuildEqual
    <3>2. ASSUME NEW s \in heap'
          PROVE  /\ s \in [1..k -> SetRecord]
                 /\ \A x, y \in 1..k : x <= y => s[x].sum >= s[y].sum
                 /\ \E i, j \in DOMAIN work : Within(s, work[i] - work[j])
      <4>1. PICK b \in 1..(Len(work) \div k) :
                   s = [i \in 1..k |-> Singleton(AtPosition(b * k + 1 - i))]
        BY <3>1, Zenon
      <4> QED BY <1>t, <2>2, <4>1, StateOfBlock
    <3>3. KKTypeOK'
      BY <1>t, <2>a, <3>1, <3>2 DEF KKTypeOK, SetRecord
    <3>4. Decreasing'
      BY <2>a, <3>2 DEF Decreasing
    <3>5. SpreadBound'
      BY <2>a, <3>2 DEF SpreadBound, Within
    <3> QED BY <3>3, <3>4, <3>5 DEF IndInv
  <2> QED BY <2>1, <2>2
<1>3. CASE BuildSingle
  <2>a. work' = work /\ k' = k /\ equal' = equal /\ equal = FALSE /\ kk' = "merge"
    BY <1>3, <1>t DEF BuildSingle, kkArgs
  <2>1. heap' = {[i \in 1..k |-> IF i = 1 THEN Singleton(g) ELSE EmptySet] : g \in 1..Len(work)}
    BY <1>3 DEF BuildSingle
  <2>2. ASSUME NEW s \in heap'
        PROVE  /\ s \in [1..k -> SetRecord]
               /\ \A x, y \in 1..k : x <= y => s[x].sum >= s[y].sum
               /\ \E i \in DOMAIN work : Within(s, work[i])
    <3>1. PICK g \in 1..Len(work) : s = [i \in 1..k |-> IF i = 1 THEN Singleton(g) ELSE EmptySet]
      BY <2>1, Zenon
    <3>2. g \in DOMAIN work
      BY <1>t
    <3> QED BY <1>t, <3>1, <3>2, StateOfItem
  <2>3. KKTypeOK'
    BY <1>t, <2>a, <2>2 DEF KKTypeOK, SetRecord
  <2>4. Decreasing'
    BY <2>a, <2>2 DEF Decreasing
  <2>5. SpreadBound'
    BY <2>a, <2>2 DEF SpreadBound, Within
  <2> QED BY <2>3, <2>4, <2>5 DEF IndInv
<1>4. CASE MergeStates
  <2>a. work' = work /\ k' = k /\ equal' = equal /\ kk' = kk /\ kk = "merge"
    BY <1>4 DEF MergeStates, kkArgs
  <2>1. PICK s \in heap, t \in heap : \E g \in Resorted(Merged(s, t)) : heap' = (heap \ {s, t}) \cup {g}
    BY <1>4 DEF MergeStates
  <2>2. PICK g \in Resorted(Merged(s, t)) : heap' = (heap \ {s, t}) \cup {g}
    BY <2>1
  <2>3. \A u \in heap : /\ u \in [1..k -> SetRecord]
                        /\ \A x, y \in 1..k : x <= y => u[x].sum >= u[y].sum
                        /\ \E i, j \in DOMAIN work : Within(u, Bound(i, j))
    BY SpreadWithin DEF IndInv, KKTypeOK, Decreasing, SetRecord
  <2>4. \A i, j \in DOMAIN work : Bound(i, j) \in Int
    <3>1. \A i \in DOMAIN work : work[i] \in Int
      BY <1>t
    <3> QED BY <1>t, <3>1 DEF Bound
  <2>5. g \in [1..k -> SetRecord] /\ \A x, y \in 1..k : x <= y => g[x].sum >= g[y].sum
    BY <1>t, <2>3, ResortedState
  <2>6. \E i, j \in DOMAIN work : Within(g, Bound(i, j))
    <3>1. PICK i1 \in DOMAIN work, j1 \in DOMAIN work : Within(s, Bound(i1, j1))
      BY <2>3
    <3>2. PICK i2 \in DOMAIN work, j2 \in DOMAIN work : Within(t, Bound(i2, j2))
      BY <2>3
    <3>3. Within(Merged(s, t), Bound(i1, j1)) \/ Within(Merged(s, t), Bound(i2, j2))
      BY <1>t, <2>3, <2>4, <3>1, <3>2, MergeWithinEither
    <3> QED BY <1>t, <2>3, <2>4, <3>3, ResortedState
  <2>7. \A u \in heap' : u \in heap \/ u = g
    BY <2>2
  <2>8. KKTypeOK'
    BY <1>t, <2>a, <2>3, <2>5, <2>7 DEF KKTypeOK, SetRecord
  <2>9. Decreasing'
    BY <2>a, <2>3, <2>5, <2>7 DEF Decreasing
  <2>10. SpreadBound'
    <3>1. \A u \in heap' : \E i, j \in DOMAIN work : Within(u, Bound(i, j))
      BY <2>3, <2>6, <2>7
    <3> QED BY <2>a, <3>1 DEF SpreadBound, Within, Bound
  <2> QED BY <2>8, <2>9, <2>10 DEF IndInv
<1>5. CASE \E s \in heap : KKReturn(s)
  <2>1. heap' = {} /\ kk' = "idle" /\ work' = work /\ k' = k /\ equal' = equal
    BY <1>5 DEF KKReturn, kkArgs
  <2> QED BY <1>0, <1>t, <2>1
<1>6. CASE UNCHANGED kkVars
  BY <1>6 DEF kkVars, IndInv, KKTypeOK, Decreasing, SpreadBound
<1> QED BY <1>1, <1>2, <1>3, <1>4, <1>5, <1>6 DEF KKNext

\* The invariant holds before the first call.
LEMMA InitKeepsInd == KKInit => IndInv
<1> SUFFICES ASSUME KKInit PROVE IndInv
  OBVIOUS
<1>1. <<>> \in Seq(Nat) /\ 1 \in Nat \ {0} /\ FALSE \in BOOLEAN
  OBVIOUS
<1>2. work = <<>> /\ k = 1 /\ equal = FALSE /\ heap = {} /\ kk = "idle"
  BY DEF KKInit
<1>3. KKTypeOK
  BY <1>1, <1>2 DEF KKTypeOK
<1>4. Decreasing /\ SpreadBound
  BY <1>2 DEF Decreasing, SpreadBound
<1> QED
  BY <1>3, <1>4 DEF IndInv

\* For any workloads and any number of partitions, the partitions karmarkar_karp makes
\* differ by at most one item, or by the difference of two items if it deals equal
\* numbers of them.
THEOREM PartitionsBalanced == KKSpec => []SpreadBound
<1>1. IndInv => SpreadBound
  BY DEF IndInv
<1> QED
  BY <1>1, InitKeepsInd, StepKeepsInv, PTL DEF KKSpec

-----------------------------------------------------------------------------
(* Sorting. *)

\* sorted gives every element once.
LEMMA InOrderOnce ==
  ASSUME NEW S, NEW before, IsFiniteSet(S),
         \A x \in S : before[x] \in SUBSET S /\ x \notin before[x],
         \A x, y \in S : y \in before[x] => before[y] \subseteq before[x],
         \A x, y \in S : x # y => x \in before[y] \/ y \in before[x]
  PROVE  /\ InOrder(S, before) \in Seq(S) /\ Len(InOrder(S, before)) = Cardinality(S)
         /\ Distinct(InOrder(S, before)) /\ ToSet(InOrder(S, before)) = S
<1> DEFINE n == Cardinality(S)
           Rank(x) == Cardinality(before[x]) + 1
           Place == [x \in S |-> Rank(x)]
           f == InOrder(S, before)
<1>1. n \in Nat
  BY FS_CardinalityType
<1>2. \A x \in S : Cardinality(before[x]) \in Nat /\ Cardinality(before[x]) < n
  <2> TAKE x \in S
  <2>1. Cardinality(before[x]) < Cardinality(S)
    BY CardStrict
  <2>2. Cardinality(before[x]) \in Nat
    BY SubsetCard
  <2> QED
    BY <2>1, <2>2
<1>3. \A x \in S : Rank(x) \in 1..n
  BY <1>1, <1>2
<1>4. ASSUME NEW x \in S, NEW y \in S, y \in before[x] PROVE Rank(y) # Rank(x)
  <2>1. IsFiniteSet(before[x]) /\ before[y] \in SUBSET before[x] /\ y \notin before[y]
    BY <1>4, SubsetCard
  <2>2. Cardinality(before[y]) < Cardinality(before[x])
    BY <1>4, <2>1, CardStrict
  <2>3. Cardinality(before[y]) \in Nat /\ Cardinality(before[x]) \in Nat
    BY <1>2
  <2> QED
    BY <2>2, <2>3
<1>5. \A x, y \in S : Rank(x) = Rank(y) => x = y
  BY <1>4
<1>6. IsFiniteSet(1..n) /\ Cardinality(1..n) = n
  BY <1>1, CardSegment
<1>7. \A p \in 1..n : \E x \in S : Rank(x) = p
  <2>1. Place \in Injection(S, 1..n)
    <3> HIDE DEF Rank
    <3> QED
      BY <1>3, <1>5 DEF Injection, IsInjective
  <2> HIDE DEF Place
  <2>2. Place \in Surjection(S, 1..n)
    BY <1>6, <2>1, FS_Injection
  <2>3. \A p \in 1..n : \E x \in S : Place[x] = p
    BY <2>2 DEF Surjection
  <2> QED
    BY <2>3 DEF Place
<1>8. \A x \in S : \A p \in 1..n : Cardinality(before[x]) = p - 1 <=> Rank(x) = p
  BY <1>2
<1>9. f = [p \in 1..n |-> CHOOSE x \in S : Cardinality(before[x]) = p - 1]
  BY DEF InOrder
<1>10. \A p \in 1..n : f[p] \in S /\ Rank(f[p]) = p
  <2> TAKE p \in 1..n
  <2>1. \E x \in S : Cardinality(before[x]) = p - 1
    BY <1>7, <1>8
  <2>2. f[p] = CHOOSE x \in S : Cardinality(before[x]) = p - 1
    BY <1>9
  <2>3. f[p] \in S /\ Cardinality(before[f[p]]) = p - 1
    BY <2>1, <2>2
  <2> QED
    BY <1>8, <2>3
<1>a. f = [p \in 1..n |-> f[p]]
  BY <1>9
<1>b. f \in [1..n -> S]
  <2> HIDE DEF f, Rank
  <2> QED
    BY <1>10, <1>a
<1>c. f \in Seq(S) /\ Len(f) = n /\ DOMAIN f = 1..n
  <2> HIDE DEF f
  <2> QED
    BY <1>1, <1>b
<1> HIDE DEF f, Rank, n
<1>11. Distinct(f)
  BY <1>10, <1>c DEF Distinct
<1>12. ToSet(f) = S
  <2>1. \A x \in S : Rank(x) \in 1..n /\ f[Rank(x)] = x
    BY <1>3, <1>5, <1>10
  <2> QED
    BY <1>10, <1>c, <2>1 DEF ToSet
<1> QED
  BY <1>11, <1>12, <1>c DEF f, n

\* sorted(partition).
LEMMA IncreasingOnce ==
  ASSUME NEW S, IsFiniteSet(S), S \subseteq Nat
  PROVE  /\ Increasing(S) \in Seq(S) /\ Len(Increasing(S)) = Cardinality(S)
         /\ Distinct(Increasing(S)) /\ ToSet(Increasing(S)) = S
<1> DEFINE before == [x \in S |-> {y \in S : y < x}]
<1>1. \A x \in S : before[x] \in SUBSET S /\ x \notin before[x]
  OBVIOUS
<1>2. \A x, y \in S : y \in before[x] => before[y] \subseteq before[x]
  <2> SUFFICES ASSUME NEW x \in S, NEW y \in S, y < x, NEW z \in S, z < y PROVE z < x
    OBVIOUS
  <2>1. x \in Nat /\ y \in Nat /\ z \in Nat
    OBVIOUS
  <2> QED
    BY <2>1
<1>3. \A x, y \in S : x # y => x \in before[y] \/ y \in before[x]
  OBVIOUS
<1>4. Increasing(S) = InOrder(S, before)
  BY DEF Increasing
<1> HIDE DEF before
<1> QED
  BY <1>1, <1>2, <1>3, <1>4, InOrderOnce

\* The elements of a sequence without repetition are as many as its places.
LEMMA DistinctCard ==
  ASSUME NEW X, NEW s \in Seq(X), Distinct(s)
  PROVE  IsFiniteSet(ToSet(s)) /\ Cardinality(ToSet(s)) = Len(s)
<1>1. Len(s) \in Nat /\ DOMAIN s = 1..Len(s)
  OBVIOUS
<1>2. IsFiniteSet(1..Len(s)) /\ Cardinality(1..Len(s)) = Len(s)
  BY <1>1, CardSegment
<1>3. s \in Bijection(1..Len(s), ToSet(s))
  BY <1>1 DEF Distinct, ToSet, Bijection, Injection, Surjection, IsInjective
<1>4. ExistsBijection(1..Len(s), ToSet(s))
  BY <1>3 DEF ExistsBijection
<1> DEFINE D == 1..Len(s)
<1> HIDE DEF D
<1>5. IsFiniteSet(D) /\ ExistsBijection(D, ToSet(s)) /\ Cardinality(D) = Len(s)
  BY <1>2, <1>4 DEF D
<1> QED
  BY <1>5, FS_Bijection

\* The elements of any sequence are finitely many.
LEMMA FiniteToSet ==
  ASSUME NEW X, NEW s \in Seq(X)
  PROVE  IsFiniteSet(ToSet(s)) /\ ToSet(s) \subseteq X
<1>1. Len(s) \in Nat /\ DOMAIN s = 1..Len(s) /\ ToSet(s) \subseteq X
  BY DEF ToSet
<1>2. IsFiniteSet(1..Len(s))
  BY <1>1, CardSegment
<1>3. s \in Surjection(1..Len(s), ToSet(s))
  BY <1>1 DEF ToSet, Surjection
<1> QED
  BY <1>1, <1>2, <1>3, FS_Surjection

-----------------------------------------------------------------------------
(* What becomes of the items.                                              *)

Owned(s, i) == ToSet(s[i].items)
Covered(s) == UNION {Owned(s, i) : i \in 1..k}

\* The items of a set are items of the list, each once, and its sum is their workload.
WellKept(x) ==
  /\ Distinct(x.items) /\ ToSet(x.items) \subseteq 1..Len(work)
  /\ x.sum = Sigma(work, ToSet(x.items))

\* No item is in two sets of a State.
OwnItems(s) ==
  /\ \A i \in 1..k : WellKept(s[i])
  /\ \A i, j \in 1..k : i # j => Owned(s, i) \cap Owned(s, j) = {}

\* With equal_size the sets of a State have equally many items; without it the empty sets
\* are the last ones, and no set has two items while there are empty ones.
EqualCounts(s) == \A i, j \in 1..k : Len(s[i].items) = Len(s[j].items) /\ s[i].items # <<>>
EmptyLast(s) == \A i, j \in 1..k : i <= j /\ s[j].items # <<>> => s[i].items # <<>>
FillsUp(s) == (\A i \in 1..k : s[i].items # <<>>) \/ (\A i \in 1..k : Len(s[i].items) <= 1)
Shaped(s) == IF equal THEN EqualCounts(s) ELSE EmptyLast(s) /\ FillsUp(s)

\* No item is lost, and none is in two States.
ItemInv ==
  /\ \A s \in heap : OwnItems(s) /\ Shaped(s)
  /\ \A s, t \in heap : s # t => Covered(s) \cap Covered(t) = {}
  /\ kk = "merge" => UNION {Covered(s) : s \in heap} = 1..Len(work)

\* Joining two sets without common items (Set.merge).
LEMMA JoinedItems ==
  ASSUME work \in Seq(Nat), NEW x \in SetRecord, NEW y \in SetRecord, WellKept(x), WellKept(y),
         ToSet(x.items) \cap ToSet(y.items) = {}
  PROVE  /\ WellKept(Joined(x, y)) /\ ToSet(Joined(x, y).items) = ToSet(x.items) \cup ToSet(y.items)
         /\ Len(Joined(x, y).items) = Len(x.items) + Len(y.items)
<1> DEFINE a == x.items
           b == y.items
<1>1. a \in Seq(Nat) /\ b \in Seq(Nat)
  BY SetFields
<1>2. /\ Joined(x, y).sum = x.sum + y.sum /\ Joined(x, y).items = a \o b
      /\ Distinct(a) /\ Distinct(b) /\ ToSet(a) \subseteq 1..Len(work) /\ ToSet(b) \subseteq 1..Len(work)
      /\ x.sum = Sigma(work, ToSet(a)) /\ y.sum = Sigma(work, ToSet(b)) /\ ToSet(a) \cap ToSet(b) = {}
  BY DEF Joined, WellKept
<1>3. \A i \in 1..Len(work) : work[i] \in Int
  OBVIOUS
<1> HIDE DEF a, b
<1>4. IsFiniteSet(ToSet(a)) /\ IsFiniteSet(ToSet(b)) /\ \A z \in ToSet(a) \cup ToSet(b) : work[z] \in Int
  BY <1>1, <1>2, <1>3, FiniteToSet
<1>5. Sigma(work, ToSet(a) \cup ToSet(b)) = Sigma(work, ToSet(a)) + Sigma(work, ToSet(b))
  BY <1>2, <1>4, SigmaUnion
<1>6. /\ ToSet(a \o b) = ToSet(a) \cup ToSet(b) /\ Len(a \o b) = Len(a) + Len(b) /\ Distinct(a \o b)
  BY <1>1, <1>2, ConcatDistinct
<1>7. ToSet(a \o b) \subseteq 1..Len(work)
  BY <1>2, <1>6
<1> QED
  BY <1>2, <1>5, <1>6, <1>7 DEF WellKept, a, b

\* Merging two States without common items (State.merge before its sort).
LEMMA MergedItems ==
  ASSUME work \in Seq(Nat), k \in Nat \ {0},
         NEW s \in [1..k -> SetRecord], NEW t \in [1..k -> SetRecord],
         OwnItems(s), OwnItems(t), Covered(s) \cap Covered(t) = {}
  PROVE  /\ OwnItems(Merged(s, t)) /\ Covered(Merged(s, t)) = Covered(s) \cup Covered(t)
         /\ \A i \in 1..k : Len(Merged(s, t)[i].items) = Len(s[i].items) + Len(t[k + 1 - i].items)
<1> DEFINE M == Merged(s, t)
           opp(i) == k + 1 - i
<1>1. \A i \in 1..k : opp(i) \in 1..k /\ opp(opp(i)) = i
  OBVIOUS
<1>2. \A i \in 1..k : M[i] = Joined(s[i], t[opp(i)])
  BY DEF Merged
<1>3. \A i, j \in 1..k : i # j => opp(i) # opp(j)
  OBVIOUS
<1> HIDE DEF M, opp
<1>4. \A i, j \in 1..k : Owned(s, i) \cap Owned(t, j) = {}
  BY DEF Covered
<1>5. ASSUME NEW i \in 1..k
      PROVE  /\ WellKept(M[i]) /\ Owned(M, i) = Owned(s, i) \cup Owned(t, opp(i))
             /\ Len(M[i].items) = Len(s[i].items) + Len(t[opp(i)].items)
  <2>1. s[i] \in SetRecord /\ t[opp(i)] \in SetRecord /\ WellKept(s[i]) /\ WellKept(t[opp(i)])
    BY <1>1 DEF OwnItems
  <2>2. ToSet(s[i].items) \cap ToSet(t[opp(i)].items) = {}
    BY <1>1, <1>4 DEF Owned
  <2> QED
    BY <1>2, <2>1, <2>2, JoinedItems DEF Owned
<1>6. ASSUME NEW i \in 1..k, NEW j \in 1..k, i # j PROVE Owned(M, i) \cap Owned(M, j) = {}
  <2>1. Owned(s, i) \cap Owned(s, j) = {} /\ Owned(t, opp(i)) \cap Owned(t, opp(j)) = {}
    BY <1>1, <1>3, <1>6 DEF OwnItems
  <2>2. Owned(s, i) \cap Owned(t, opp(j)) = {} /\ Owned(s, j) \cap Owned(t, opp(i)) = {}
    BY <1>1, <1>4
  <2>3. Owned(M, i) = Owned(s, i) \cup Owned(t, opp(i)) /\ Owned(M, j) = Owned(s, j) \cup Owned(t, opp(j))
    BY <1>5
  <2> QED
    BY <2>1, <2>2, <2>3
<1>7. Covered(M) = Covered(s) \cup Covered(t)
  <2>1. ASSUME NEW z \in Covered(M) PROVE z \in Covered(s) \cup Covered(t)
    <3>1. PICK j \in 1..k : z \in Owned(M, j)
      BY DEF Covered
    <3>2. z \in Owned(s, j) \/ z \in Owned(t, opp(j))
      BY <1>5, <3>1
    <3>3. opp(j) \in 1..k
      BY <1>1
    <3> QED
      BY <3>2, <3>3 DEF Covered
  <2>2. ASSUME NEW z \in Covered(s) PROVE z \in Covered(M)
    <3>1. PICK j \in 1..k : z \in Owned(s, j)
      BY DEF Covered
    <3>2. z \in Owned(M, j)
      BY <1>5, <3>1
    <3> QED
      BY <3>2 DEF Covered
  <2>3. ASSUME NEW z \in Covered(t) PROVE z \in Covered(M)
    <3>1. PICK j \in 1..k : z \in Owned(t, j)
      BY DEF Covered
    <3>2. opp(j) \in 1..k /\ opp(opp(j)) = j
      BY <1>1
    <3>3. z \in Owned(M, opp(j))
      BY <1>5, <3>1, <3>2
    <3> QED
      BY <3>2, <3>3 DEF Covered
  <2> QED
    BY <2>1, <2>2, <2>3
<1>8. OwnItems(M)
  BY <1>5, <1>6 DEF OwnItems
<1> QED
  BY <1>5, <1>7, <1>8 DEF M, opp

SetsOf(g, m) == \A i \in 1..k : \E j \in 1..k : g[i] = m[j]

\* The sort keeps the sets (State.merge).
LEMMA ResortedItems ==
  ASSUME NEW m, NEW g, k \in Nat \ {0}, OwnItems(m), g \in Resorted(m)
  PROVE  OwnItems(g) /\ Covered(g) = Covered(m) /\ SetsOf(g, m)
<1>1. PICK p \in Bijection(1..k, 1..k) : g = [i \in 1..k |-> m[p[i]]]
  BY DEF Resorted
<1>2. /\ p \in [1..k -> 1..k] /\ (\A i, j \in 1..k : p[i] = p[j] => i = j)
      /\ \A j \in 1..k : \E i \in 1..k : p[i] = j
  BY DEF Bijection, Injection, Surjection, IsInjective
<1>3. \A i \in 1..k : p[i] \in 1..k /\ g[i] = m[p[i]]
  BY <1>1, <1>2
<1>4. OwnItems(g)
  <2>1. \A i \in 1..k : WellKept(g[i]) /\ Owned(g, i) = Owned(m, p[i])
    BY <1>3 DEF OwnItems, Owned
  <2>2. \A i, j \in 1..k : i # j => Owned(g, i) \cap Owned(g, j) = {}
    <3> TAKE i, j \in 1..k
    <3>1. HAVE i # j
    <3>2. p[i] # p[j] /\ p[i] \in 1..k /\ p[j] \in 1..k
      BY <1>2, <1>3, <3>1
    <3>3. Owned(m, p[i]) \cap Owned(m, p[j]) = {}
      BY <3>2 DEF OwnItems
    <3> QED
      BY <2>1, <3>3
  <2> QED
    BY <2>1, <2>2 DEF OwnItems
<1>5. Covered(g) = Covered(m)
  <2>1. ASSUME NEW z \in Covered(g) PROVE z \in Covered(m)
    <3>1. PICK j \in 1..k : z \in Owned(g, j)
      BY DEF Covered
    <3>2. p[j] \in 1..k /\ z \in Owned(m, p[j])
      BY <1>3, <3>1 DEF Owned
    <3> QED
      BY <3>2 DEF Covered
  <2>2. ASSUME NEW z \in Covered(m) PROVE z \in Covered(g)
    <3>1. PICK j \in 1..k : z \in Owned(m, j)
      BY DEF Covered
    <3>2. PICK i \in 1..k : p[i] = j
      BY <1>2
    <3>3. z \in Owned(g, i)
      BY <1>3, <3>1, <3>2 DEF Owned
    <3> QED
      BY <3>3 DEF Covered
  <2> QED
    BY <2>1, <2>2
<1>6. SetsOf(g, m)
  BY <1>3 DEF SetsOf
<1> QED
  BY <1>4, <1>5, <1>6

\* A sequence is empty when its length is zero.
LEMMA EmptySeq ==
  ASSUME NEW X, NEW s \in Seq(X)
  PROVE  Len(s) \in Nat /\ (s = <<>> <=> Len(s) = 0)
OBVIOUS

\* An empty set has no workload, so that the sort puts it last (Set.__lt__).
LEMMA EmptyIsLess ==
  ASSUME NEW x \in SetRecord, NEW y \in SetRecord, WellKept(x), x.items = <<>>, y.items # <<>>
  PROVE  SetLess(x, y)
<1>1. ToSet(x.items) = {}
  BY DEF ToSet
<1>2. x.sum = 0
  BY <1>1, SigmaEmpty DEF WellKept
<1>3. y.sum \in Nat /\ y.items \in Seq(Nat) /\ x.items \in Seq(Nat)
  BY SetFields
<1>4. Len(x.items) = 0 /\ Len(y.items) \in Nat /\ Len(y.items) # 0
  BY <1>3, EmptySeq
<1> QED
  BY <1>2, <1>3, <1>4 DEF SetLess

\* The shape of the State after a merge and its sort: if two items meet in a set, there is
\* no empty set left.
LEMMA ShapedMerge ==
  ASSUME work \in Seq(Nat), k \in Nat \ {0}, equal \in BOOLEAN,
         NEW s \in [1..k -> SetRecord], NEW t \in [1..k -> SetRecord],
         OwnItems(s), OwnItems(t), Covered(s) \cap Covered(t) = {}, Shaped(s), Shaped(t),
         NEW g \in Resorted(Merged(s, t)), g \in [1..k -> SetRecord]
  PROVE  Shaped(g)
<1> DEFINE M == Merged(s, t)
           opp(i) == k + 1 - i
<1>1. \A i \in 1..k : opp(i) \in 1..k
  OBVIOUS
<1>2. \A i, j \in 1..k : i <= j => opp(j) <= opp(i)
  OBVIOUS
<1>3. OwnItems(M) /\ \A i \in 1..k : Len(M[i].items) = Len(s[i].items) + Len(t[opp(i)].items)
  BY MergedItems, Zenon
<1>4. OwnItems(g) /\ SetsOf(g, M)
  BY <1>3, ResortedItems
<1> DEFINE S == [i \in 1..k |-> Len(s[i].items)]
           T == [i \in 1..k |-> Len(t[i].items)]
           J == [i \in 1..k |-> Len(M[i].items)]
<1> HIDE DEF M, opp
<1>5. \A i \in 1..k : /\ S[i] \in Nat /\ S[i] = Len(s[i].items) /\ (s[i].items = <<>> <=> S[i] = 0)
                      /\ T[i] \in Nat /\ T[i] = Len(t[i].items) /\ (t[i].items = <<>> <=> T[i] = 0)
                      /\ Len(g[i].items) \in Nat /\ (g[i].items = <<>> <=> Len(g[i].items) = 0)
  <2> TAKE i \in 1..k
  <2>1. s[i] \in SetRecord /\ t[i] \in SetRecord /\ g[i] \in SetRecord
    OBVIOUS
  <2>2. s[i].items \in Seq(Nat) /\ t[i].items \in Seq(Nat) /\ g[i].items \in Seq(Nat)
    BY <2>1, SetFields
  <2> QED
    BY <2>2, EmptySeq
<1>a. \A i \in 1..k : J[i] = S[i] + T[opp(i)] /\ S[i] \in Nat /\ T[opp(i)] \in Nat
  <2> TAKE i \in 1..k
  <2>1. opp(i) \in 1..k /\ Len(M[i].items) = Len(s[i].items) + Len(t[opp(i)].items)
    BY <1>1, <1>3, Zenon
  <2>2. J[i] = Len(M[i].items) /\ S[i] = Len(s[i].items) /\ T[opp(i)] = Len(t[opp(i)].items)
    BY <2>1
  <2>3. S[i] \in Nat /\ T[opp(i)] \in Nat
    BY <1>5, <2>1, Zenon
  <2> QED
    BY <2>1, <2>2, <2>3, Zenon
<1>b. \A i \in 1..k : \E j \in 1..k : Len(g[i].items) = J[j]
  <2> TAKE i \in 1..k
  <2>1. PICK j \in 1..k : g[i] = M[j]
    BY <1>4 DEF SetsOf
  <2>2. Len(g[i].items) = J[j]
    BY <2>1
  <2> QED
    BY <2>2
<1> HIDE DEF S, T, J
<1>6. CASE equal
  <2>1. \A i, j \in 1..k : S[i] = S[j] /\ S[i] # 0
    BY <1>5, <1>6 DEF Shaped, EqualCounts
  <2>2. \A i, j \in 1..k : T[i] = T[j]
    BY <1>5, <1>6 DEF Shaped, EqualCounts
  <2>3. \A i, j \in 1..k : J[i] = J[j] /\ J[i] # 0
    <3> TAKE i, j \in 1..k
    <3>1. S[i] = S[j] /\ S[i] # 0 /\ T[opp(i)] = T[opp(j)]
      BY <1>1, <2>1, <2>2
    <3> QED
      BY <1>a, <3>1
  <2>4. EqualCounts(g)
    <3>1. \A i, j \in 1..k : Len(g[i].items) = Len(g[j].items) /\ Len(g[i].items) # 0
      BY <1>b, <2>3
    <3> QED
      BY <1>5, <3>1 DEF EqualCounts
  <2> QED
    BY <1>6, <2>4 DEF Shaped
<1>7. CASE ~equal
  <2>1. EmptyLast(s) /\ EmptyLast(t) /\ FillsUp(s) /\ FillsUp(t)
    BY <1>7 DEF Shaped
  <2>2. EmptyLast(g)
    <3> SUFFICES ASSUME NEW i \in 1..k, NEW j \in 1..k, i <= j, g[j].items # <<>>, g[i].items = <<>>
                 PROVE  FALSE
      BY DEF EmptyLast
    <3>1. i < j
      OBVIOUS
    <3>2. ~SetLess(g[i], g[j])
      BY <3>1 DEF Resorted
    <3>3. g[i] \in SetRecord /\ g[j] \in SetRecord /\ WellKept(g[i])
      BY <1>4 DEF OwnItems
    <3> QED
      BY <3>2, <3>3, EmptyIsLess
  <2>a. \A i, j \in 1..k : i <= j /\ S[j] # 0 => S[i] # 0
    BY <1>5, <2>1 DEF EmptyLast
  <2>b. \A i, j \in 1..k : i <= j /\ T[j] # 0 => T[i] # 0
    BY <1>5, <2>1 DEF EmptyLast
  <2>c. (\A i \in 1..k : S[i] # 0) \/ (\A i \in 1..k : S[i] <= 1)
    BY <1>5, <2>1 DEF FillsUp
  <2>d. (\A i \in 1..k : T[i] # 0) \/ (\A i \in 1..k : T[i] <= 1)
    BY <1>5, <2>1 DEF FillsUp
  <2>3. (\A i \in 1..k : J[i] # 0) \/ (\A i \in 1..k : J[i] <= 1)
    <3> SUFFICES ASSUME NEW i \in 1..k, ~(J[i] <= 1), NEW j \in 1..k PROVE J[j] # 0
      OBVIOUS
    <3>1. opp(i) \in 1..k /\ opp(j) \in 1..k
      BY <1>1
    <3>a. J[j] = S[j] + T[opp(j)] /\ S[j] \in Nat /\ T[opp(j)] \in Nat
      BY <1>a
    <3>2. CASE \A a \in 1..k : S[a] # 0
      <4>1. S[j] # 0
        BY <3>2
      <4> QED
        BY <3>a, <4>1
    <3>3. CASE \A a \in 1..k : T[a] # 0
      <4>1. T[opp(j)] # 0
        BY <3>1, <3>3
      <4> QED
        BY <3>a, <4>1
    <3>4. CASE (\A a \in 1..k : S[a] <= 1) /\ (\A a \in 1..k : T[a] <= 1)
      <4>1. S[i] <= 1 /\ T[opp(i)] <= 1
        BY <3>1, <3>4
      <4>2. S[i] # 0 /\ T[opp(i)] # 0
        BY <1>a, <4>1
      <4>3. CASE j <= i
        <5>1. S[j] # 0
          BY <2>a, <4>2, <4>3
        <5> QED
          BY <3>a, <5>1
      <4>4. CASE i <= j
        <5>1. T[opp(j)] # 0
          BY <1>2, <2>b, <3>1, <4>2, <4>4
        <5> QED
          BY <3>a, <5>1
      <4> QED
        BY <4>3, <4>4
    <3> QED
      BY <2>c, <2>d, <3>2, <3>3, <3>4
  <2>4. FillsUp(g)
    <3>1. (\A i \in 1..k : Len(g[i].items) # 0) \/ (\A i \in 1..k : Len(g[i].items) <= 1)
      BY <1>b, <2>3
    <3> QED
      BY <1>5, <3>1 DEF FillsUp
  <2> QED
    BY <1>7, <2>2, <2>4 DEF Shaped
<1> QED
  BY <1>6, <1>7

\* A set of one item (Set.add).
LEMMA SingletonKept ==
  ASSUME work \in Seq(Nat), NEW x \in 1..Len(work)
  PROVE  /\ WellKept(Singleton(x)) /\ ToSet(Singleton(x).items) = {x}
         /\ Len(Singleton(x).items) = 1 /\ Singleton(x).items # <<>>
<1>1. Singleton(x).sum = work[x] /\ Singleton(x).items = <<x>> /\ work[x] \in Nat
  BY DEF Singleton
<1>2. ToSet(<<x>>) = {x} /\ Len(<<x>>) = 1 /\ Distinct(<<x>>) /\ <<x>> # <<>>
  BY DEF ToSet, Distinct
<1>3. Sigma(work, {} \cup {x}) = work[x] + Sigma(work, {})
  BY <1>1, FS_EmptySet, SigmaAdd
<1>4. Sigma(work, {x}) = work[x]
  <2>1. {} \cup {x} = {x}
    OBVIOUS
  <2> QED
    BY <1>1, <1>3, <2>1, SigmaEmpty
<1> QED
  BY <1>1, <1>2, <1>4 DEF WellKept

\* An empty set.
LEMMA EmptyKept ==
  WellKept(EmptySet) /\ ToSet(EmptySet.items) = {} /\ EmptySet.items = <<>> /\ Len(EmptySet.items) = 0
<1>1. EmptySet.sum = 0 /\ EmptySet.items = <<>>
  BY DEF EmptySet
<1>2. ToSet(<<>>) = {} /\ Len(<<>>) = 0 /\ Distinct(<<>>)
  BY DEF ToSet, Distinct
<1> QED
  BY <1>1, <1>2, SigmaEmpty DEF WellKept

\* The blocks have no place in common, and every place is in one.
LEMMA BlocksApart ==
  ASSUME NEW m \in Nat \ {0}, NEW b \in Nat, NEW c \in Nat, NEW i \in 1..m, NEW j \in 1..m,
         b * m + 1 - i = c * m + 1 - j
  PROVE  b = c /\ i = j
<1>1. ASSUME NEW x \in Nat, NEW y \in Nat, NEW u \in 1..m, NEW v \in 1..m, x < y
      PROVE  x * m + 1 - u # y * m + 1 - v
  <2>1. PICK d \in Nat : y = x + 1 + d
    <3>1. y - x - 1 \in Nat /\ y = x + 1 + (y - x - 1)
      BY <1>1
    <3> QED
      BY <3>1
  <2>2. y * m = x * m + m + d * m /\ d * m \in Nat /\ x * m \in Nat
    BY <2>1
  <2> DEFINE e == d * m
             z == x * m
             w == y * m
  <2>3. w = z + m + e /\ e \in Nat /\ z \in Nat
    BY <2>2
  <2>4. z + 1 - u # w + 1 - v
    <3> HIDE DEF e, z, w
    <3> QED
      BY <2>3
  <2> QED
    BY <2>4
<1>2. b = c
  BY <1>1
<1>3. b * m \in Nat
  OBVIOUS
<1> DEFINE z == b * m
<1>4. z \in Nat /\ z + 1 - i = z + 1 - j
  BY <1>2, <1>3
<1> HIDE DEF z
<1>5. i = j
  BY <1>4
<1> QED
  BY <1>2, <1>5

InBlock(p, n, m) == \E b \in 1..(n \div m) : \E i \in 1..m : p = b * m + 1 - i

\* Every place is in a block.
LEMMA BlockOfPlace ==
  ASSUME NEW n \in Nat, NEW m \in Nat \ {0}, NEW p \in 1..n, n % m = 0
  PROVE  InBlock(p, n, m)
<1> DEFINE q == (p - 1) \div m
           r == (p - 1) % m
           d == n \div m
           b == q + 1
           i == m - r
<1>1. p - 1 \in Nat /\ q \in Nat /\ r \in 0..(m - 1) /\ p - 1 = m * q + r
  OBVIOUS
<1>2. d \in Nat /\ n = m * d
  OBVIOUS
<1> HIDE DEF q, r, d
<1>3. q < d
  <2> SUFFICES ASSUME d <= q PROVE FALSE
    BY <1>1, <1>2
  <2>1. PICK e \in Nat : q = d + e
    <3>1. q - d \in Nat /\ q = d + (q - d)
      BY <1>1, <1>2
    <3> QED
      BY <3>1
  <2>2. m * q = m * d + m * e /\ m * e \in Nat /\ m * d \in Nat
    BY <1>2, <2>1
  <2> QED
    BY <1>1, <1>2, <2>2
<1>4. b \in 1..d /\ i \in 1..m
  BY <1>1, <1>2, <1>3
<1>5. b * m = m * q + m /\ m * q \in Nat
  BY <1>1
<1>6. p = b * m + 1 - i
  BY <1>1, <1>5
<1> QED
  BY <1>4, <1>6 DEF d, InBlock

\* What the States are made of when equal_size holds.
BlockState(b) == [i \in 1..k |-> Singleton(AtPosition(b * k + 1 - i))]

\* The items of the State of a block.
LEMMA BlockItems ==
  ASSUME work \in Seq(Nat), k \in Nat \ {0}, Len(work) % k = 0, equal,
         NEW b \in 1..(Len(work) \div k)
  PROVE  /\ OwnItems(BlockState(b)) /\ Shaped(BlockState(b))
         /\ \A i \in 1..k : Owned(BlockState(b), i) = {AtPosition(b * k + 1 - i)}
<1> DEFINE s == BlockState(b)
           At(i) == AtPosition(b * k + 1 - i)
<1>0. Len(work) \in Nat
  OBVIOUS
<1>1. \A i \in 1..k : b * k + 1 - i \in 1..Len(work)
  BY <1>0, BlockPlaces
<1>2. \A i \in 1..k : At(i) \in 1..Len(work) /\ Position(At(i)) = b * k + 1 - i
  BY <1>1, PositionsTaken
<1>3. \A i \in 1..k : s[i] = Singleton(At(i))
  BY DEF BlockState
<1>4. ASSUME NEW i \in 1..k, NEW j \in 1..k, At(i) = At(j) PROVE i = j
  <2>1. b * k + 1 - i = b * k + 1 - j
    BY <1>2, <1>4
  <2>2. b \in Nat
    <3>1. Len(work) \div k \in Nat
      BY <1>0
    <3> QED
      BY <3>1
  <2> QED
    BY <2>1, <2>2, BlocksApart
<1> HIDE DEF At, s
<1>5. \A i \in 1..k : /\ WellKept(s[i]) /\ ToSet(s[i].items) = {At(i)}
                      /\ Len(s[i].items) = 1 /\ s[i].items # <<>>
  BY <1>2, <1>3, SingletonKept
<1>6. OwnItems(s)
  <2>1. \A i, j \in 1..k : i # j => Owned(s, i) \cap Owned(s, j) = {}
    <3> TAKE i, j \in 1..k
    <3>1. HAVE i # j
    <3>2. At(i) # At(j) /\ Owned(s, i) = {At(i)} /\ Owned(s, j) = {At(j)}
      BY <1>4, <1>5, <3>1 DEF Owned
    <3> QED
      BY <3>2
  <2> QED
    BY <1>5, <2>1 DEF OwnItems
<1>7. Shaped(s)
  BY <1>5 DEF Shaped, EqualCounts
<1> QED
  BY <1>5, <1>6, <1>7 DEF Owned, s, At

\* The blocks together have every item, none twice (karmarkar_karp with equal_size).
LEMMA BlocksCover ==
  ASSUME work \in Seq(Nat), k \in Nat \ {0}, Len(work) % k = 0, equal
  PROVE  /\ UNION {Covered(BlockState(b)) : b \in 1..(Len(work) \div k)} = 1..Len(work)
         /\ \A b, c \in 1..(Len(work) \div k) : b # c => Covered(BlockState(b)) \cap Covered(BlockState(c)) = {}
<1> DEFINE B == 1..(Len(work) \div k)
           At(b, i) == AtPosition(b * k + 1 - i)
<1>0. Len(work) \in Nat /\ Len(work) \div k \in Nat
  OBVIOUS
<1>1. \A b \in B : \A i \in 1..k : Owned(BlockState(b), i) = {At(b, i)}
  BY BlockItems
<1>2. \A b \in B : \A i \in 1..k : b * k + 1 - i \in 1..Len(work)
  BY <1>0, BlockPlaces
<1>3. \A b \in B : \A i \in 1..k : At(b, i) \in 1..Len(work) /\ Position(At(b, i)) = b * k + 1 - i
  BY <1>2, PositionsTaken
<1>4. ASSUME NEW b \in B, NEW c \in B, NEW i \in 1..k, NEW j \in 1..k, At(b, i) = At(c, j) PROVE b = c
  <2>1. b * k + 1 - i = c * k + 1 - j
    <3>1. Position(At(b, i)) = b * k + 1 - i
      BY <1>3, Zenon
    <3>2. Position(At(c, j)) = c * k + 1 - j
      BY <1>3, Zenon
    <3> QED
      BY <1>4, <3>1, <3>2, Zenon
  <2>2. b \in Nat /\ c \in Nat
    BY <1>0
  <2> QED
    BY <2>1, <2>2, BlocksApart, SMTT(30)
<1>5. ASSUME NEW x \in 1..Len(work) PROVE \E b \in B : \E i \in 1..k : x = At(b, i)
  <2>1. Position(x) \in 1..Len(work) /\ AtPosition(Position(x)) = x
    BY PositionsTaken
  <2>2. PICK p : p = Position(x)
    OBVIOUS
  <2>3. p \in 1..Len(work)
    BY <2>1, <2>2
  <2>4. \E b \in B : \E i \in 1..k : p = b * k + 1 - i
    <3>1. InBlock(p, Len(work), k)
      BY <1>0, <2>3, BlockOfPlace
    <3> QED
      BY <3>1 DEF InBlock
  <2> QED
    BY <2>1, <2>2, <2>4
<1> HIDE DEF B, At
<1>6. \A b \in B : \A x : x \in Covered(BlockState(b)) <=> \E i \in 1..k : x = At(b, i)
  BY <1>1 DEF Covered
<1>7. UNION {Covered(BlockState(b)) : b \in B} = 1..Len(work)
  <2>1. ASSUME NEW x, x \in UNION {Covered(BlockState(b)) : b \in B} PROVE x \in 1..Len(work)
    BY <1>3, <1>6, <2>1
  <2>2. ASSUME NEW x \in 1..Len(work) PROVE x \in UNION {Covered(BlockState(b)) : b \in B}
    <3>1. PICK b \in B : \E i \in 1..k : x = At(b, i)
      BY <1>5
    <3>2. x \in Covered(BlockState(b))
      BY <1>6, <3>1
    <3> QED
      BY <3>2
  <2> QED
    BY <2>1, <2>2
<1>8. ASSUME NEW b \in B, NEW c \in B, b # c PROVE Covered(BlockState(b)) \cap Covered(BlockState(c)) = {}
  BY <1>4, <1>6, <1>8
<1> QED
  BY <1>7, <1>8 DEF B

\* What the States are made of when it does not.
ItemState(x) == [i \in 1..k |-> IF i = 1 THEN Singleton(x) ELSE EmptySet]

\* The items of the State of one item.
LEMMA ItemItems ==
  ASSUME work \in Seq(Nat), k \in Nat \ {0}, ~equal, NEW x \in 1..Len(work)
  PROVE  OwnItems(ItemState(x)) /\ Shaped(ItemState(x)) /\ Covered(ItemState(x)) = {x}
<1> DEFINE s == ItemState(x)
<1>1. 1 \in 1..k /\ s[1] = Singleton(x) /\ \A i \in 1..k : i # 1 => s[i] = EmptySet
  BY DEF ItemState
<1> HIDE DEF s
<1>2. WellKept(s[1]) /\ Owned(s, 1) = {x} /\ Len(s[1].items) = 1 /\ s[1].items # <<>>
  BY <1>1, SingletonKept DEF Owned
<1>3. \A i \in 1..k : i # 1 => WellKept(s[i]) /\ Owned(s, i) = {} /\ Len(s[i].items) = 0 /\ s[i].items = <<>>
  BY <1>1, EmptyKept DEF Owned
<1>4. OwnItems(s)
  BY <1>2, <1>3 DEF OwnItems
<1>5. Covered(s) = {x}
  BY <1>1, <1>2, <1>3 DEF Covered
<1>7. EmptyLast(s)
  BY <1>2, <1>3 DEF EmptyLast
<1>8. FillsUp(s)
  <2>1. \A i \in 1..k : Len(s[i].items) <= 1
    <3> TAKE i \in 1..k
    <3> DEFINE l == Len(s[i].items)
    <3>1. l = 1 \/ l = 0
      <4>1. CASE i = 1
        BY <1>2, <4>1
      <4>2. CASE i # 1
        BY <1>3, <4>2
      <4> QED
        BY <4>1, <4>2
    <3> HIDE DEF l
    <3>2. l <= 1
      BY <3>1
    <3> QED
      BY <3>2 DEF l
  <2> QED
    BY <2>1 DEF FillsUp
<1> QED
  BY <1>4, <1>5, <1>7, <1>8 DEF Shaped, s

\* If the States satisfy it and do not change otherwise, ItemInv holds after the step.
LEMMA ItemInvPrimed ==
  ASSUME work' = work, k' = k, equal' = equal,
         \A s \in heap' : OwnItems(s) /\ Shaped(s),
         \A s, t \in heap' : s # t => Covered(s) \cap Covered(t) = {},
         kk' = "merge" => UNION {Covered(s) : s \in heap'} = 1..Len(work)
  PROVE  ItemInv'
<1>1. ASSUME NEW s PROVE Covered(s)' = Covered(s) /\ OwnItems(s)' = OwnItems(s) /\ Shaped(s)' = Shaped(s)
  BY DEF Covered, Owned, OwnItems, WellKept, Shaped, EqualCounts, EmptyLast, FillsUp
<1>2. \A s \in heap' : OwnItems(s)' /\ Shaped(s)'
  BY <1>1
<1>3. \A s, t \in heap' : s # t => Covered(s)' \cap Covered(t)' = {}
  BY <1>1
<1>4. kk' = "merge" => UNION {Covered(s)' : s \in heap'} = 1..Len(work')
  BY <1>1
<1> QED
  BY <1>2, <1>3, <1>4 DEF ItemInv

\* A merge keeps the items (MergeStates).
LEMMA MergeKeepsItems ==
  ASSUME IndInv, ItemInv, MergeStates
  PROVE  ItemInv'
<1>t. work \in Seq(Nat) /\ k \in Nat \ {0} /\ equal \in BOOLEAN /\ \A u \in heap : u \in [1..k -> SetRecord]
  BY DEF IndInv, KKTypeOK, SetRecord
<1>1. work' = work /\ k' = k /\ equal' = equal /\ kk' = kk /\ kk = "merge"
  BY DEF MergeStates, kkArgs
<1>2. PICK s \in heap, t \in heap : s # t /\ \E g \in Resorted(Merged(s, t)) : heap' = (heap \ {s, t}) \cup {g}
  BY DEF MergeStates
<1>3. PICK g \in Resorted(Merged(s, t)) : heap' = (heap \ {s, t}) \cup {g}
  BY <1>2
<1>4. OwnItems(s) /\ OwnItems(t) /\ Shaped(s) /\ Shaped(t) /\ Covered(s) \cap Covered(t) = {}
  BY <1>2 DEF ItemInv
<1>5. g \in [1..k -> SetRecord]
  BY <1>t, ResortedState
<1>6. PICK m : m = Merged(s, t)
  OBVIOUS
<1>7. OwnItems(m) /\ Covered(m) = Covered(s) \cup Covered(t)
  BY <1>t, <1>4, <1>6, MergedItems
<1>8. OwnItems(g) /\ Covered(g) = Covered(s) \cup Covered(t)
  BY <1>t, <1>6, <1>7, ResortedItems
<1>9. Shaped(g)
  BY <1>t, <1>4, <1>5, ShapedMerge
<1>10. \A u \in heap' : u \in heap \/ u = g
  BY <1>3
<1>11. \A u \in heap' : OwnItems(u) /\ Shaped(u)
  BY <1>8, <1>9, <1>10 DEF ItemInv
<1>12. \A u \in heap : u # s /\ u # t => Covered(u) \cap Covered(g) = {}
  <2> TAKE u \in heap
  <2>1. HAVE u # s /\ u # t
  <2>2. Covered(u) \cap Covered(s) = {} /\ Covered(u) \cap Covered(t) = {}
    BY <2>1 DEF ItemInv
  <2> QED
    BY <1>8, <2>2
<1>13. \A u, v \in heap' : u # v => Covered(u) \cap Covered(v) = {}
  <2> SUFFICES ASSUME NEW u \in heap', NEW v \in heap', u # v PROVE Covered(u) \cap Covered(v) = {}
    OBVIOUS
  <2>1. CASE u = g
    <3>1. v \in heap /\ v # s /\ v # t
      BY <1>3, <2>1
    <3> QED
      BY <1>12, <2>1, <3>1
  <2>2. CASE v = g
    <3>1. u \in heap /\ u # s /\ u # t
      BY <1>3, <2>2
    <3> QED
      BY <1>12, <2>2, <3>1
  <2>3. CASE u # g /\ v # g
    BY <1>10, <2>3 DEF ItemInv
  <2> QED
    BY <2>1, <2>2, <2>3
<1>14. UNION {Covered(u) : u \in heap'} = UNION {Covered(u) : u \in heap}
  <2>1. ASSUME NEW x \in UNION {Covered(u) : u \in heap'} PROVE x \in UNION {Covered(u) : u \in heap}
    <3>1. PICK u \in heap' : x \in Covered(u)
      OBVIOUS
    <3> QED
      BY <1>8, <1>10, <3>1
  <2>2. ASSUME NEW x \in UNION {Covered(u) : u \in heap} PROVE x \in UNION {Covered(u) : u \in heap'}
    <3>1. PICK u \in heap : x \in Covered(u)
      OBVIOUS
    <3>2. CASE u = s \/ u = t
      <4>1. x \in Covered(g) /\ g \in heap'
        BY <1>3, <1>8, <3>1, <3>2
      <4> QED
        BY <4>1
    <3>3. CASE u # s /\ u # t
      BY <1>3, <3>1, <3>3
    <3> QED
      BY <3>2, <3>3
  <2> QED
    BY <2>1, <2>2
<1>15. UNION {Covered(u) : u \in heap} = 1..Len(work)
  BY <1>1 DEF ItemInv
<1> QED
  BY <1>1, <1>11, <1>13, <1>14, <1>15, ItemInvPrimed

\* Every step of the method keeps the items.
LEMMA StepKeepsItems == IndInv /\ ItemInv /\ [KKNext]_kkVars => ItemInv'
<1> SUFFICES ASSUME IndInv, ItemInv, [KKNext]_kkVars PROVE ItemInv'
  OBVIOUS
<1>t. work \in Seq(Nat) /\ k \in Nat \ {0} /\ equal \in BOOLEAN /\ (kk # "merge" => heap = {})
  BY DEF IndInv, KKTypeOK
<1>0. ASSUME heap' = {}, kk' # "merge" PROVE ItemInv'
  BY <1>0 DEF ItemInv
<1>1. CASE KKCall
  <2>1. heap' = {} /\ kk' = "build"
    BY <1>1, <1>t DEF KKCall
  <2> QED
    BY <1>0, <2>1
<1>2. CASE BuildEqual
  <2>a. work' = work /\ k' = k /\ equal' = equal /\ equal /\ heap = {}
    BY <1>2, <1>t DEF BuildEqual, kkArgs
  <2>1. CASE Len(work) % k # 0
    <3>1. heap' = {} /\ kk' = "failed"
      BY <1>2, <2>1, <2>a DEF BuildEqual
    <3> QED
      BY <1>0, <3>1
  <2>2. CASE Len(work) % k = 0
    <3> DEFINE B == 1..(Len(work) \div k)
    <3>1. heap' = {BlockState(b) : b \in B} /\ kk' = "merge"
      BY <1>2, <2>2 DEF BuildEqual, BlockState
    <3>2. \A b \in B : OwnItems(BlockState(b)) /\ Shaped(BlockState(b))
      BY <1>t, <2>a, <2>2, BlockItems
    <3>3. /\ UNION {Covered(BlockState(b)) : b \in B} = 1..Len(work)
          /\ \A b, c \in B : b # c => Covered(BlockState(b)) \cap Covered(BlockState(c)) = {}
      BY <1>t, <2>a, <2>2, BlocksCover
    <3> HIDE DEF B
    <3>4. \A u \in heap' : \E b \in B : u = BlockState(b)
      BY <3>1
    <3>5. \A u \in heap' : OwnItems(u) /\ Shaped(u)
      BY <3>2, <3>4
    <3>6. \A u, v \in heap' : u # v => Covered(u) \cap Covered(v) = {}
      BY <3>3, <3>4
    <3>7. UNION {Covered(u) : u \in heap'} = UNION {Covered(BlockState(b)) : b \in B}
      BY <3>1
    <3> QED
      BY <2>a, <3>3, <3>5, <3>6, <3>7, ItemInvPrimed
  <2> QED
    BY <2>1, <2>2
<1>3. CASE BuildSingle
  <2>a. work' = work /\ k' = k /\ equal' = equal /\ ~equal
    BY <1>3 DEF BuildSingle, kkArgs
  <2>1. heap' = {ItemState(x) : x \in 1..Len(work)}
    BY <1>3 DEF BuildSingle, ItemState
  <2>2. \A x \in 1..Len(work) : OwnItems(ItemState(x)) /\ Shaped(ItemState(x)) /\ Covered(ItemState(x)) = {x}
    BY <1>t, <2>a, ItemItems
  <2>3. \A u \in heap' : \E x \in 1..Len(work) : u = ItemState(x)
    BY <2>1
  <2>4. \A u \in heap' : OwnItems(u) /\ Shaped(u)
    BY <2>2, <2>3
  <2>5. \A u, v \in heap' : u # v => Covered(u) \cap Covered(v) = {}
    <3> SUFFICES ASSUME NEW u \in heap', NEW v \in heap', u # v PROVE Covered(u) \cap Covered(v) = {}
      OBVIOUS
    <3>1. PICK x \in 1..Len(work) : u = ItemState(x)
      BY <2>3
    <3>2. PICK y \in 1..Len(work) : v = ItemState(y)
      BY <2>3
    <3>3. x # y
      BY <3>1, <3>2
    <3> QED
      BY <2>2, <3>1, <3>2, <3>3
  <2>6. UNION {Covered(u) : u \in heap'} = 1..Len(work)
    <3>1. ASSUME NEW x \in UNION {Covered(u) : u \in heap'} PROVE x \in 1..Len(work)
      BY <2>2, <2>3
    <3>2. ASSUME NEW x \in 1..Len(work) PROVE x \in UNION {Covered(u) : u \in heap'}
      <4>1. ItemState(x) \in heap' /\ x \in Covered(ItemState(x))
        BY <2>1, <2>2
      <4> QED
        BY <4>1
    <3> QED
      BY <3>1, <3>2
  <2> QED
    BY <2>a, <2>4, <2>5, <2>6, ItemInvPrimed
<1>4. CASE MergeStates
  BY <1>4, MergeKeepsItems
<1>5. CASE \E s \in heap : KKReturn(s)
  <2>1. heap' = {} /\ kk' = "idle"
    BY <1>5 DEF KKReturn
  <2> QED
    BY <1>0, <2>1
<1>6. CASE UNCHANGED kkVars
  <2>1. work' = work /\ k' = k /\ equal' = equal /\ heap' = heap /\ kk' = kk
    BY <1>6 DEF kkVars
  <2>2. /\ \A s \in heap' : OwnItems(s) /\ Shaped(s)
        /\ \A s, t \in heap' : s # t => Covered(s) \cap Covered(t) = {}
        /\ kk' = "merge" => UNION {Covered(s) : s \in heap'} = 1..Len(work)
    BY <2>1 DEF ItemInv
  <2> QED
    BY <2>1, <2>2, ItemInvPrimed
<1> QED
  BY <1>1, <1>2, <1>3, <1>4, <1>5, <1>6 DEF KKNext

-----------------------------------------------------------------------------
(* The result.                                                             *)

\* P deals the numbers 1 to n into m non-empty lists, each number once.
Divides(P, m, n) ==
  /\ P \in Seq(Seq(Nat)) /\ Len(P) = m
  /\ \A i \in 1..m : Distinct(P[i]) /\ P[i] # <<>>
  /\ \A i, j \in 1..m : i # j => ToSet(P[i]) \cap ToSet(P[j]) = {}
  /\ UNION {ToSet(P[i]) : i \in 1..m} = 1..n

\* The lists, one after the other, have every number once.
LEMMA FlattenDivides ==
  ASSUME NEW P, NEW m \in Nat \ {0}, NEW n \in Nat, P \in Seq(Seq(Nat)), Len(P) = m,
         \A i \in 1..m : Distinct(P[i]),
         \A i, j \in 1..m : i # j => ToSet(P[i]) \cap ToSet(P[j]) = {},
         UNION {ToSet(P[i]) : i \in 1..m} = 1..n
  PROVE  /\ FlattenSeq(P) \in Seq(Nat) /\ Distinct(FlattenSeq(P)) /\ Len(FlattenSeq(P)) = n
         /\ ToSet(FlattenSeq(P)) = 1..n
<1>1. P # <<>>
  <2>1. Len(<<>>) = 0
    OBVIOUS
  <2> QED
    BY <2>1
<1>2. /\ FlattenSeq(P) \in Seq(Nat) /\ Distinct(FlattenSeq(P))
      /\ ToSet(FlattenSeq(P)) = UNION {ToSet(P[i]) : i \in 1..Len(P)}
  BY <1>1, FlattenDistinct
<1>3. ToSet(FlattenSeq(P)) = 1..n
  BY <1>2
<1>4. Cardinality(ToSet(FlattenSeq(P))) = Len(FlattenSeq(P))
  BY <1>2, DistinctCard
<1>5. Cardinality(1..n) = n
  BY CardSegment
<1> QED
  BY <1>2, <1>3, <1>4, <1>5

\* The sets of the State that is left, as lists, have every item once.
LEMMA LastItems ==
  ASSUME NEW s, IndInv, ItemInv, kk = "merge", heap = {s}
  PROVE  /\ s \in [1..k -> SetRecord] /\ OwnItems(s) /\ Shaped(s) /\ Covered(s) = 1..Len(work)
         /\ work \in Seq(Nat) /\ k \in Nat \ {0} /\ equal \in BOOLEAN /\ Len(work) \in Nat
<1>1. s \in [1..k -> SetRecord] /\ work \in Seq(Nat) /\ k \in Nat \ {0} /\ equal \in BOOLEAN
  BY DEF IndInv, KKTypeOK, SetRecord
<1>2. OwnItems(s) /\ Shaped(s) /\ UNION {Covered(t) : t \in heap} = 1..Len(work)
  BY DEF ItemInv
<1>3. UNION {Covered(t) : t \in heap} = Covered(s)
  OBVIOUS
<1>4. Covered(s) = 1..Len(work)
  BY <1>2, <1>3
<1>5. Len(work) \in Nat
  BY <1>1
<1> QED
  BY <1>1, <1>2, <1>4, <1>5, Zenon

\* With equal_size the sets have equally many items.
LEMMA EqualSizes ==
  ASSUME NEW s, IndInv, ItemInv, kk = "merge", heap = {s}, equal
  PROVE  \A i \in 1..k : Len(s[i].items) * k = Len(work) /\ s[i].items # <<>>
<1>1. /\ s \in [1..k -> SetRecord] /\ OwnItems(s) /\ Shaped(s) /\ Covered(s) = 1..Len(work)
      /\ work \in Seq(Nat) /\ k \in Nat \ {0} /\ Len(work) \in Nat
  BY LastItems
<1>2. PICK F : F = [i \in 1..k |-> s[i].items]
  OBVIOUS
<1>3. \A i \in 1..k : F[i] \in Seq(Nat) /\ F[i] = s[i].items
  BY <1>1, <1>2, SetFields
<1>4. F \in Seq(Seq(Nat)) /\ Len(F) = k
  BY <1>1, <1>2, <1>3
<1>5. /\ \A i \in 1..k : Distinct(F[i])
      /\ \A i, j \in 1..k : i # j => ToSet(F[i]) \cap ToSet(F[j]) = {}
  BY <1>1, <1>3 DEF OwnItems, WellKept, Owned
<1>6. UNION {ToSet(F[i]) : i \in 1..k} = 1..Len(work)
  BY <1>1, <1>3 DEF Covered, Owned
<1>7. Len(FlattenSeq(F)) = Len(work)
  BY <1>1, <1>4, <1>5, <1>6, FlattenDivides
<1>8. 1 \in 1..k /\ F # <<>>
  <2>1. Len(<<>>) = 0
    OBVIOUS
  <2> QED
    BY <1>1, <1>4, <2>1
<1>9. PICK c \in Nat : c = Len(s[1].items)
  BY <1>3, <1>8
<1>10. \A i \in 1..k : Len(s[i].items) = c /\ s[i].items # <<>>
  BY <1>1, <1>8, <1>9 DEF Shaped, EqualCounts
<1>11. \A i \in 1..Len(F) : Len(F[i]) = c
  BY <1>3, <1>4, <1>10
<1>12. Len(FlattenSeq(F)) = Len(F) * c
  BY <1>4, <1>8, <1>11, FlattenEqualParts
<1>13. c * k = Len(work)
  BY <1>1, <1>4, <1>7, <1>12
<1> QED
  BY <1>10, <1>13

\* Without it no set is empty: as long as there is an empty one, there are fewer items
\* than sets.
LEMMA NoneEmpty ==
  ASSUME NEW s, IndInv, ItemInv, kk = "merge", heap = {s}, ~equal, k <= Len(work)
  PROVE  \A i \in 1..k : s[i].items # <<>>
<1>1. /\ s \in [1..k -> SetRecord] /\ OwnItems(s) /\ Shaped(s) /\ Covered(s) = 1..Len(work)
      /\ work \in Seq(Nat) /\ k \in Nat \ {0} /\ Len(work) \in Nat
  BY LastItems
<1> SUFFICES ASSUME NEW e \in 1..k, s[e].items = <<>> PROVE FALSE
  OBVIOUS
<1>2. \A i \in 1..k : Len(s[i].items) <= 1 /\ s[i].items \in Seq(Nat)
  <2>1. \A i \in 1..k : s[i].items \in Seq(Nat)
    BY <1>1, SetFields
  <2>2. FillsUp(s)
    BY <1>1 DEF Shaped
  <2> QED
    BY <2>1, <2>2 DEF FillsUp
<1> DEFINE n == Len(work)
           D == 1..n
           E == (1..k) \ {e}
           own == [x \in D |-> CHOOSE i \in 1..k : x \in Owned(s, i)]
<1>3. \A x \in D : own[x] \in 1..k /\ x \in Owned(s, own[x])
  <2> TAKE x \in D
  <2>1. \E i \in 1..k : x \in Owned(s, i)
    BY <1>1 DEF Covered
  <2> QED
    BY <2>1
<1>4. Owned(s, e) = {}
  BY DEF Owned, ToSet
<1>5. \A x \in D : own[x] \in E
  BY <1>3, <1>4
<1>6. ASSUME NEW i \in 1..k, NEW x \in Owned(s, i), NEW y \in Owned(s, i) PROVE x = y
  <2>1. PICK q : q = s[i].items
    OBVIOUS
  <2>2. q \in Seq(Nat) /\ Len(q) <= 1 /\ Len(q) \in Nat /\ DOMAIN q = 1..Len(q)
    BY <1>2, <2>1
  <2>3. PICK a \in 1..Len(q) : x = q[a]
    BY <2>1, <2>2 DEF Owned, ToSet
  <2>4. PICK b \in 1..Len(q) : y = q[b]
    BY <2>1, <2>2 DEF Owned, ToSet
  <2>5. a = b
    BY <2>2, <2>3, <2>4
  <2> QED
    BY <2>3, <2>4, <2>5
<1>7. own \in Injection(D, E)
  <2>1. \A x, y \in D : own[x] = own[y] => x = y
    BY <1>3, <1>6
  <2>2. own \in [D -> E]
    <3>1. own = [x \in D |-> own[x]]
      OBVIOUS
    <3> HIDE DEF own, D, E
    <3> QED
      BY <1>5, <3>1
  <2> HIDE DEF own, D, E
  <2> QED
    BY <2>1, <2>2 DEF Injection, IsInjective
<1>8. IsFiniteSet(D) /\ Cardinality(D) = n
  BY <1>1, CardSegment
<1>9. IsFiniteSet(E) /\ Cardinality(E) = k - 1
  <2>1. IsFiniteSet(1..k) /\ Cardinality(1..k) = k
    BY <1>1, CardSegment
  <2>2. IsFiniteSet(E) /\ Cardinality(1..k) = Cardinality(E) + 1 /\ Cardinality(E) \in Nat
    BY <2>1, RemoveOne
  <2> HIDE DEF E
  <2> QED
    BY <1>1, <2>1, <2>2
<1> HIDE DEF D, E, own
<1>10. Cardinality(D) <= Cardinality(E)
  <2>1. ExistsInjection(D, E)
    BY <1>7 DEF ExistsInjection
  <2>2. PICK f \in Injection(D, E) : TRUE
    BY <1>7
  <2> QED
    BY <1>9, <2>2, FS_Injection
<1> QED
  BY <1>1, <1>8, <1>9, <1>10

\* The result of karmarkar_karp passes its checks: no partition is empty if there are not
\* more partitions than items, every item is in one, and equal_size is kept.
LEMMA ResultAsserted ==
  ASSUME NEW s, IndInv, ItemInv, kk = "merge", heap = {s}, k <= Len(work)
  PROVE  Asserted(s)
<1>1. /\ Covered(s) = 1..Len(work) /\ equal \in BOOLEAN
  BY LastItems
<1>2. \A i \in 1..k : s[i].items # <<>>
  BY <1>1, EqualSizes, NoneEmpty
<1>3. equal => \A i \in 1..k : Len(s[i].items) * k = Len(work)
  BY EqualSizes
<1>4. UNION {ToSet(s[i].items) : i \in 1..k} = 1..Len(work)
  BY <1>1 DEF Covered, Owned
<1> QED
  BY <1>2, <1>3, <1>4 DEF Asserted

\* The partitions that are returned deal the items, with the sums of the sets.
LEMMA ResultDivides ==
  ASSUME NEW s, IndInv, ItemInv, kk = "merge", heap = {s}, k <= Len(work)
  PROVE  /\ Divides(Partitions(s), k, Len(work))
         /\ \A i \in 1..k : Sigma(work, ToSet(Partitions(s)[i])) = s[i].sum
         /\ equal => \A i \in 1..k : Len(Partitions(s)[i]) * k = Len(work)
<1>1. /\ s \in [1..k -> SetRecord] /\ OwnItems(s) /\ Covered(s) = 1..Len(work)
      /\ work \in Seq(Nat) /\ k \in Nat \ {0} /\ Len(work) \in Nat
  BY LastItems
<1>2. Asserted(s)
  BY ResultAsserted
<1>3. PICK P : P = Partitions(s)
  OBVIOUS
<1>4. \A i \in 1..k : P[i] = Increasing(Owned(s, i))
  BY <1>3 DEF Partitions, Owned
<1>5. ASSUME NEW i \in 1..k
      PROVE  /\ P[i] \in Seq(Nat) /\ Distinct(P[i]) /\ ToSet(P[i]) = Owned(s, i)
             /\ Len(P[i]) = Len(s[i].items) /\ P[i] # <<>>
  <2>1. PICK q : q = s[i].items
    OBVIOUS
  <2>2. q \in Seq(Nat) /\ Distinct(q) /\ Owned(s, i) = ToSet(q)
    BY <1>1, <2>1, SetFields DEF OwnItems, WellKept, Owned
  <2>3. PICK S : S = ToSet(q)
    OBVIOUS
  <2>4. IsFiniteSet(S) /\ S \subseteq Nat /\ Cardinality(S) = Len(q)
    BY <2>2, <2>3, DistinctCard, FiniteToSet
  <2>5. /\ Increasing(S) \in Seq(S) /\ Len(Increasing(S)) = Cardinality(S)
        /\ Distinct(Increasing(S)) /\ ToSet(Increasing(S)) = S
    BY <2>4, IncreasingOnce
  <2>6. PICK r : r = Increasing(S)
    OBVIOUS
  <2>7. r \in Seq(S) /\ Len(r) = Len(q) /\ Distinct(r) /\ ToSet(r) = S /\ P[i] = r
    BY <1>4, <2>2, <2>3, <2>4, <2>5, <2>6
  <2>8. r \in Seq(Nat)
    <3>1. Len(r) \in Nat /\ r \in [1..Len(r) -> S]
      BY <2>7
    <3>2. r \in [1..Len(r) -> Nat]
      BY <2>4, <3>1
    <3> QED
      BY <3>1, <3>2
  <2>9. Len(q) # 0
    BY <1>2, <2>1, <2>2, EmptySeq DEF Asserted
  <2>10. r # <<>>
    BY <2>7, <2>8, <2>9, EmptySeq
  <2> QED
    BY <2>1, <2>2, <2>3, <2>7, <2>8, <2>10
<1>6. P \in Seq(Seq(Nat)) /\ Len(P) = k
  <2>1. P = [i \in 1..k |-> P[i]]
    BY <1>3 DEF Partitions
  <2>2. P \in [1..k -> Seq(Nat)]
    BY <1>5, <2>1
  <2> QED
    BY <1>1, <2>2
<1>7. \A i, j \in 1..k : i # j => ToSet(P[i]) \cap ToSet(P[j]) = {}
  BY <1>1, <1>5 DEF OwnItems
<1>8. UNION {ToSet(P[i]) : i \in 1..k} = 1..Len(work)
  BY <1>1, <1>5 DEF Covered
<1>9. Divides(P, k, Len(work))
  BY <1>5, <1>6, <1>7, <1>8 DEF Divides
<1>10. \A i \in 1..k : Sigma(work, ToSet(P[i])) = s[i].sum
  BY <1>1, <1>5 DEF OwnItems, WellKept, Owned
<1>11. equal => \A i \in 1..k : Len(P[i]) * k = Len(work)
  BY <1>2, <1>5 DEF Asserted
<1> QED
  BY <1>3, <1>9, <1>10, <1>11

\* Both invariants hold before the first call.
LEMMA InitKeepsInv == KKInit => IndInv /\ ItemInv
<1> SUFFICES ASSUME KKInit PROVE IndInv /\ ItemInv
  OBVIOUS
<1>1. heap = {} /\ kk = "idle"
  BY DEF KKInit
<1>2. ItemInv
  BY <1>1 DEF ItemInv
<1> QED
  BY <1>2, InitKeepsInd

\* The State that is left passes the asserts, if there are items enough, and the partitions
\* returned deal the items: each is in one partition, once.
ReturnsDealt ==
  \A s \in heap : kk = "merge" /\ heap = {s} /\ k <= Len(work) =>
    Asserted(s) /\ Divides(Partitions(s), k, Len(work))

\* karmarkar_karp returns a partition of the items into k non-empty sets, for any workloads
\* and any k up to their number, and its asserts pass.
THEOREM ResultsPassAsserts == KKSpec => []ReturnsDealt
<1>1. IndInv /\ ItemInv => ReturnsDealt
  BY ResultAsserted, ResultDivides DEF ReturnsDealt
<1> QED
  BY <1>1, InitKeepsInv, StepKeepsInv, StepKeepsItems, PTL DEF KKSpec
=============================================================================
