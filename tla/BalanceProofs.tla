--------------------------- MODULE BalanceProofs ---------------------------
(***************************************************************************)
(* A batch on its way to the ranks and back: no assertion fails, the ranks *)
(* get equal work and equally many micro-batches, a micro-batch keeps to   *)
(* its budget of tokens, and the outputs come back in order, for batches   *)
(* of any size, any lengths and any number of ranks and workers.           *)
(***************************************************************************)
EXTENDS SeqlenBalance, KarmarkarKarpProofs

-----------------------------------------------------------------------------
(* Numbers.                                                                *)

\* A multiple of a product is divided by the first factor.
LEMMA Multiple ==
  ASSUME NEW a \in Nat, NEW b \in Nat \ {0}
  PROVE  (b * a) % b = 0 /\ (b * a) \div b = a
OBVIOUS

\* A number without rest is a multiple.
LEMMA NoRest ==
  ASSUME NEW a \in Nat, NEW b \in Nat \ {0}, a % b = 0
  PROVE  a \div b \in Nat /\ a = b * (a \div b)
OBVIOUS

\* The padded length is a multiple (upsample_batch_to_divisible_size).
LEMMA PaddedLength ==
  ASSUME NEW a \in Nat, NEW b \in Nat \ {0}
  PROVE  (b - (a % b)) % b \in Nat /\ (a + ((b - (a % b)) % b)) % b = 0
<1> DEFINE r == a % b
           q == a \div b
<1>1. r \in 0..(b - 1) /\ q \in Nat /\ a = b * q + r
  OBVIOUS
<1>2. CASE r = 0
  <2>1. (b - r) % b = 0 /\ a + 0 = a /\ a % b = 0
    BY <1>2
  <2> QED
    BY <2>1
<1>3. CASE r # 0
  <2>1. (b - r) % b = b - r /\ b - r \in Nat
    <3> HIDE DEF r
    <3> QED
      BY <1>1, <1>3
  <2>2. a + (b - r) = b * (q + 1)
    <3> HIDE DEF r, q
    <3> QED
      BY <1>1
  <2>3. (b * (q + 1)) % b = 0
    <3>1. q + 1 \in Nat
      BY <1>1
    <3> HIDE DEF q
    <3> QED
      BY <3>1, Multiple
  <2> QED
    BY <2>1, <2>2, <2>3
<1> QED
  BY <1>2, <1>3

EvenShares(n, p) == n \div p \in Nat \ {0} /\ n = p * (n \div p) /\ p <= n

\* The ranks' shares of a batch that is a multiple of their number.
LEMMA ShareMultiple ==
  ASSUME NEW n \in Nat \ {0}, NEW p \in Nat \ {0}, n % p = 0
  PROVE  EvenShares(n, p)
<1>1. PICK e : e = n \div p
  OBVIOUS
<1>2. e \in Nat /\ n = p * e
  BY <1>1, NoRest
<1>3. e # 0
  BY <1>2
<1>4. p <= p * e
  <2>1. PICK x \in Nat : e = x + 1
    <3>1. e - 1 \in Nat /\ e = (e - 1) + 1
      BY <1>2, <1>3
    <3> QED
      BY <3>1
  <2>2. p * (x + 1) = p * x + p /\ p * x \in Nat
    BY <2>1
  <2> QED
    BY <2>1, <2>2
<1> QED
  BY <1>1, <1>2, <1>3, <1>4 DEF EvenShares

\* A multiple of a multiple.
LEMMA MultipleOfMultiple ==
  ASSUME NEW a \in Nat, NEW b \in Nat \ {0}, NEW c \in Nat \ {0}, a % b = 0, b % c = 0
  PROVE  a % c = 0
<1>1. PICK x \in Nat : a = b * x
  BY NoRest
<1>2. PICK y \in Nat : b = c * y
  BY NoRest
<1>3. a = c * (y * x) /\ y * x \in Nat
  BY <1>1, <1>2
<1>4. (c * (y * x)) % c = 0
  BY <1>3, Multiple, ZenonT(30)
<1> QED
  BY <1>3, <1>4, ZenonT(30)

\* The least common multiple is a multiple of both (math.lcm).
LEMMA LcmFacts ==
  ASSUME NEW a \in Nat \ {0}, NEW b \in Nat \ {0}
  PROVE  Lcm(a, b) \in Nat \ {0} /\ Lcm(a, b) % a = 0 /\ Lcm(a, b) % b = 0
<1>1. PICK c : c = a * b
  OBVIOUS
<1>2. c \in Nat \ {0} /\ c % a = 0 /\ c % b = 0
  <2>1. (a * b) % a = 0 /\ (b * a) % b = 0
    BY Multiple
  <2>2. a * b = b * a /\ a * b \in Nat \ {0}
    OBVIOUS
  <2> QED
    BY <1>1, <2>1, <2>2, ZenonT(30)
<1>3. PICK S : S = {m \in 1..c : m % a = 0 /\ m % b = 0}
  OBVIOUS
<1>4. S \in SUBSET Nat /\ c \in S
  BY <1>2, <1>3
<1>5. \E x \in S : \A y \in S : x <= y
  BY <1>4, LeastNat
<1>6. PICK z : z = Min(S)
  OBVIOUS
<1>7. z \in S
  BY <1>5, <1>6 DEF Min
<1>8. Lcm(a, b) = z
  BY <1>1, <1>3, <1>6 DEF Lcm
<1> QED
  BY <1>2, <1>3, <1>7, <1>8

\* Rounding up to a multiple does not go past a multiple (roundup_divisible).
LEMMA RoundupBetween ==
  ASSUME NEW a \in Nat \ {0}, NEW n \in Nat \ {0}, NEW d \in Nat \ {0}, a <= n, n % d = 0
  PROVE  RoundupDivisible(a, d) <= n
<1> DEFINE x == a + d - 1
           q == x \div d
           r == x % d
<1>1. x \in Nat /\ q \in Nat /\ r \in 0..(d - 1) /\ x = d * q + r
  OBVIOUS
<1>2. PICK m \in Nat : n = d * m
  <2>1. n \div d \in Nat /\ n = d * (n \div d)
    <3>1. n \in Nat
      OBVIOUS
    <3> QED
      BY <3>1, NoRest, ZenonT(30)
  <2> QED
    BY <2>1, ZenonT(30)
<1>3. RoundupDivisible(a, d) = q * d
  BY DEF RoundupDivisible
<1>4. x = a + d - 1
  OBVIOUS
<1> HIDE DEF x, q, r
<1>5. q * d = d * q /\ d * q \in Nat
  BY <1>1
<1>7. q <= m
  <2> SUFFICES ASSUME m < q PROVE FALSE
    BY <1>1
  <2>1. PICK e \in Nat : q = m + 1 + e
    <3>1. q - m - 1 \in Nat /\ q = m + 1 + (q - m - 1)
      BY <1>1
    <3> QED
      BY <3>1
  <2>2. d * q = d * m + d + d * e /\ d * e \in Nat /\ d * m \in Nat
    BY <2>1
  <2> QED
    BY <1>1, <1>2, <1>4, <2>2
<1>8. d * q <= d * m
  <2>1. PICK e \in Nat : m = q + e
    <3>1. m - q \in Nat /\ m = q + (m - q)
      BY <1>1, <1>7
    <3> QED
      BY <3>1
  <2>2. d * m = d * q + d * e /\ d * e \in Nat
    BY <1>1, <2>1
  <2> QED
    BY <1>5, <2>2
<1> QED
  BY <1>2, <1>3, <1>5, <1>8

\* Rounding up does not lose anything.
LEMMA RoundupAbove ==
  ASSUME NEW a \in Nat \ {0}, NEW d \in Nat \ {0}
  PROVE  RoundupDivisible(a, d) \in Nat \ {0} /\ a <= RoundupDivisible(a, d)
<1> DEFINE x == a + d - 1
           q == x \div d
           r == x % d
<1>1. x \in Nat /\ q \in Nat /\ r \in 0..(d - 1) /\ x = d * q + r
  OBVIOUS
<1>2. RoundupDivisible(a, d) = q * d
  BY DEF RoundupDivisible
<1>3. x = a + d - 1
  OBVIOUS
<1> HIDE DEF x, q, r
<1>4. q * d = d * q /\ d * q \in Nat
  BY <1>1
<1>5. a <= d * q
  BY <1>1, <1>3, <1>4
<1> QED
  BY <1>2, <1>4, <1>5

\* Division rounded up (ceildiv).
LEMMA CeilDivAbove ==
  ASSUME NEW a \in Nat \ {0}, NEW b \in Nat \ {0}
  PROVE  CeilDiv(a, b) \in Nat \ {0} /\ a <= CeilDiv(a, b) * b
<1> DEFINE q == (-a) \div b
           r == (-a) % b
           c == -q
<1>1. q \in Int /\ r \in 0..(b - 1) /\ -a = b * q + r
  OBVIOUS
<1>2. CeilDiv(a, b) = c
  BY DEF CeilDiv
<1>3. c \in Int /\ q = -c
  BY <1>1
<1> HIDE DEF q, r, c
<1>4. b * q = -(c * b) /\ c * b \in Int
  BY <1>3
<1>5. a <= c * b
  BY <1>1, <1>4
<1>6. c > 0
  <2> SUFFICES ASSUME c <= 0 PROVE FALSE
    BY <1>3
  <2>1. -c \in Nat /\ (-c) * b \in Nat /\ (-c) * b = -(c * b)
    BY <1>3
  <2> QED
    BY <1>4, <1>5, <2>1
<1> QED
  BY <1>2, <1>3, <1>5, <1>6

-----------------------------------------------------------------------------
(* The order of the micro-batches.                                         *)

\* Reversing a sequence keeps its elements.
LEMMA ReverseKeeps ==
  ASSUME NEW X, NEW s \in Seq(X), Distinct(s)
  PROVE  Reverse(s) \in Seq(X) /\ Len(Reverse(s)) = Len(s) /\ Distinct(Reverse(s)) /\ ToSet(Reverse(s)) = ToSet(s)
<1>1. PICK n \in Nat : n = Len(s) /\ DOMAIN s = 1..n
  OBVIOUS
<1>2. PICK t : t = Reverse(s)
  OBVIOUS
<1>3. t = [i \in 1..n |-> s[(n - i) + 1]]
  BY <1>1, <1>2 DEF Reverse
<1>4. \A i \in 1..n : (n - i) + 1 \in 1..n /\ s[(n - i) + 1] \in X /\ t[i] = s[(n - i) + 1]
  BY <1>1, <1>3
<1>5. t \in [1..n -> X]
  BY <1>3, <1>4
<1>6. t \in Seq(X) /\ Len(t) = n /\ DOMAIN t = 1..n
  BY <1>1, <1>5
<1>7. Distinct(t)
  <2> SUFFICES ASSUME NEW i \in 1..n, NEW j \in 1..n, t[i] = t[j] PROVE i = j
    BY <1>6 DEF Distinct
  <2>1. (n - i) + 1 \in 1..n /\ (n - j) + 1 \in 1..n /\ s[(n - i) + 1] = s[(n - j) + 1]
    BY <1>4
  <2>2. (n - i) + 1 = (n - j) + 1
    BY <1>1, <2>1 DEF Distinct
  <2> QED
    BY <2>2
<1>8. ToSet(t) = ToSet(s)
  <2>1. \A i \in 1..n : t[(n - i) + 1] = s[i] /\ (n - i) + 1 \in 1..n
    <3> TAKE i \in 1..n
    <3>1. (n - i) + 1 \in 1..n /\ (n - ((n - i) + 1)) + 1 = i
      OBVIOUS
    <3> QED
      BY <1>4, <3>1
  <2>2. ASSUME NEW x \in ToSet(t) PROVE x \in ToSet(s)
    <3>1. PICK i \in 1..n : x = t[i]
      BY <1>6 DEF ToSet
    <3> QED
      BY <1>1, <1>4, <3>1 DEF ToSet
  <2>3. ASSUME NEW x \in ToSet(s) PROVE x \in ToSet(t)
    <3>1. PICK i \in 1..n : x = s[i]
      BY <1>1 DEF ToSet
    <3> QED
      BY <1>6, <2>1, <3>1 DEF ToSet
  <2> QED
    BY <2>2, <2>3
<1> QED
  BY <1>1, <1>2, <1>6, <1>7, <1>8

\* Taking every second element from the other end keeps the elements (m[::2][::-1] + m[1::2]).
LEMMA BothEndsKeeps ==
  ASSUME NEW X, NEW m \in Seq(X), Distinct(m)
  PROVE  BothEnds(m) \in Seq(X) /\ Len(BothEnds(m)) = Len(m) /\ Distinct(BothEnds(m)) /\ ToSet(BothEnds(m)) = ToSet(m)
<1>1. PICK n \in Nat : n = Len(m) /\ DOMAIN m = 1..n
  OBVIOUS
<1>2. PICK h : h = CeilDiv(n, 2)
  OBVIOUS
<1>3. PICK g : g = n \div 2
  OBVIOUS
<1>4. h \in Nat /\ g \in Nat /\ h + g = n /\ (h = g \/ h = g + 1)
  BY <1>2, <1>3 DEF CeilDiv
<1>5. PICK u : u = [i \in 1..h |-> m[2 * i - 1]]
  OBVIOUS
<1>6. PICK v : v = [i \in 1..g |-> m[2 * i]]
  OBVIOUS
<1>7. BothEnds(m) = Reverse(u) \o v
  BY <1>1, <1>2, <1>3, <1>5, <1>6 DEF BothEnds
<1>8. \A i \in 1..h : 2 * i - 1 \in 1..n
  BY <1>4
<1>9. \A i \in 1..g : 2 * i \in 1..n
  BY <1>4
<1>10. \A i \in 1..n : m[i] \in X
  BY <1>1
<1>11. u \in Seq(X) /\ Len(u) = h /\ DOMAIN u = 1..h
  <2>1. u \in [1..h -> X]
    BY <1>5, <1>8, <1>10
  <2> QED
    BY <1>4, <2>1
<1>12. v \in Seq(X) /\ Len(v) = g /\ DOMAIN v = 1..g
  <2>1. v \in [1..g -> X]
    BY <1>6, <1>9, <1>10
  <2> QED
    BY <1>4, <2>1
<1>d. \A i, j \in 1..n : m[i] = m[j] => i = j
  BY <1>1 DEF Distinct
<1>13. Distinct(u)
  <2> SUFFICES ASSUME NEW i \in 1..h, NEW j \in 1..h, u[i] = u[j] PROVE i = j
    BY <1>11 DEF Distinct
  <2>1. 2 * i - 1 = 2 * j - 1
    BY <1>5, <1>8, <1>d
  <2> QED
    BY <2>1
<1>14. Distinct(v)
  <2> SUFFICES ASSUME NEW i \in 1..g, NEW j \in 1..g, v[i] = v[j] PROVE i = j
    BY <1>12 DEF Distinct
  <2>1. 2 * i = 2 * j
    BY <1>6, <1>9, <1>d
  <2> QED
    BY <2>1
<1>15. ToSet(u) \cap ToSet(v) = {}
  <2> SUFFICES ASSUME NEW i \in 1..h, NEW j \in 1..g, u[i] = v[j] PROVE FALSE
    BY <1>11, <1>12 DEF ToSet
  <2>1. 2 * i - 1 = 2 * j
    BY <1>5, <1>6, <1>8, <1>9, <1>d
  <2> QED
    BY <2>1
<1>16. ToSet(u) \cup ToSet(v) = ToSet(m)
  <2>1. ASSUME NEW x \in ToSet(u) PROVE x \in ToSet(m)
    <3>1. PICK i \in 1..h : x = u[i]
      BY <1>11 DEF ToSet
    <3> QED
      BY <1>1, <1>5, <1>8, <3>1 DEF ToSet
  <2>2. ASSUME NEW x \in ToSet(v) PROVE x \in ToSet(m)
    <3>1. PICK i \in 1..g : x = v[i]
      BY <1>12 DEF ToSet
    <3> QED
      BY <1>1, <1>6, <1>9, <3>1 DEF ToSet
  <2>3. ASSUME NEW x \in ToSet(m) PROVE x \in ToSet(u) \cup ToSet(v)
    <3>1. PICK i \in 1..n : x = m[i]
      BY <1>1 DEF ToSet
    <3>2. (\E j \in 1..h : i = 2 * j - 1) \/ (\E j \in 1..g : i = 2 * j)
      <4>1. CASE i % 2 = 0
        <5>1. i \div 2 \in 1..g /\ i = 2 * (i \div 2)
          BY <1>4, <4>1
        <5> QED
          BY <5>1
      <4>2. CASE i % 2 # 0
        <5>1. (i \div 2) + 1 \in 1..h /\ i = 2 * ((i \div 2) + 1) - 1
          BY <1>4, <4>2
        <5> QED
          BY <5>1
      <4> QED
        BY <4>1, <4>2
    <3>3. CASE \E j \in 1..h : i = 2 * j - 1
      <4>1. PICK j \in 1..h : i = 2 * j - 1
        BY <3>3
      <4>2. x = u[j]
        BY <1>5, <3>1, <4>1
      <4> QED
        BY <1>11, <4>2 DEF ToSet
    <3>4. CASE \E j \in 1..g : i = 2 * j
      <4>1. PICK j \in 1..g : i = 2 * j
        BY <3>4
      <4>2. x = v[j]
        BY <1>6, <3>1, <4>1
      <4> QED
        BY <1>12, <4>2 DEF ToSet
    <3> QED
      BY <3>2, <3>3, <3>4
  <2> QED
    BY <2>1, <2>2, <2>3
<1>17. PICK w : w = Reverse(u)
  OBVIOUS
<1>18. w \in Seq(X) /\ Len(w) = h /\ Distinct(w) /\ ToSet(w) = ToSet(u)
  BY <1>11, <1>13, <1>17, ReverseKeeps
<1>19. /\ w \o v \in Seq(X) /\ Len(w \o v) = h + g /\ Distinct(w \o v)
       /\ ToSet(w \o v) = ToSet(u) \cup ToSet(v)
  BY <1>12, <1>14, <1>15, <1>18, ConcatDistinct, SMTT(30)
<1> QED
  BY <1>1, <1>4, <1>7, <1>16, <1>17, <1>19

\* The partitions in another order still deal the samples.
LEMMA DividesReordered ==
  ASSUME NEW P, NEW Q, NEW m \in Nat \ {0}, NEW n \in Nat, Divides(P, m, n),
         Q \in Seq(ToSet(P)), Len(Q) = Cardinality(ToSet(P)), Distinct(Q), ToSet(Q) = ToSet(P)
  PROVE  Divides(Q, m, n)
<1>1. /\ P \in Seq(Seq(Nat)) /\ Len(P) = m /\ DOMAIN P = 1..m
      /\ \A i \in 1..m : P[i] \in Seq(Nat) /\ Distinct(P[i]) /\ P[i] # <<>>
      /\ \A i, j \in 1..m : i # j => ToSet(P[i]) \cap ToSet(P[j]) = {}
      /\ UNION {ToSet(P[i]) : i \in 1..m} = 1..n
  BY DEF Divides
<1>2. Distinct(P)
  <2> SUFFICES ASSUME NEW i \in 1..m, NEW j \in 1..m, P[i] = P[j], i # j PROVE FALSE
    BY <1>1 DEF Distinct
  <2>1. ToSet(P[i]) = {}
    BY <1>1
  <2>2. 1 \in DOMAIN P[i]
    BY <1>1
  <2>3. PICK p : p = P[i]
    OBVIOUS
  <2>4. p[1] \in ToSet(p)
    BY <2>2, <2>3 DEF ToSet
  <2> QED
    BY <2>1, <2>3, <2>4
<1>3. Len(Q) = m
  BY <1>1, <1>2, DistinctCard
<1>4. DOMAIN Q = 1..m /\ \A i \in 1..m : Q[i] \in ToSet(P)
  BY <1>3
<1>5. \A i \in 1..m : \E c \in 1..m : Q[i] = P[c]
  BY <1>1, <1>4 DEF ToSet
<1>6. \A c \in 1..m : \E i \in 1..m : Q[i] = P[c]
  <2> TAKE c \in 1..m
  <2>1. P[c] \in ToSet(Q)
    BY <1>1 DEF ToSet
  <2> QED
    BY <1>4, <2>1 DEF ToSet
<1>7. Q \in Seq(Seq(Nat))
  <2>1. Q \in [1..m -> Seq(Nat)]
    <3>1. Q = [i \in 1..m |-> Q[i]]
      BY <1>3
    <3> QED
      BY <1>1, <1>5, <3>1
  <2> QED
    BY <2>1
<1>8. \A i \in 1..m : Distinct(Q[i]) /\ Q[i] # <<>>
  BY <1>1, <1>5
<1>9. ASSUME NEW i \in 1..m, NEW j \in 1..m, i # j PROVE ToSet(Q[i]) \cap ToSet(Q[j]) = {}
  <2>1. PICK c \in 1..m : Q[i] = P[c]
    BY <1>5
  <2>2. PICK e \in 1..m : Q[j] = P[e]
    BY <1>5
  <2>3. c # e
    BY <1>4, <1>9, <2>1, <2>2 DEF Distinct
  <2> QED
    BY <1>1, <2>1, <2>2, <2>3
<1>10. UNION {ToSet(Q[i]) : i \in 1..m} = UNION {ToSet(P[i]) : i \in 1..m}
  <2>1. ASSUME NEW x \in UNION {ToSet(Q[i]) : i \in 1..m} PROVE x \in UNION {ToSet(P[i]) : i \in 1..m}
    BY <1>5
  <2>2. ASSUME NEW x \in UNION {ToSet(P[i]) : i \in 1..m} PROVE x \in UNION {ToSet(Q[i]) : i \in 1..m}
    BY <1>6
  <2> QED
    BY <2>1, <2>2
<1> QED
  BY <1>1, <1>3, <1>7, <1>8, <1>9, <1>10 DEF Divides

\* The sort by workload gives every partition once: the first index decides between
\* partitions of equal workload.
LEMMA HeaviestOnce ==
  ASSUME NEW P, NEW m \in Nat \ {0}, Divides(P, m, Len(work)), work \in Seq(Nat)
  PROVE  /\ Heaviest(ToSet(P)) \in Seq(ToSet(P)) /\ Len(Heaviest(ToSet(P))) = Cardinality(ToSet(P))
         /\ Distinct(Heaviest(ToSet(P))) /\ ToSet(Heaviest(ToSet(P))) = ToSet(P)
<1>1. /\ P \in Seq(Seq(Nat)) /\ Len(P) = m /\ DOMAIN P = 1..m
      /\ \A i \in 1..m : P[i] \in Seq(Nat) /\ Distinct(P[i]) /\ P[i] # <<>>
      /\ \A i, j \in 1..m : i # j => ToSet(P[i]) \cap ToSet(P[j]) = {}
      /\ UNION {ToSet(P[i]) : i \in 1..m} = 1..Len(work)
  BY DEF Divides
<1>2. PICK S : S = ToSet(P)
  OBVIOUS
<1>3. IsFiniteSet(S)
  BY <1>1, <1>2, FiniteToSet
<1>4. \A p \in S : \E i \in 1..m : p = P[i]
  BY <1>1, <1>2 DEF ToSet
<1>5. ASSUME NEW p \in S PROVE p[1] \in Nat /\ p[1] \in ToSet(p) /\ PartWork(p) \in Int
  <2>1. PICK i \in 1..m : p = P[i]
    BY <1>4
  <2>2. p \in Seq(Nat) /\ p # <<>>
    BY <1>1, <2>1
  <2>3. 1 \in DOMAIN p /\ p[1] \in Nat
    BY <2>2
  <2>4. IsFiniteSet(ToSet(p)) /\ ToSet(p) \subseteq 1..Len(work)
    BY <1>1, <2>1, <2>2, FiniteToSet, SMTT(30)
  <2>5. \A x \in ToSet(p) : work[x] \in Int
    BY <2>4
  <2>6. Sigma(work, ToSet(p)) \in Int
    BY <2>4, <2>5, SigmaInt
  <2> QED
    BY <2>3, <2>6 DEF ToSet, PartWork, Sum, Sigma
<1>6. ASSUME NEW p \in S, NEW q \in S, p # q PROVE p[1] # q[1]
  <2>1. PICK i \in 1..m : p = P[i]
    BY <1>4
  <2>2. PICK j \in 1..m : q = P[j]
    BY <1>4
  <2>3. ToSet(p) \cap ToSet(q) = {}
    BY <1>1, <1>6, <2>1, <2>2
  <2> QED
    BY <1>5, <2>3
<1>7. PICK before : before = [p \in S |-> {q \in S : HeavierPart(q, p)}]
  OBVIOUS
<1>8. \A p, q \in S : q \in before[p] <=> HeavierPart(q, p)
  BY <1>7
<1>9. \A p \in S : before[p] \in SUBSET S /\ p \notin before[p]
  <2> TAKE p \in S
  <2>1. ~HeavierPart(p, p)
    BY <1>5 DEF HeavierPart
  <2> QED
    BY <1>7, <2>1
<1>10. ASSUME NEW p \in S, NEW q \in S, NEW r \in S, HeavierPart(p, q), HeavierPart(q, r)
       PROVE  HeavierPart(p, r)
  <2>1. /\ p[1] \in Nat /\ q[1] \in Nat /\ r[1] \in Nat
        /\ PartWork(p) \in Int /\ PartWork(q) \in Int /\ PartWork(r) \in Int
    BY <1>5
  <2> QED
    BY <1>10, <2>1 DEF HeavierPart
<1>11. \A p, q \in S : q \in before[p] => before[q] \subseteq before[p]
  <2> SUFFICES ASSUME NEW p \in S, NEW q \in S, q \in before[p], NEW r \in before[q] PROVE r \in before[p]
    OBVIOUS
  <2>1. r \in S /\ HeavierPart(r, q) /\ HeavierPart(q, p)
    BY <1>8, <1>9
  <2> QED
    BY <1>8, <1>10, <2>1
<1>12. \A p, q \in S : p # q => p \in before[q] \/ q \in before[p]
  <2> SUFFICES ASSUME NEW p \in S, NEW q \in S, p # q PROVE HeavierPart(p, q) \/ HeavierPart(q, p)
    BY <1>8
  <2>1. p[1] \in Nat /\ q[1] \in Nat /\ PartWork(p) \in Int /\ PartWork(q) \in Int /\ p[1] # q[1]
    BY <1>5, <1>6
  <2> QED
    BY <2>1 DEF HeavierPart
<1>13. /\ InOrder(S, before) \in Seq(S) /\ Len(InOrder(S, before)) = Cardinality(S)
       /\ Distinct(InOrder(S, before)) /\ ToSet(InOrder(S, before)) = S
  BY <1>3, <1>9, <1>11, <1>12, InOrderOnce
<1>14. Heaviest(S) = InOrder(S, before)
  BY <1>7 DEF Heaviest
<1> QED
  BY <1>2, <1>13, <1>14

-----------------------------------------------------------------------------
(* Shares, workloads and counts of a batch o with lengths l.               *)

Size(o) == Len(o) \div DpSize
ShareOf(o, r) == [i \in 1..Size(o) |-> o[(r - 1) * Size(o) + i]]
LensOf(o, l, r) == [i \in 1..Size(o) |-> l[ShareOf(o, r)[i]]]
WorksOf(l) == [i \in 1..Len(l) |-> Workload(l[i])]
LoadOf(o, l, r) == Sigma([i \in 1..Size(o) |-> Workload(LensOf(o, l, r)[i])], 1..Size(o))
LocalOf(o, l, r) == Min({Size(o), CeilDiv(Sigma(LensOf(o, l, r), 1..Size(o)), MaxTokenLen)})
CountOf(o, l, d) == RoundupDivisible(Max({LocalOf(o, l, q) : q \in Ranks}), d)

FitsOf(o, l) == \A q \in Ranks : \A i \in 1..Size(o) : LensOf(o, l, q)[i] <= MaxTokenLen

Pos == Nat \ {0}

\* The lengths of a batch, padded to a multiple of the ranks.
Padded(l) == l \in Seq(Pos) /\ Len(l) \in Nat \ {0} /\ Len(l) % DpSize = 0

\* An order of the batch.
Dealt(o, l) == o \in Seq(Nat) /\ Distinct(o) /\ Len(o) = Len(l) /\ ToSet(o) = 1..Len(l)

\* The constants are positive.
LEMMA Positive ==
  /\ DpSize \in Nat \ {0} /\ SpSize \in Nat \ {0} /\ MaxTokenLen \in Nat \ {0} /\ LinearCost \in Nat
  /\ \A d \in DividedBy : d \in Nat \ {0}
  /\ Ranks = 1..DpSize
BY BalanceAssumption DEF Ranks

\* The required multiple is a multiple of the ranks (_get_required_batch_multiple).
LEMMA BatchMultipleFacts == BatchMultiple \in Nat \ {0} /\ BatchMultiple % DpSize = 0
<1>1. PICK p \in Nat \ {0} : p = DpSize
  BY Positive
<1>2. PICK x \in Nat \ {0} : x = CriticMiniBatch * RolloutN
  BY BalanceAssumption
<1>3. PICK y \in Nat \ {0} : y = ActorMiniBatch * RolloutN
  BY BalanceAssumption
<1>4. PICK c : c = IF UseCritic THEN Lcm(p, x) ELSE p
  OBVIOUS
<1>5. c \in Nat \ {0} /\ c % p = 0
  <2>1. Lcm(p, x) \in Nat \ {0} /\ Lcm(p, x) % p = 0
    BY LcmFacts
  <2>2. p % p = 0
    OBVIOUS
  <2> QED
    BY <1>4, <2>1, <2>2
<1>6. PICK z : z = Lcm(c, y)
  OBVIOUS
<1>7. z \in Nat \ {0} /\ z % c = 0
  BY <1>5, <1>6, LcmFacts
<1>8. z % p = 0
  <2>1. z \in Nat
    BY <1>7
  <2> QED
    BY <1>5, <1>7, <2>1, MultipleOfMultiple
<1>9. BatchMultiple = IF warm THEN z ELSE c
  BY <1>1, <1>2, <1>3, <1>4, <1>6 DEF BatchMultiple
<1> QED
  BY <1>1, <1>5, <1>7, <1>8, <1>9

\* A rank's share is not empty and the shares make up the batch.
LEMMA SizeFacts ==
  ASSUME NEW o, NEW l, Padded(l), Len(o) = Len(l)
  PROVE  /\ Size(o) \in Nat \ {0} /\ Len(o) = DpSize * Size(o)
         /\ DpSize <= Len(o) /\ Len(o) % DpSize = 0
<1>1. PICK n \in Nat \ {0} : n = Len(o)
  BY DEF Padded
<1>2. n % DpSize = 0
  BY <1>1 DEF Padded
<1>3. EvenShares(n, DpSize)
  BY <1>1, <1>2, Positive, ShareMultiple
<1> QED
  BY <1>1, <1>2, <1>3 DEF Size, EvenShares

\* The places of the shares.
LEMMA SharePlaces ==
  ASSUME NEW n \in Nat \ {0}, NEW p \in Nat \ {0}, NEW r \in 1..p, NEW i \in 1..n
  PROVE  (r - 1) * n + i \in 1..(p * n)
<1>1. PICK a \in Nat : r = a + 1
  <2>1. r - 1 \in Nat /\ r = (r - 1) + 1
    OBVIOUS
  <2> QED
    BY <2>1
<1>2. PICK b \in Nat : p = r + b
  <2>1. p - r \in Nat /\ p = r + (p - r)
    OBVIOUS
  <2> QED
    BY <2>1
<1> DEFINE x == a * n
           y == b * n
<1>3. (r - 1) * n = x /\ p * n = x + n + y /\ x \in Nat /\ y \in Nat
  BY <1>1, <1>2
<1> HIDE DEF x, y
<1>4. x + i \in 1..(x + n + y)
  BY <1>3
<1> QED
  BY <1>3, <1>4

\* The lengths of a share are lengths.
LEMMA ShareTypes ==
  ASSUME NEW o, NEW l, NEW r \in Ranks, Padded(l), Dealt(o, l), Size(o) \in Nat \ {0}, Len(o) = DpSize * Size(o)
  PROVE  /\ \A i \in 1..Size(o) : ShareOf(o, r)[i] \in 1..Len(l)
         /\ LensOf(o, l, r) \in [1..Size(o) -> Pos]
<1>1. PICK n \in Nat \ {0} : n = Size(o)
  OBVIOUS
<1>2. \A i \in 1..n : (r - 1) * n + i \in 1..Len(o)
  BY <1>1, Positive, SharePlaces
<1>3. \A j \in 1..Len(o) : o[j] \in 1..Len(l)
  BY SMTT(30) DEF Dealt, ToSet
<1>4. \A i \in 1..n : ShareOf(o, r)[i] \in 1..Len(l)
  <2> TAKE i \in 1..n
  <2>1. ShareOf(o, r)[i] = o[(r - 1) * n + i]
    BY <1>1 DEF ShareOf
  <2>2. (r - 1) * n + i \in 1..Len(o)
    BY <1>2
  <2> QED
    BY <1>3, <2>1, <2>2, Zenon
<1>5. \A j \in 1..Len(l) : l[j] \in Pos
  <2>1. PICK X : X = Pos
    OBVIOUS
  <2>2. l \in Seq(X)
    BY <2>1 DEF Padded
  <2>3. \A j \in 1..Len(l) : l[j] \in X
    BY <2>2
  <2> QED
    BY <2>1, <2>3
<1>6. LensOf(o, l, r) \in [1..n -> Pos]
  <2>1. \A i \in 1..n : l[ShareOf(o, r)[i]] \in Pos
    BY <1>4, <1>5
  <2>2. LensOf(o, l, r) = [i \in 1..n |-> l[ShareOf(o, r)[i]]]
    BY <1>1 DEF LensOf
  <2> QED
    BY <2>1, <2>2
<1> QED
  BY <1>1, <1>4, <1>6

\* The smaller of two numbers.
LEMMA MinOfTwo ==
  ASSUME NEW a \in Int, NEW b \in Int
  PROVE  Min({a, b}) \in {a, b} /\ Min({a, b}) <= a /\ Min({a, b}) <= b
<1>1. \E x \in {a, b} : \A y \in {a, b} : x =< y
  <2>1. CASE a <= b
    BY <2>1
  <2>2. CASE b <= a
    BY <2>2
  <2> QED
    BY <2>1, <2>2
<1> QED
  BY <1>1 DEF Min

\* What a rank asks for is positive, at most its samples, and enough for its tokens when
\* no sequence is too long.
LEMMA LocalFacts ==
  ASSUME NEW n \in Nat \ {0}, NEW M \in Nat \ {0}, NEW L, L \in [1..n -> Pos]
  PROVE  /\ Min({n, CeilDiv(Sigma(L, 1..n), M)}) \in 1..n
         /\ (\A x \in 1..n : L[x] <= M) => Sigma(L, 1..n) <= Min({n, CeilDiv(Sigma(L, 1..n), M)}) * M
<1>1. IsFiniteSet(1..n) /\ Cardinality(1..n) = n
  BY CardSegment
<1>2. \A x \in 1..n : L[x] \in Nat /\ L[x] \in Int /\ L[x] >= 1
  BY DEF Pos
<1>3. PICK T : T = Sigma(L, 1..n)
  OBVIOUS
<1>4. T \in Nat /\ L[1] <= T
  <2>1. 1 \in 1..n
    OBVIOUS
  <2> QED
    BY <1>1, <1>2, <1>3, <2>1, SigmaNat
<1>5. T \in Nat \ {0}
  <2>1. L[1] \in Nat /\ L[1] >= 1
    BY <1>2
  <2> QED
    BY <1>4, <2>1
<1>6. ASSUME \A x \in 1..n : L[x] <= M PROVE T <= n * M
  <2>1. \A x \in 1..n : L[x] \in Int /\ L[x] <= M
    BY <1>2, <1>6
  <2>2. M \in Int
    OBVIOUS
  <2>3. Sigma(L, 1..n) <= Cardinality(1..n) * M
    BY <1>1, <2>1, <2>2, SigmaBound
  <2> QED
    BY <1>1, <1>3, <2>3, Zenon
<1>7. PICK c : c = CeilDiv(T, M)
  OBVIOUS
<1>8. c \in Nat \ {0} /\ T <= c * M
  BY <1>5, <1>7, CeilDivAbove
<1>9. PICK z : z = Min({n, c})
  OBVIOUS
<1>10. z \in {n, c} /\ z <= n
  <2>1. n \in Int /\ c \in Int
    BY <1>8
  <2> QED
    BY <1>9, <2>1, MinOfTwo, Zenon
<1>11. z \in 1..n
  BY <1>8, <1>10, SMTT(30)
<1>12. ASSUME \A x \in 1..n : L[x] <= M PROVE T <= z * M
  <2>1. T <= n * M
    BY <1>6, <1>12
  <2> QED
    BY <1>8, <1>10, <2>1, Zenon
<1> QED
  BY <1>3, <1>7, <1>9, <1>11, <1>12

\* What a rank asks for.
LEMMA LocalShare ==
  ASSUME NEW o, NEW l, NEW r \in Ranks, Padded(l), Dealt(o, l)
  PROVE  /\ LocalOf(o, l, r) \in 1..Size(o)
         /\ FitsOf(o, l) => Sigma(LensOf(o, l, r), 1..Size(o)) <= LocalOf(o, l, r) * MaxTokenLen
<1>1. Size(o) \in Nat \ {0} /\ Len(o) = DpSize * Size(o)
  BY SizeFacts DEF Dealt
<1>2. PICK n \in Nat \ {0} : n = Size(o)
  BY <1>1
<1>3. PICK L : L = LensOf(o, l, r)
  OBVIOUS
<1>4. L \in [1..n -> Pos]
  BY <1>1, <1>2, <1>3, ShareTypes
<1>5. PICK z : z = Min({n, CeilDiv(Sigma(L, 1..n), MaxTokenLen)})
  OBVIOUS
<1>6. z \in 1..n /\ ((\A x \in 1..n : L[x] <= MaxTokenLen) => Sigma(L, 1..n) <= z * MaxTokenLen)
  BY <1>4, <1>5, Positive, LocalFacts
<1>7. LocalOf(o, l, r) = z
  BY <1>2, <1>3, <1>5 DEF LocalOf
<1>8. FitsOf(o, l) => \A x \in 1..n : L[x] <= MaxTokenLen
  BY <1>2, <1>3, Zenon DEF FitsOf
<1> QED
  BY <1>2, <1>3, <1>6, <1>7, <1>8, Zenon

\* The number of micro-batches is positive, and at most the samples of a rank when these
\* are a multiple of the divisor; when no sequence is too long it is enough for the tokens
\* of every rank.
LEMMA CountFacts ==
  ASSUME NEW o, NEW l, NEW d \in DividedBy, Padded(l), Dealt(o, l)
  PROVE  /\ CountOf(o, l, d) \in Nat \ {0}
         /\ Size(o) % d = 0 => CountOf(o, l, d) <= Size(o)
         /\ FitsOf(o, l) =>
              \A r \in Ranks : Sigma(LensOf(o, l, r), 1..Size(o)) <= CountOf(o, l, d) * MaxTokenLen
<1>1. Size(o) \in Nat \ {0} /\ Len(o) = DpSize * Size(o)
  BY SizeFacts DEF Dealt
<1>2. PICK n \in Nat \ {0} : n = Size(o)
  BY <1>1
<1>3. \A r \in Ranks : LocalOf(o, l, r) \in 1..n
  BY <1>2, LocalShare
<1>4. PICK F : F = [q \in 1..DpSize |-> LocalOf(o, l, q)]
  OBVIOUS
<1>5. F \in [1..DpSize -> Nat] /\ \A q \in 1..DpSize : F[q] = LocalOf(o, l, q) /\ F[q] \in 1..n
  BY <1>3, <1>4, Positive
<1>6. PICK S : S = ToSet(F)
  OBVIOUS
<1>7. F \in Seq(Nat) /\ DOMAIN F = 1..DpSize
  BY <1>5, Positive
<1>8. S = {LocalOf(o, l, q) : q \in Ranks}
  BY <1>5, <1>6, <1>7, Positive DEF ToSet
<1>9. IsFiniteSet(S) /\ S \subseteq Nat
  BY <1>6, <1>7, FiniteToSet
<1>10. S # {}
  <2>1. 1 \in Ranks
    BY Positive
  <2> QED
    BY <1>8, <2>1
<1>11. \E m \in S : \A y \in S : y <= m
  BY <1>9, <1>10, LargestNat
<1>12. \E m \in S : \A y \in S : m >= y
  <2>1. PICK m \in S : \A y \in S : y <= m
    BY <1>11
  <2>2. \A y \in S : m >= y
    BY <1>9, <2>1
  <2> QED
    BY <2>2
<1>13. PICK a : a = Max(S)
  OBVIOUS
<1>14. a \in S /\ \A y \in S : a >= y
  BY <1>12, <1>13 DEF Max
<1>15. a \in 1..n
  BY <1>3, <1>8, <1>14
<1>16. PICK c : c = RoundupDivisible(a, d)
  OBVIOUS
<1>17. c \in Nat \ {0} /\ a <= c
  <2>1. a \in Nat \ {0} /\ d \in Nat \ {0}
    BY <1>15, Positive
  <2> QED
    BY <1>16, <2>1, RoundupAbove
<1>18. CountOf(o, l, d) = c
  BY <1>8, <1>13, <1>16 DEF CountOf
<1>19. ASSUME n % d = 0 PROVE c <= n
  <2>1. a \in Nat \ {0} /\ a <= n /\ d \in Nat \ {0}
    BY <1>15, Positive
  <2> QED
    BY <1>16, <1>19, <2>1, RoundupBetween
<1>20. ASSUME FitsOf(o, l), NEW r \in Ranks PROVE Sigma(LensOf(o, l, r), 1..n) <= c * MaxTokenLen
  <2>1. PICK x : x = LocalOf(o, l, r)
    OBVIOUS
  <2>2. PICK T : T = Sigma(LensOf(o, l, r), 1..n)
    OBVIOUS
  <2>3. x \in 1..n /\ T <= x * MaxTokenLen /\ x <= a
    <3>1. T <= x * MaxTokenLen
      BY <1>2, <1>20, <2>1, <2>2, LocalShare, Zenon
    <3> QED
      BY <1>3, <1>8, <1>14, <1>15, <2>1, <3>1
  <2>4. T \in Int
    <3>1. LensOf(o, l, r) \in [1..n -> Pos]
      BY <1>1, <1>2, ShareTypes
    <3>2. \A y \in 1..n : LensOf(o, l, r)[y] \in Int
      BY <3>1 DEF Pos
    <3>3. IsFiniteSet(1..n)
      BY CardSegment
    <3> QED
      BY <2>2, <3>2, <3>3, SigmaInt
  <2>5. x * MaxTokenLen <= c * MaxTokenLen
    <3>1. PICK e \in Nat : c = x + e
      <4>1. c - x \in Nat /\ c = x + (c - x)
        BY <1>15, <1>17, <2>3
      <4> QED
        BY <4>1
    <3>2. c * MaxTokenLen = x * MaxTokenLen + e * MaxTokenLen /\ e * MaxTokenLen \in Nat /\ x * MaxTokenLen \in Nat
      BY <2>3, <3>1, Positive
    <3> QED
      BY <3>2
  <2>6. x * MaxTokenLen \in Int /\ c * MaxTokenLen \in Int
    BY <1>17, <2>3, Positive
  <2>7. T <= c * MaxTokenLen
    BY <2>3, <2>4, <2>5, <2>6
  <2> QED
    BY <2>2, <2>7
<1> QED
  BY <1>2, <1>17, <1>18, <1>19, <1>20

-----------------------------------------------------------------------------
(* The budget of tokens.                                                   *)

\* A factor keeps the order of numbers.
LEMMA Monotone ==
  ASSUME NEW a \in Nat, NEW x \in Int, NEW y \in Int, x <= y
  PROVE  a * x <= a * y
<1>1. PICK e \in Nat : y = x + e
  <2>1. y - x \in Nat /\ y = x + (y - x)
    OBVIOUS
  <2> QED
    BY <2>1
<1>2. a * y = a * x + a * e /\ a * e \in Nat /\ a * x \in Int
  BY <1>1
<1> QED
  BY <1>2

\* A positive factor can be left out.
LEMMA Cancel ==
  ASSUME NEW a \in Nat \ {0}, NEW x \in Int, NEW y \in Int, a * x <= a * y
  PROVE  x <= y
<1> SUFFICES ASSUME y < x PROVE FALSE
  OBVIOUS
<1>1. y + 1 <= x /\ y + 1 \in Int
  OBVIOUS
<1>2. a * (y + 1) <= a * x
  BY <1>1, Monotone
<1>3. a * (y + 1) = a * y + a /\ a * y \in Int /\ a * x \in Int
  OBVIOUS
<1> QED
  BY <1>2, <1>3

Factor(x) == LinearCost + x

\* A workload is between the length times the factors of the shortest and the longest.
LEMMA WorkloadBetween ==
  ASSUME NEW x \in Nat, NEW y \in Nat, NEW z \in Nat, x <= y, y <= z
  PROVE  Workload(y) \in Nat /\ Factor(x) * y <= Workload(y) /\ Workload(y) <= Factor(z) * y
<1>1. y * x <= y * y /\ y * y <= y * z
  BY Monotone
<1>2. PICK c \in Nat : c = LinearCost
  BY Positive
<1>3. Workload(y) = c * y + y * y
  BY <1>2 DEF Workload
<1>4. Factor(x) * y = c * y + y * x /\ Factor(z) * y = c * y + y * z
  <2>1. (c + x) * y = c * y + y * x /\ (c + z) * y = c * y + y * z
    OBVIOUS
  <2> QED
    BY <1>2, <2>1 DEF Factor
<1>5. y * x \in Nat /\ y * y \in Nat /\ y * z \in Nat /\ c * y \in Nat
  OBVIOUS
<1> QED
  BY <1>1, <1>3, <1>4, <1>5

InBudget(p, L, n, M) ==
  \E i, j \in 1..n : (LinearCost + L[j]) * Sigma(L, ToSet(p)) <= (LinearCost + L[i]) * (M + L[i])

\* A micro-batch of partitions of like workload keeps to the budget of tokens when there are
\* enough of them for all the tokens.
LEMMA BudgetKept ==
  ASSUME NEW n \in Nat \ {0}, NEW M \in Nat \ {0}, NEW c \in Nat \ {0}, NEW L \in [1..n -> Pos],
         NEW W, NEW P, NEW w \in 1..n,
         W = [x \in 1..n |-> Workload(L[x])], Divides(P, c, n),
         \A a, b \in 1..c : Sigma(W, ToSet(P[a])) - Sigma(W, ToSet(P[b])) <= W[w],
         Sigma(L, 1..n) <= c * M
  PROVE  \A b \in 1..c : InBudget(P[b], L, n, M)
<1> TAKE b \in 1..c
<1>1. IsFiniteSet(1..n)
  BY CardSegment
<1>2. \A x \in 1..n : L[x] \in Nat
  BY DEF Pos
<1>3. PICK S : S = ToSet(L)
  OBVIOUS
<1>4. S = {L[x] : x \in 1..n}
  BY <1>3 DEF ToSet
<1>5. IsFiniteSet(S) /\ S \subseteq Nat /\ S # {}
  <2>1. L \in Seq(Nat)
    BY <1>2
  <2>2. IsFiniteSet(S) /\ S \subseteq Nat
    BY <1>3, <2>1, FiniteToSet
  <2>3. 1 \in 1..n
    OBVIOUS
  <2>4. L[1] \in S
    BY <1>4, <2>3
  <2> QED
    BY <2>2, <2>4
<1>6. PICK i \in 1..n : \A x \in 1..n : L[x] <= L[i]
  <2>1. PICK m \in S : \A y \in S : y <= m
    BY <1>5, LargestNat
  <2>2. PICK z \in 1..n : m = L[z]
    BY <1>4, <2>1
  <2>3. \A x \in 1..n : L[x] \in S
    BY <1>4
  <2>4. \A x \in 1..n : L[x] <= L[z]
    BY <2>1, <2>2, <2>3
  <2> QED
    BY <2>4
<1>7. PICK j \in 1..n : \A x \in 1..n : L[j] <= L[x]
  <2>1. PICK m \in S : \A y \in S : m <= y
    BY <1>5, LeastNat
  <2>2. PICK z \in 1..n : m = L[z]
    BY <1>4, <2>1
  <2>3. \A x \in 1..n : L[x] \in S
    BY <1>4
  <2>4. \A x \in 1..n : L[z] <= L[x]
    BY <2>1, <2>2, <2>3
  <2> QED
    BY <2>4
<1>8. PICK u \in Nat : u = LinearCost + L[i]
  BY <1>2, Positive
<1>9. PICK v \in Nat : v = LinearCost + L[j]
  BY <1>2, Positive
<1>10. ASSUME NEW x \in 1..n
       PROVE  W[x] \in Nat /\ v * L[x] <= 1 * W[x] /\ 1 * W[x] <= u * L[x]
  <2>1. L[x] \in Nat /\ L[i] \in Nat /\ L[j] \in Nat /\ L[j] <= L[x] /\ L[x] <= L[i]
    BY <1>2, <1>6, <1>7
  <2>2. PICK z : z = Workload(L[x])
    OBVIOUS
  <2>3. z \in Nat /\ v * L[x] <= z /\ z <= u * L[x]
    <3>1. PICK e \in Nat : e = L[x]
      BY <2>1
    <3>2. PICK f \in Nat : f = L[j]
      BY <2>1
    <3>3. PICK g \in Nat : g = L[i]
      BY <2>1
    <3>4. f <= e /\ e <= g
      BY <2>1, <3>1, <3>2, <3>3
    <3>5. Workload(e) \in Nat /\ Factor(f) * e <= Workload(e) /\ Workload(e) <= Factor(g) * e
      BY <3>4, WorkloadBetween, Zenon
    <3>6. u = Factor(g) /\ v = Factor(f) /\ z = Workload(e)
      BY <1>8, <1>9, <2>2, <3>1, <3>2, <3>3 DEF Factor
    <3> QED
      BY <3>1, <3>5, <3>6, Zenon
  <2>4. W[x] = z /\ 1 * z = z
    BY <2>2, <2>3
  <2> QED
    BY <2>3, <2>4
<1>11. PICK Q : Q = [a \in 1..c |-> ToSet(P[a])]
  OBVIOUS
<1>12. /\ \A a \in 1..c : Q[a] = ToSet(P[a]) /\ Q[a] \subseteq 1..n /\ IsFiniteSet(Q[a])
       /\ \A a, e \in 1..c : a # e => Q[a] \cap Q[e] = {}
       /\ UNION {Q[a] : a \in 1..c} = 1..n
  <2>1. \A a \in 1..c : ToSet(P[a]) \subseteq 1..n
    BY DEF Divides
  <2>2. \A a \in 1..c : IsFiniteSet(ToSet(P[a]))
    BY <1>1, <2>1, SubsetCard
  <2>3. \A a \in 1..c : Q[a] = ToSet(P[a])
    BY <1>11
  <2>4. {Q[a] : a \in 1..c} = {ToSet(P[a]) : a \in 1..c}
    BY <2>3
  <2> QED
    BY <2>1, <2>2, <2>3, <2>4 DEF Divides
<1>13. PICK A : A = Sigma(W, Q[b])
  OBVIOUS
<1>14. PICK B : B = Sigma(L, Q[b])
  OBVIOUS
<1>15. PICK T : T = Sigma(L, 1..n)
  OBVIOUS
<1>16. PICK U : U = Sigma(W, 1..n)
  OBVIOUS
<1>17. \A x \in 1..n : W[x] \in Int /\ L[x] \in Int
  BY <1>2, <1>10
<1>18. A \in Int /\ B \in Int /\ T \in Int /\ U \in Int
  BY <1>1, <1>12, <1>13, <1>14, <1>15, <1>16, <1>17, SigmaInt
<1>19. \A a \in 1..c : A - W[w] <= Sigma(W, Q[a])
  <2> TAKE a \in 1..c
  <2>1. PICK y : y = Sigma(W, Q[a])
    OBVIOUS
  <2>2. y \in Int
    BY <1>12, <1>17, <2>1, SigmaInt
  <2>3. A - y <= W[w]
    BY <1>12, <1>13, <2>1
  <2>4. A - W[w] <= y
    BY <1>17, <1>18, <2>2, <2>3
  <2> QED
    BY <2>1, <2>4
<1>20. c * (A - W[w]) <= U
  <2>1. PICK z \in Int : z = A - W[w]
    BY <1>17, <1>18
  <2>2. \A a \in 1..c : IsFiniteSet(Q[a]) /\ z <= Sigma(W, Q[a])
    BY <1>12, <1>19, <2>1
  <2>3. \A a \in 1..c : \A y \in Q[a] : W[y] \in Int
    BY <1>12, <1>17
  <2>4. c * z <= Sigma(W, 1..n)
    <3>1. c \in Nat
      OBVIOUS
    <3>2. \A a, e \in 1..c : a # e => Q[a] \cap Q[e] = {}
      BY <1>12
    <3>3. \A y : y \in 1..n <=> \E a \in 1..c : y \in Q[a]
      BY <1>12
    <3> QED
      BY <2>2, <2>3, <3>1, <3>2, <3>3, SigmaParts, Zenon
  <2> QED
    BY <1>12, <1>16, <2>1, <2>4
<1>21. U <= u * T
  <2>1. 1 * U <= u * T
    <3>1. \A y \in 1..n : W[y] \in Int /\ L[y] \in Int /\ 1 * W[y] <= u * L[y]
      BY <1>10, <1>17
    <3>2. 1 \in Int /\ u \in Int
      OBVIOUS
    <3>3. 1 * Sigma(W, 1..n) <= u * Sigma(L, 1..n)
      BY <1>1, <3>1, <3>2, SigmaScaled
    <3> QED
      BY <1>15, <1>16, <3>3
  <2> QED
    BY <1>18, <2>1
<1>22. v * B <= A
  <2>1. v * B <= 1 * A
    <3>1. \A y \in Q[b] : L[y] \in Int /\ W[y] \in Int /\ v * L[y] <= 1 * W[y]
      BY <1>10, <1>12, <1>17
    <3>2. 1 \in Int /\ v \in Int /\ IsFiniteSet(Q[b])
      BY <1>12
    <3>3. v * Sigma(L, Q[b]) <= 1 * Sigma(W, Q[b])
      BY <3>1, <3>2, SigmaScaled
    <3> QED
      BY <1>13, <1>14, <3>3
  <2> QED
    BY <1>18, <2>1
<1>23. u * T <= u * (c * M)
  <2>1. c * M \in Int /\ T <= c * M
    BY <1>15
  <2> QED
    BY <1>18, <2>1, Monotone
<1>24. A - W[w] <= u * M
  <2>1. u * (c * M) = c * (u * M) /\ u * M \in Int /\ c * (u * M) \in Int /\ u * T \in Int
    BY <1>18
  <2>2. A - W[w] \in Int /\ c * (A - W[w]) \in Int
    BY <1>17, <1>18
  <2>3. c * (A - W[w]) <= c * (u * M)
    <3>1. PICK e \in Int : e = c * (A - W[w])
      BY <2>2
    <3>2. PICK f \in Int : f = c * (u * M)
      BY <2>1
    <3>3. PICK g \in Int : g = u * T
      BY <2>1
    <3>4. e <= U /\ U <= g /\ g <= f
      BY <1>20, <1>21, <1>23, <2>1, <3>1, <3>2, <3>3
    <3>5. e <= f
      BY <1>18, <3>4
    <3> QED
      BY <3>1, <3>2, <3>5
  <2> QED
    BY <2>1, <2>2, <2>3, Cancel
<1>25. W[w] <= u * L[i]
  <2>1. u * L[w] <= u * L[i]
    BY <1>6, <1>17, Monotone
  <2>2. W[w] <= u * L[w]
    BY <1>10, <1>17
  <2>3. u * L[w] \in Int /\ u * L[i] \in Int
    BY <1>17, SMTT(30)
  <2>4. PICK e \in Int : e = u * L[w]
    BY <2>3
  <2>5. PICK f \in Int : f = u * L[i]
    BY <2>3
  <2>6. PICK g \in Int : g = W[w]
    BY <1>17
  <2>7. e <= f /\ g <= e
    BY <2>1, <2>2, <2>4, <2>5, <2>6
  <2>8. g <= f
    BY <2>7
  <2> QED
    BY <2>5, <2>6, <2>8
<1>26. A <= u * (M + L[i])
  <2>1. u * (M + L[i]) = u * M + u * L[i] /\ u * M \in Int /\ u * L[i] \in Int
    BY <1>17, SMTT(30)
  <2> QED
    <3>1. PICK e \in Int : e = u * M
      BY <2>1
    <3>2. PICK f \in Int : f = u * L[i]
      BY <2>1
    <3>3. PICK g \in Int : g = W[w]
      BY <1>17
    <3>4. A - g <= e /\ g <= f
      BY <1>24, <1>25, <3>1, <3>2, <3>3
    <3>5. A <= e + f
      BY <1>18, <3>4
    <3> QED
      BY <2>1, <3>1, <3>2, <3>5
<1>27. v * B <= u * (M + L[i])
  <2>1. v * B \in Int /\ u * (M + L[i]) \in Int
    BY <1>17, <1>18
  <2> QED
    BY <1>18, <1>22, <1>26, <2>1
<1>28. (LinearCost + L[j]) * Sigma(L, ToSet(P[b])) <= (LinearCost + L[i]) * (M + L[i])
  BY <1>8, <1>9, <1>12, <1>14, <1>27
<1> QED
  BY <1>28 DEF InBudget

-----------------------------------------------------------------------------
(* The order of the batch.                                                 *)

EvenLoads(o, l) ==
  \A q, r \in Ranks : \E i, j \in 1..Len(l) :
    LoadOf(o, l, q) - LoadOf(o, l, r) <= Workload(l[i]) - Workload(l[j])

\* A workload is a natural number, and there is one for each length.
LEMMA WorksType ==
  ASSUME NEW X \in SUBSET Nat, NEW l \in Seq(X)
  PROVE  /\ WorksOf(l) \in Seq(Nat) /\ Len(WorksOf(l)) = Len(l)
         /\ \A i \in 1..Len(l) : WorksOf(l)[i] = Workload(l[i]) /\ Workload(l[i]) \in Nat
<1>1. PICK n \in Nat : n = Len(l)
  OBVIOUS
<1>2. \A i \in 1..n : l[i] \in X /\ l[i] \in Nat
  <2>1. \A i \in 1..n : l[i] \in X
    BY <1>1
  <2> QED
    BY <2>1
<1>3. \A i \in 1..n : Workload(l[i]) \in Nat
  BY <1>2, Positive DEF Workload
<1>4. PICK f : f = WorksOf(l)
  OBVIOUS
<1>5. f = [i \in 1..n |-> Workload(l[i])]
  BY <1>1, <1>4 DEF WorksOf
<1>6. f \in [1..n -> Nat] /\ \A i \in 1..n : f[i] = Workload(l[i])
  BY <1>3, <1>5
<1>7. f \in Seq(Nat) /\ Len(f) = n
  BY <1>6
<1> QED
  BY <1>1, <1>3, <1>4, <1>6, <1>7

\* The chunks of the concatenated partitions are the partitions.
LEMMA ChunksAreParts ==
  ASSUME NEW P, NEW l, NEW o, Padded(l), Divides(P, DpSize, Len(l)),
         \A i \in 1..DpSize : Len(P[i]) * DpSize = Len(l), o = FlattenSeq(P)
  PROVE  /\ Dealt(o, l)
         /\ \A r \in Ranks : Len(P[r]) = Size(o) /\ P[r] = ShareOf(o, r)
<1>1. DpSize \in Nat \ {0} /\ Ranks = 1..DpSize
  BY Positive
<1>2. PICK n \in Nat : n = Len(l)
  BY DEF Padded
<1>3. /\ P \in Seq(Seq(Nat)) /\ Len(P) = DpSize /\ \A i \in 1..DpSize : Distinct(P[i])
      /\ \A i, j \in 1..DpSize : i # j => ToSet(P[i]) \cap ToSet(P[j]) = {}
      /\ UNION {ToSet(P[i]) : i \in 1..DpSize} = 1..n
  BY <1>2 DEF Divides
<1>4. o \in Seq(Nat) /\ Distinct(o) /\ Len(o) = n /\ ToSet(o) = 1..n
  BY <1>1, <1>3, FlattenDivides
<1>5. Dealt(o, l)
  BY <1>2, <1>4 DEF Dealt
<1>6. PICK c \in Nat \ {0} : c = Size(o) /\ n = DpSize * c
  BY <1>2, <1>4, SizeFacts
<1>7. \A i \in 1..DpSize : P[i] \in Seq(Nat) /\ Len(P[i]) \in Nat
  BY <1>3
<1>8. \A i \in 1..DpSize : Len(P[i]) = c
  <2> TAKE i \in 1..DpSize
  <2>1. PICK x \in Nat : x = Len(P[i])
    BY <1>7
  <2>2. x * DpSize = n
    BY <1>2, <2>1
  <2>3. DpSize * x = DpSize * c
    BY <1>1, <1>6, <2>2
  <2>4. x <= c /\ c <= x
    BY <1>1, <2>3, Cancel
  <2> QED
    BY <2>1, <2>4
<1>9. \A q \in 1..DpSize : \A i \in 1..c : o[(q - 1) * c + i] = P[q][i]
  <2>1. P # <<>> /\ c \in Nat
    BY <1>1, <1>3
  <2>2. \A i \in 1..Len(P) : Len(P[i]) = c
    BY <1>3, <1>8
  <2>3. Chunked(FlattenSeq(P), P, c)
    BY <1>3, <2>1, <2>2, FlattenEqualParts
  <2> QED
    BY <1>3, <2>3 DEF Chunked
<1>10. ASSUME NEW r \in Ranks PROVE P[r] = ShareOf(o, r)
  <2>1. ShareOf(o, r) = [i \in 1..c |-> o[(r - 1) * c + i]]
    BY <1>6 DEF ShareOf
  <2>2. P[r] = [i \in 1..c |-> P[r][i]]
    BY <1>1, <1>7, <1>8
  <2>3. \A i \in 1..c : o[(r - 1) * c + i] = P[r][i]
    BY <1>1, <1>9, Zenon
  <2> QED
    BY <2>1, <2>2, <2>3, Zenon
<1> QED
  BY <1>1, <1>5, <1>6, <1>8, <1>10

\* The workload of a chunk is the sum of its partition.
LEMMA LoadIsSum ==
  ASSUME NEW p, NEW l, NEW o, NEW r \in Ranks, Padded(l), p \in Seq(Nat), Distinct(p), ToSet(p) \subseteq 1..Len(l),
         Len(p) = Size(o), p = ShareOf(o, r)
  PROVE  LoadOf(o, l, r) = Sigma(WorksOf(l), ToSet(p))
<1>1. PICK c \in Nat : c = Len(p) /\ c = Size(o) /\ DOMAIN p = 1..c
  OBVIOUS
<1>2. PICK h : h = [i \in 1..c |-> Workload(LensOf(o, l, r)[i])]
  OBVIOUS
<1>3. PICK f : f = WorksOf(l)
  OBVIOUS
<1>4. \A x \in 1..Len(l) : f[x] = Workload(l[x]) /\ f[x] \in Int
  <2>1. PICK X \in SUBSET Nat : X = Pos
    BY DEF Pos
  <2>2. l \in Seq(X)
    BY <2>1 DEF Padded
  <2> QED
    BY <1>3, <2>2, WorksType, SMTT(30)
<1>5. \A i \in 1..c : p[i] \in 1..Len(l)
  BY <1>1 DEF ToSet
<1>6. \A i \in 1..c : h[i] = f[p[i]]
  <2> TAKE i \in 1..c
  <2>1. LensOf(o, l, r)[i] = l[p[i]]
    BY <1>1 DEF LensOf
  <2>2. h[i] = Workload(l[p[i]])
    BY <1>2, <2>1
  <2> QED
    BY <1>4, <1>5, <2>2
<1>7. Sigma(h, 1..c) = Sigma(f, ToSet(p))
  <2>1. \A x, y \in 1..c : p[x] = p[y] => x = y
    BY <1>1 DEF Distinct
  <2>2. \A x \in 1..c : f[p[x]] \in Int /\ h[x] = f[p[x]]
    BY <1>4, <1>5, <1>6
  <2>3. IsFiniteSet(1..c)
    BY CardSegment
  <2>4. \A y : y \in ToSet(p) <=> \E x \in 1..c : y = p[x]
    BY <1>1 DEF ToSet
  <2>5. Renamed(f, p, h, 1..c, ToSet(p))
    BY <2>1, <2>2, <2>4 DEF Renamed
  <2> QED
    BY <2>3, <2>5, SigmaImage
<1>9. LoadOf(o, l, r) = Sigma(h, 1..c)
  BY <1>1, <1>2 DEF LoadOf
<1> QED
  BY <1>3, <1>7, <1>9

-----------------------------------------------------------------------------
(* The way back.                                                           *)

\* Indexing by the reversed index list undoes the index list (get_reverse_idx).
LEMMA ReverseUndoes ==
  ASSUME NEW n \in Nat, NEW f \in Seq(Nat), NEW g, Distinct(f), Len(f) = n, ToSet(f) = 1..n,
         g = [j \in 1..n |-> g[j]]
  PROVE  [j \in DOMAIN f |-> [i \in DOMAIN f |-> g[f[i]]][ReverseIdx(f)[j]]] = g
<1>1. DOMAIN f = 1..n
  OBVIOUS
<1>2. PICK produced : produced = [i \in 1..n |-> g[f[i]]]
  OBVIOUS
<1>3. PICK rev : rev = ReverseIdx(f)
  OBVIOUS
<1>4. \A j \in 1..n : rev[j] \in 1..n /\ f[rev[j]] = j
  <2> TAKE j \in 1..n
  <2>1. \E i \in 1..n : f[i] = j
    BY <1>1 DEF ToSet
  <2>2. rev[j] = CHOOSE i \in 1..n : f[i] = j
    BY <1>1, <1>3 DEF ReverseIdx
  <2> QED
    BY <2>1, <2>2
<1>5. \A j \in 1..n : produced[rev[j]] = g[j]
  BY <1>2, <1>4
<1>6. [j \in 1..n |-> produced[rev[j]]] = [j \in 1..n |-> g[j]]
  BY <1>5
<1> QED
  BY <1>1, <1>2, <1>3, <1>6

\* The next worker is of the same rank, or the first of the next rank.
LEMMA NextWorker ==
  ASSUME NEW w \in Nat \ {0}
  PROVE  /\ DpRank(w) \in Nat
         /\ CollectMask(w + 1) => DpRank(w + 1) = DpRank(w) + 1
         /\ ~CollectMask(w + 1) => DpRank(w + 1) = DpRank(w)
<1>1. PICK m \in Nat \ {0} : m = SpSize
  BY Positive
<1>2. PICK a \in Nat : w = a + 1
  <2>1. w - 1 \in Nat /\ w = (w - 1) + 1
    OBVIOUS
  <2> QED
    BY <2>1
<1>3. PICK q : q = a \div m
  OBVIOUS
<1>4. PICK r : r = a % m
  OBVIOUS
<1>5. q \in Nat /\ r \in 0..(m - 1) /\ a = m * q + r
  BY <1>3, <1>4
<1>6. PICK e : e = (a + 1) \div m
  OBVIOUS
<1>7. PICK f : f = (a + 1) % m
  OBVIOUS
<1>8. e \in Nat /\ f \in 0..(m - 1) /\ a + 1 = m * e + f
  BY <1>6, <1>7
<1>9. DpRank(w) = q + 1 /\ DpRank(w + 1) = e + 1 /\ (CollectMask(w + 1) <=> f = 0)
  <2>1. w - 1 = a /\ (w + 1) - 1 = a + 1
    BY <1>2
  <2> QED
    BY <1>1, <1>3, <1>6, <1>7, <2>1 DEF DpRank, CollectMask
<1>10. m * (q + 1) = m * q + m /\ m * q \in Nat /\ m * e \in Nat
  BY <1>5, <1>8
<1>11. CASE f = 0
  <2>1. m * e <= m * (q + 1)
    BY <1>5, <1>8, <1>10, <1>11
  <2>2. e <= q + 1
    BY <1>5, <1>8, <2>1, Cancel
  <2>3. ~ (e <= q)
    <3> SUFFICES ASSUME e <= q PROVE FALSE
      OBVIOUS
    <3>1. m * e <= m * q
      BY <1>5, <1>8, Monotone
    <3> QED
      BY <1>5, <1>8, <1>10, <1>11, <3>1
  <2>4. e = q + 1
    BY <1>5, <1>8, <2>2, <2>3
  <2> QED
    BY <1>5, <1>9, <1>11, <2>4
<1>12. CASE f # 0
  <2>1. m * q <= m * e
    <3> SUFFICES ASSUME ~ (q <= e) PROVE FALSE
      BY <1>5, <1>8, Monotone
    <3>1. e + 1 <= q /\ e + 1 \in Int
      BY <1>5, <1>8
    <3>2. m * (e + 1) <= m * q
      BY <1>5, <3>1, Monotone
    <3>3. m * (e + 1) = m * e + m
      BY <1>8
    <3> QED
      BY <1>5, <1>8, <1>10, <3>2, <3>3
  <2>2. q <= e
    BY <1>5, <1>8, <2>1, Cancel
  <2>3. e <= q
    <3> SUFFICES ASSUME ~ (e <= q) PROVE FALSE
      OBVIOUS
    <3>1. q + 1 <= e /\ q + 1 \in Int
      BY <1>5, <1>8
    <3>2. m * (q + 1) <= m * e
      BY <1>8, <3>1, Monotone
    <3> QED
      BY <1>5, <1>8, <1>10, <1>12, <3>2
  <2>4. e = q
    BY <1>5, <1>8, <2>2, <2>3
  <2> QED
    BY <1>5, <1>9, <1>12, <2>4
<1> QED
  BY <1>11, <1>12

\* The first worker is of the first rank, the last of the last.
LEMMA EndWorkers ==
  /\ DpRank(1) = 1 /\ CollectMask(1)
  /\ DpSize * SpSize \in Nat \ {0} /\ DpRank(DpSize * SpSize) = DpSize
<1>1. PICK m \in Nat \ {0} : m = SpSize
  BY Positive
<1>2. PICK p \in Nat \ {0} : p = DpSize
  BY Positive
<1>3. 0 \div m = 0 /\ 0 % m = 0 /\ 1 - 1 = 0
  OBVIOUS
<1>4. DpRank(1) = 1 /\ CollectMask(1)
  BY <1>1, <1>3 DEF DpRank, CollectMask
<1>5. PICK b \in Nat : p = b + 1
  <2>1. p - 1 \in Nat /\ p = (p - 1) + 1
    OBVIOUS
  <2> QED
    BY <2>1
<1>6. p * m = m * b + m /\ m * b \in Nat
  BY <1>5
<1>7. PICK a \in Nat : a = p * m - 1
  BY <1>6
<1>8. PICK q : q = a \div m
  OBVIOUS
<1>9. PICK r : r = a % m
  OBVIOUS
<1>10. q \in Nat /\ r \in 0..(m - 1) /\ a = m * q + r
  BY <1>8, <1>9
<1>11. m * q \in Nat /\ m * (q + 1) = m * q + m /\ m * (b + 1) = m * b + m
  BY <1>10
<1>12. q <= b
  <2> SUFFICES ASSUME ~ (q <= b) PROVE FALSE
    OBVIOUS
  <2>1. b + 1 <= q /\ b + 1 \in Int
    BY <1>10
  <2>2. m * (b + 1) <= m * q
    BY <1>10, <2>1, Monotone
  <2> QED
    BY <1>6, <1>7, <1>10, <1>11, <2>2
<1>13. b <= q
  <2> SUFFICES ASSUME ~ (b <= q) PROVE FALSE
    OBVIOUS
  <2>1. q + 1 <= b /\ q + 1 \in Int
    BY <1>10
  <2>2. m * (q + 1) <= m * b
    BY <1>10, <2>1, Monotone
  <2> QED
    BY <1>6, <1>7, <1>10, <1>11, <2>2
<1>14. q + 1 = p
  BY <1>5, <1>10, <1>12, <1>13
<1>15. DpRank(p * m) = p
  BY <1>1, <1>7, <1>8, <1>14 DEF DpRank
<1>16. p * m \in Nat \ {0}
  BY <1>6
<1> QED
  BY <1>1, <1>2, <1>4, <1>15, <1>16

\* What a worker returns to the controller, and the first outputs of the batch.
Returned(o, c, w) == IF CollectMask(w) THEN [i \in 1..c |-> o[(DpRank(w) - 1) * c + i]] ELSE <<>>
FirstOf(o, n) == [i \in 1..n |-> o[i]]

\* The outputs of one more rank.
LEMMA OneMoreRank ==
  ASSUME NEW o, NEW c \in Nat, NEW q \in Nat
  PROVE  FirstOf(o, q * c) \o [i \in 1..c |-> o[q * c + i]] = FirstOf(o, (q + 1) * c)
<1>1. PICK x \in Nat : x = q * c
  OBVIOUS
<1>2. (q + 1) * c = x + c
  BY <1>1
<1>3. PICK X : X = {o[i] : i \in 1..(x + c)}
  OBVIOUS
<1>4. \A i \in 1..(x + c) : o[i] \in X
  BY <1>3
<1>5. PICK s : s = FirstOf(o, x)
  OBVIOUS
<1>6. PICK t : t = [i \in 1..c |-> o[x + i]]
  OBVIOUS
<1>7. PICK u : u = FirstOf(o, x + c)
  OBVIOUS
<1>8. s \in [1..x -> X] /\ \A i \in 1..x : s[i] = o[i]
  <2>1. \A i \in 1..x : i \in 1..(x + c)
    OBVIOUS
  <2> QED
    BY <1>4, <1>5, <2>1 DEF FirstOf
<1>9. t \in [1..c -> X] /\ \A i \in 1..c : t[i] = o[x + i]
  <2>1. \A i \in 1..c : x + i \in 1..(x + c)
    OBVIOUS
  <2> QED
    BY <1>4, <1>6, <2>1
<1>10. u \in [1..(x + c) -> X] /\ \A i \in 1..(x + c) : u[i] = o[i]
  BY <1>4, <1>7 DEF FirstOf
<1>11. s \in Seq(X) /\ Len(s) = x /\ t \in Seq(X) /\ Len(t) = c /\ u \in Seq(X) /\ Len(u) = x + c
  BY <1>8, <1>9, <1>10
<1>12. Len(s \o t) = x + c /\ s \o t \in Seq(X)
  BY <1>11
<1>13. ASSUME NEW i \in 1..(x + c) PROVE (s \o t)[i] = u[i]
  <2>1. CASE i <= x
    <3>1. (s \o t)[i] = s[i] /\ i \in 1..x
      BY <1>11, <2>1
    <3> QED
      BY <1>8, <1>10, <3>1
  <2>2. CASE ~ (i <= x)
    <3>1. (s \o t)[i] = t[i - x] /\ i - x \in 1..c /\ x + (i - x) = i
      BY <1>11, <2>2
    <3> QED
      BY <1>9, <1>10, <3>1
  <2> QED
    BY <2>1, <2>2
<1>14. s \o t = u
  BY <1>11, <1>12, <1>13
<1> QED
  BY <1>1, <1>2, <1>5, <1>6, <1>7, <1>14

\* The outputs of the first worker of every rank, in the order of the workers, are the batch.
LEMMA CollectInOrder ==
  ASSUME NEW c \in Nat, NEW o, NEW F, NEW X, o \in Seq(Nat), Len(o) = DpSize * c,
         F \in Seq(X), Len(F) = DpSize * SpSize, \A w \in 1..Len(F) : F[w] = Returned(o, c, w)
  PROVE  FlattenSeq(F) = o
<1>1. PICK m \in Nat \ {0} : m = Len(F) /\ DpRank(m) = DpSize
  BY EndWorkers
<1>2. F # <<>> /\ \A w \in 1..m : F[w] = Returned(o, c, w)
  BY <1>1
<1>3. PICK G : Concats(F, G) /\ FlattenSeq(F) = G[m]
  BY <1>1, <1>2, FlattenConcats
<1> DEFINE Good(w) == G[w] = FirstOf(o, DpRank(w) * c)
           T == {n \in Nat : n + 1 <= m => Good(n + 1)}
<1>5. 0 \in T
  <2>1. 1 \in 1..Len(F) /\ 1 \in 1..m
    BY <1>1
  <2>2. G[1] = Returned(o, c, 1)
    BY <1>2, <1>3, <2>1 DEF Concats
  <2>3. Returned(o, c, 1) = [i \in 1..c |-> o[(1 - 1) * c + i]]
    <3>1. CollectMask(1) /\ DpRank(1) = 1
      BY EndWorkers
    <3> QED
      BY <3>1, Zenon DEF Returned
  <2>4. (1 - 1) * c = 0 /\ 1 * c = c /\ \A i \in 1..c : 0 + i = i
    OBVIOUS
  <2>5. Returned(o, c, 1) = FirstOf(o, 1 * c)
    BY <2>3, <2>4 DEF FirstOf
  <2>6. Good(0 + 1)
    BY <2>2, <2>5, EndWorkers
  <2> QED
    BY <2>6
<1>6. ASSUME NEW n \in Nat, n \in T PROVE n + 1 \in T
  <2> SUFFICES ASSUME (n + 1) + 1 <= m PROVE Good((n + 1) + 1)
    <3> HIDE DEF Good
    <3> QED
      OBVIOUS
  <2>1. PICK w \in Nat \ {0} : w = n + 1
    OBVIOUS
  <2>2. w \in 1..m /\ w + 1 \in 1..m /\ w + 1 \in 1..Len(F) /\ w + 1 # 1 /\ (w + 1) - 1 = w
    BY <1>1, <2>1
  <2>3. G[w] = FirstOf(o, DpRank(w) * c)
    BY <1>6, <2>1, <2>2
  <2>4. G[w + 1] = G[w] \o Returned(o, c, w + 1)
    <3>1. G[w + 1] = G[(w + 1) - 1] \o F[w + 1]
      BY <1>3, <2>2 DEF Concats
    <3> QED
      BY <1>2, <2>2, <3>1
  <2>5. PICK q \in Nat : q = DpRank(w)
    BY NextWorker
  <2>6. CASE CollectMask(w + 1)
    <3>1. DpRank(w + 1) = q + 1 /\ (q + 1) - 1 = q
      BY <2>5, <2>6, NextWorker
    <3>2. Returned(o, c, w + 1) = [i \in 1..c |-> o[q * c + i]]
      BY <2>6, <3>1 DEF Returned
    <3>3. FirstOf(o, q * c) \o [i \in 1..c |-> o[q * c + i]] = FirstOf(o, (q + 1) * c)
      BY OneMoreRank
    <3>4. G[w + 1] = FirstOf(o, (q + 1) * c)
      BY <2>3, <2>4, <2>5, <3>2, <3>3
    <3> QED
      BY <2>1, <3>1, <3>4
  <2>7. CASE ~CollectMask(w + 1)
    <3>1. DpRank(w + 1) = q
      BY <2>5, <2>7, NextWorker
    <3>2. Returned(o, c, w + 1) = <<>>
      BY <2>7 DEF Returned
    <3>3. PICK s : s = FirstOf(o, q * c)
      OBVIOUS
    <3>4. s \o <<>> = s
      <4>1. PICK x \in Nat : x = q * c
        OBVIOUS
      <4>2. PICK Y : Y = {o[i] : i \in 1..x}
        OBVIOUS
      <4>3. \A i \in 1..x : o[i] \in Y
        BY <4>2
      <4>4. s \in [1..x -> Y]
        BY <3>3, <4>1, <4>3 DEF FirstOf
      <4>5. s \in Seq(Y)
        BY <4>4
      <4> QED
        BY <4>5
    <3>5. G[w + 1] = FirstOf(o, q * c)
      BY <2>3, <2>4, <2>5, <3>2, <3>3, <3>4
    <3> QED
      BY <2>1, <3>1, <3>5
  <2> QED
    BY <2>6, <2>7
<1>7. Nat \subseteq T
  <2> HIDE DEF T
  <2> QED
    BY <1>5, <1>6, NatInductionBySet
<1>8. Good(m)
  <2>1. m - 1 \in Nat /\ (m - 1) + 1 = m /\ m <= m
    OBVIOUS
  <2>2. m - 1 \in T
    BY <1>7, <2>1
  <2> HIDE DEF Good
  <2> QED
    BY <2>1, <2>2
<1>9. FirstOf(o, Len(o)) = o
  BY DEF FirstOf
<1> QED
  BY <1>1, <1>3, <1>8, <1>9

\* Every worker has a rank.
LEMMA WorkerHasRank ==
  ASSUME NEW w \in 1..(DpSize * SpSize)
  PROVE  DpRank(w) \in Ranks
<1>1. PICK m \in Nat \ {0} : m = SpSize
  BY Positive
<1>2. PICK p \in Nat \ {0} : p = DpSize /\ Ranks = 1..p
  BY Positive
<1>3. PICK z \in Nat : z = m * p /\ z = p * m
  BY <1>1, <1>2
<1>4. PICK a \in Nat : a = w - 1 /\ a < z
  BY <1>1, <1>2, <1>3
<1>5. PICK q : q = a \div m
  OBVIOUS
<1>6. PICK r : r = a % m
  OBVIOUS
<1>7. q \in Nat /\ r \in 0..(m - 1) /\ a = m * q + r /\ m * q \in Nat
  BY <1>5, <1>6
<1>8. q < p
  <2> SUFFICES ASSUME p <= q PROVE FALSE
    BY <1>7
  <2>1. m * p <= m * q
    BY <1>7, Monotone
  <2> QED
    BY <1>3, <1>4, <1>7, <2>1
<1>9. DpRank(w) = q + 1
  BY <1>1, <1>4, <1>5 DEF DpRank
<1> QED
  BY <1>2, <1>7, <1>8, <1>9

-----------------------------------------------------------------------------
(* The steps.                                                              *)

\* A rank's micro-batches deal its samples and keep to the budget.
CutWell(m, o, l, d, r) ==
  /\ Divides(m, CountOf(o, l, d), Size(o))
  /\ \A b \in 1..CountOf(o, l, d) : InBudget(m[b], LensOf(o, l, r), Size(o), MaxTokenLen)

\* Padding makes the batch a multiple of the ranks.
LEMMA UpsampledPadded ==
  ASSUME NEW l, l \in Seq(Pos), Len(l) \in Nat \ {0}
  PROVE  Padded(Upsampled(l))
<1>1. PICK X : X = Pos
  OBVIOUS
<1>2. l \in Seq(X) /\ 2 \in X
  BY <1>1 DEF Pos
<1>3. PICK n \in Nat \ {0} : n = Len(l)
  OBVIOUS
<1>4. PICK e : e = (BatchMultiple - (n % BatchMultiple)) % BatchMultiple
  OBVIOUS
<1>5. e \in Nat /\ (n + e) % DpSize = 0
  <2>1. PICK b \in Nat \ {0} : b = BatchMultiple
    BY BatchMultipleFacts
  <2>2. e \in Nat /\ (n + e) % b = 0
    BY <1>4, <2>1, PaddedLength
  <2>3. n + e \in Nat /\ b % DpSize = 0 /\ DpSize \in Nat \ {0}
    BY <2>1, <2>2, BatchMultipleFacts, Positive
  <2> QED
    BY <2>2, <2>3, MultipleOfMultiple
<1>6. PICK t : t = [i \in 1..e |-> PadLen]
  OBVIOUS
<1>7. t \in Seq(X) /\ Len(t) = e
  <2>1. t \in [1..e -> X]
    BY <1>2, <1>6 DEF PadLen
  <2> QED
    BY <1>5, <2>1
<1>8. Upsampled(l) = l \o t
  BY <1>3, <1>4, <1>6 DEF Upsampled
<1>9. l \o t \in Seq(X) /\ Len(l \o t) = n + e
  BY <1>2, <1>3, <1>7
<1>10. n + e \in Nat \ {0}
  BY <1>5
<1> QED
  BY <1>1, <1>5, <1>8, <1>9, <1>10 DEF Padded

\* The result of the first partitioning is an order of the batch with even loads.
LEMMA ReorderResult ==
  ASSUME NEW s, NEW l, NEW o, IndInv, ItemInv, kk = "merge", heap = {s},
         Padded(l), k = DpSize, equal, work = WorksOf(l), o = FlattenSeq(Partitions(s))
  PROVE  Asserted(s) /\ Dealt(o, l) /\ EvenLoads(o, l)
<1>1. PICK X \in SUBSET Nat : X = Pos
  BY DEF Pos
<1>2. l \in Seq(X)
  BY <1>1 DEF Padded
<1>3. /\ work \in Seq(Nat) /\ Len(work) = Len(l)
      /\ \A i \in 1..Len(l) : work[i] = Workload(l[i]) /\ Workload(l[i]) \in Nat
  BY <1>2, WorksType
<1>4. DpSize <= Len(l) /\ DpSize \in Nat \ {0} /\ Ranks = 1..DpSize
  BY SizeFacts, Positive
<1>5. k <= Len(work)
  BY <1>3, <1>4
<1>6. Asserted(s)
  BY <1>5, ResultAsserted
<1>7. PICK P : P = Partitions(s)
  OBVIOUS
<1>8. /\ Divides(P, DpSize, Len(l)) /\ \A i \in 1..DpSize : Sigma(work, ToSet(P[i])) = s[i].sum
      /\ \A i \in 1..DpSize : Len(P[i]) * DpSize = Len(l)
  BY <1>3, <1>5, <1>7, ResultDivides
<1>9. Dealt(o, l) /\ \A r \in Ranks : Len(P[r]) = Size(o) /\ P[r] = ShareOf(o, r)
  BY <1>7, <1>8, ChunksAreParts
<1>10. ASSUME NEW r \in Ranks PROVE LoadOf(o, l, r) = s[r].sum
  <2>1. PICK p : p = P[r]
    OBVIOUS
  <2>2. p \in Seq(Nat) /\ Distinct(p) /\ ToSet(p) \subseteq 1..Len(l)
    <3>1. /\ P \in Seq(Seq(Nat)) /\ Len(P) = DpSize /\ \A i \in 1..DpSize : Distinct(P[i])
          /\ UNION {ToSet(P[i]) : i \in 1..DpSize} = 1..Len(l)
      BY <1>8 DEF Divides
    <3>2. r \in 1..DpSize
      BY <1>4
    <3>3. P[r] \in Seq(Nat)
      BY <3>1, <3>2
    <3>4. ToSet(P[r]) \subseteq 1..Len(l)
      BY <3>1, <3>2
    <3> QED
      BY <2>1, <3>1, <3>2, <3>3, <3>4
  <2>3. Len(p) = Size(o) /\ p = ShareOf(o, r)
    BY <1>9, <2>1
  <2>4. LoadOf(o, l, r) = Sigma(WorksOf(l), ToSet(p))
    BY <2>2, <2>3, LoadIsSum
  <2> QED
    BY <1>4, <1>8, <2>1, <2>4
<1>11. PICK i \in 1..Len(l), j \in 1..Len(l) : \A a, b \in 1..DpSize : s[a].sum - s[b].sum <= work[i] - work[j]
  <2>1. \E i, j \in DOMAIN work : \A a, b \in 1..k : s[a].sum - s[b].sum <= work[i] - work[j]
    BY DEF IndInv, SpreadBound
  <2>2. DOMAIN work = 1..Len(l)
    BY <1>3
  <2> QED
    BY <2>1, <2>2
<1>12. EvenLoads(o, l)
  <2> SUFFICES ASSUME NEW q \in Ranks, NEW r \in Ranks
               PROVE  LoadOf(o, l, q) - LoadOf(o, l, r) <= Workload(l[i]) - Workload(l[j])
    BY DEF EvenLoads
  <2>1. s[q].sum - s[r].sum <= work[i] - work[j]
    BY <1>4, <1>11
  <2> QED
    BY <1>3, <1>10, <2>1
<1> QED
  BY <1>6, <1>9, <1>12

\* The result of the second partitioning deals the samples of the rank within the budget.
LEMMA CutResult ==
  ASSUME NEW s, NEW o, NEW l, NEW d \in DividedBy, NEW r \in Ranks, NEW m,
         IndInv, ItemInv, kk = "merge", heap = {s}, Padded(l), Dealt(o, l),
         CountOf(o, l, d) <= Size(o), FitsOf(o, l), k = CountOf(o, l, d), ~equal, work = WorksOf(LensOf(o, l, r)),
         m = BothEnds(Heaviest(ToSet(Partitions(s))))
  PROVE  Asserted(s) /\ CutWell(m, o, l, d, r)
<1>1. Size(o) \in Nat \ {0} /\ Len(o) = DpSize * Size(o)
  BY SizeFacts DEF Dealt
<1>2. PICK n \in Nat \ {0} : n = Size(o)
  BY <1>1
<1>3. PICK c : c = CountOf(o, l, d)
  OBVIOUS
<1>4. PICK L : L = LensOf(o, l, r)
  OBVIOUS
<1>5. c \in Nat \ {0} /\ c <= n /\ Sigma(L, 1..n) <= c * MaxTokenLen
  BY <1>2, <1>3, <1>4, CountFacts
<1>6. L \in [1..n -> Pos]
  BY <1>1, <1>2, <1>4, ShareTypes
<1>7. PICK X \in SUBSET Nat : X = Pos
  BY DEF Pos
<1>8. L \in Seq(X) /\ Len(L) = n
  <2>1. L \in [1..n -> X]
    BY <1>6, <1>7
  <2> QED
    BY <2>1
<1>9. work \in Seq(Nat) /\ Len(work) = n /\ work = [x \in 1..n |-> Workload(L[x])]
  BY <1>4, <1>8, WorksType DEF WorksOf
<1>10. k <= Len(work) /\ k = c
  BY <1>3, <1>5, <1>9
<1>11. Asserted(s)
  BY <1>10, ResultAsserted
<1>12. PICK P : P = Partitions(s)
  OBVIOUS
<1>13. Divides(P, c, n) /\ \A i \in 1..c : Sigma(work, ToSet(P[i])) = s[i].sum
  BY <1>9, <1>10, <1>12, ResultDivides
<1>14. PICK H : H = Heaviest(ToSet(P))
  OBVIOUS
<1>15. /\ H \in Seq(ToSet(P)) /\ Len(H) = Cardinality(ToSet(P)) /\ Distinct(H) /\ ToSet(H) = ToSet(P)
  BY <1>5, <1>9, <1>13, <1>14, HeaviestOnce
<1>16. /\ m \in Seq(ToSet(P)) /\ Len(m) = Cardinality(ToSet(P)) /\ Distinct(m) /\ ToSet(m) = ToSet(P)
  <2>1. m = BothEnds(H)
    BY <1>12, <1>14
  <2>2. PICK Y : Y = ToSet(P)
    OBVIOUS
  <2>3. BothEnds(H) \in Seq(Y) /\ Len(BothEnds(H)) = Len(H) /\ Distinct(BothEnds(H)) /\ ToSet(BothEnds(H)) = ToSet(H)
    BY <1>15, <2>2, BothEndsKeeps
  <2> QED
    BY <1>15, <2>1, <2>2, <2>3
<1>17. Divides(m, c, n)
  BY <1>5, <1>13, <1>16, DividesReordered
<1>18. \A a \in 1..c : \E i \in 1..c : m[a] = P[i]
  <2> TAKE a \in 1..c
  <2>1. DOMAIN m = 1..c /\ DOMAIN P = 1..c
    BY <1>5, <1>13, <1>17 DEF Divides
  <2>2. m[a] \in ToSet(m)
    BY <2>1 DEF ToSet
  <2> QED
    BY <1>16, <2>1, <2>2 DEF ToSet
<1>19. PICK w \in 1..n : \A a, b \in 1..c : s[a].sum - s[b].sum <= work[w]
  <2>1. \E i, j \in DOMAIN work : \A a, b \in 1..k : s[a].sum - s[b].sum <= work[i]
    BY DEF IndInv, SpreadBound
  <2>2. DOMAIN work = 1..n
    BY <1>9
  <2> QED
    BY <1>10, <2>1, <2>2
<1>20. PICK W : W = work
  OBVIOUS
<1>21. \A a, b \in 1..c : Sigma(W, ToSet(m[a])) - Sigma(W, ToSet(m[b])) <= W[w]
  <2> SUFFICES ASSUME NEW a \in 1..c, NEW b \in 1..c
               PROVE  Sigma(W, ToSet(m[a])) - Sigma(W, ToSet(m[b])) <= W[w]
    OBVIOUS
  <2>1. PICK i \in 1..c : m[a] = P[i]
    BY <1>18
  <2>2. PICK j \in 1..c : m[b] = P[j]
    BY <1>18
  <2>3. Sigma(W, ToSet(P[i])) = s[i].sum /\ Sigma(W, ToSet(P[j])) = s[j].sum
    BY <1>13, <1>20
  <2>4. s[i].sum - s[j].sum <= W[w]
    BY <1>19, <1>20
  <2> QED
    BY <2>1, <2>2, <2>3, <2>4
<1>22. \A b \in 1..c : InBudget(m[b], L, n, MaxTokenLen)
  <2>1. W = [x \in 1..n |-> Workload(L[x])]
    BY <1>9, <1>20
  <2>2. MaxTokenLen \in Nat \ {0}
    BY Positive
  <2> QED
    BY <1>5, <1>6, <1>17, <1>19, <1>21, <2>1, <2>2, BudgetKept
<1> QED
  BY <1>2, <1>3, <1>4, <1>11, <1>17, <1>22 DEF CutWell

-----------------------------------------------------------------------------
(* The inductive invariant: what each phase knows of the batch.            *)

BatchTypes ==
  /\ divisor \in DividedBy /\ warm \in BOOLEAN /\ lens \in Seq(Pos) /\ Len(lens) \in Nat \ {0}
  /\ phase \in {"sampled", "balance", "count", "cut", "collect", "done", "rejected"}
  /\ kk \in {"idle", "build", "merge"} /\ rank \in 1..(DpSize + 1)
  /\ order \in Seq(Nat) /\ output \in Seq(Nat) /\ DOMAIN micro = Ranks

InSampled == phase = "sampled" => kk = "idle" /\ rank = 1
InBalance == phase = "balance" => kk # "idle" /\ rank = 1 /\ k = DpSize /\ equal /\ work = WorksOf(lens)
InCount == phase = "count" => kk = "idle" /\ rank \in Ranks
InCut ==
  phase = "cut" =>
    /\ kk # "idle" /\ rank \in Ranks /\ ~equal /\ k = CountOf(order, lens, divisor)
    /\ k <= Size(order) /\ FitsOf(order, lens)
    /\ work = WorksOf(LensOf(order, lens, rank))
InRejected ==
  phase = "rejected" => kk = "idle" /\ (FitsOf(order, lens) => Size(order) % divisor # 0)
InCollect == phase \in {"collect", "done"} => kk = "idle" /\ rank = DpSize + 1
IsPadded == phase # "sampled" => Padded(lens)
IsDealt ==
  phase \in {"count", "cut", "collect", "done", "rejected"} => Dealt(order, lens) /\ EvenLoads(order, lens)
AreCut == \A r \in Ranks : r < rank => CutWell(micro[r], order, lens, divisor, r)
IsCollected == phase = "done" => output = order

PhaseInv ==
  /\ BatchTypes /\ InSampled /\ InBalance /\ InCount /\ InCut /\ InRejected /\ InCollect
  /\ IsPadded /\ IsDealt /\ AreCut /\ IsCollected

BalanceInv == IndInv /\ ItemInv /\ PhaseInv

\* The model's shares and counts are those of its batch.
LEMMA SameNames ==
  ASSUME NEW r
  PROVE  /\ ShareSize = Size(order) /\ Share(r) = ShareOf(order, r)
         /\ ShareLens(r) = LensOf(order, lens, r)
         /\ RoundupDivisible(ReducedCount(r), divisor) = CountOf(order, lens, divisor)
<1>1. ShareSize = Size(order)
  BY DEF ShareSize, Size
<1>2. \A q : Share(q) = ShareOf(order, q)
  BY <1>1 DEF Share, ShareOf
<1>3. \A q : ShareLens(q) = LensOf(order, lens, q)
  BY <1>1, <1>2 DEF ShareLens, LensOf
<1>4. \A q : LocalCount(q) = LocalOf(order, lens, q)
  BY <1>1, <1>3, Zenon DEF LocalCount, LocalOf, Sum, Sigma
<1>5. ReducedCount(r) = Max({LocalOf(order, lens, q) : q \in Ranks})
  BY <1>4, Zenon DEF ReducedCount
<1> QED
  BY <1>1, <1>2, <1>3, <1>5, Zenon DEF CountOf

\* No sequence is too long when all lengths fit.
LEMMA FitsIsNotTooLong ==
  ASSUME Padded(lens), Dealt(order, lens)
  PROVE  TooLong <=> ~FitsOf(order, lens)
<1>1. PICK l : l = lens
  OBVIOUS
<1>2. PICK o : o = order
  OBVIOUS
<1>3. Size(o) \in Nat \ {0} /\ Len(o) = DpSize * Size(o) /\ Padded(l) /\ Dealt(o, l)
  BY <1>1, <1>2, SizeFacts DEF Dealt
<1>4. PICK n \in Nat \ {0} : n = Size(o)
  BY <1>3
<1>5. \A q \in Ranks : \A i \in 1..n : LensOf(o, l, q)[i] \in Nat
  <2> TAKE q \in Ranks
  <2>1. LensOf(o, l, q) \in [1..n -> Pos]
    BY <1>3, <1>4, ShareTypes
  <2> QED
    BY <2>1 DEF Pos
<1>6. \A q \in Ranks : \A i \in 1..n : LensOf(o, l, q)[i] > MaxTokenLen <=> ~ (LensOf(o, l, q)[i] <= MaxTokenLen)
  BY <1>5, Positive
<1>7. \A q : ShareSize = n /\ ShareLens(q) = LensOf(o, l, q)
  <2>1. \A q : ShareSize = Size(order) /\ ShareLens(q) = LensOf(order, lens, q)
    BY SameNames, Zenon
  <2> QED
    BY <1>1, <1>2, <1>4, <2>1
<1>8. TooLong <=> \E q \in Ranks : \E i \in 1..n : LensOf(o, l, q)[i] > MaxTokenLen
  BY <1>7, Zenon DEF TooLong
<1>9. FitsOf(o, l) <=> \A q \in Ranks : \A i \in 1..n : LensOf(o, l, q)[i] <= MaxTokenLen
  BY <1>4, Zenon DEF FitsOf
<1> QED
  BY <1>1, <1>2, <1>6, <1>8, <1>9, Zenon

\* No rank has cut its share before the first.
LEMMA NoneCut ==
  ASSUME rank = 1, NEW r \in Ranks
  PROVE  ~ (r < rank)
BY Positive

\* The trainer pads the batch and calls karmarkar_karp for its ranks.
LEMMA BalanceBatchStep ==
  ASSUME BalanceInv, BalanceBatch
  PROVE  PhaseInv'
<1>1. phase = "sampled" /\ kk = "idle" /\ rank = 1
  BY DEF BalanceInv, PhaseInv, InSampled, BalanceBatch
<1>2. divisor \in DividedBy /\ warm \in BOOLEAN /\ order \in Seq(Nat) /\ output \in Seq(Nat) /\ DOMAIN micro = Ranks
  BY DEF BalanceInv, PhaseInv, BatchTypes
<1>3. /\ phase' = "balance" /\ kk' = "build" /\ k' = DpSize /\ equal' = TRUE
      /\ rank' = rank /\ divisor' = divisor /\ warm' = warm /\ order' = order /\ micro' = micro /\ output' = output
  BY DEF BalanceBatch, EqualShares
<1>4. Padded(lens')
  <2>1. PICK l : l = lens
    OBVIOUS
  <2>2. l \in Seq(Pos) /\ Len(l) \in Nat \ {0}
    BY <2>1 DEF BalanceInv, PhaseInv, BatchTypes
  <2>3. Padded(Upsampled(l))
    BY <2>2, UpsampledPadded
  <2> QED
    BY <2>1, <2>3 DEF BalanceBatch
<1>5. work' = WorksOf(lens')
  BY DEF BalanceBatch, WorksOf
<1>6. BatchTypes'
  <2>1. rank' \in 1..(DpSize + 1)
    BY <1>1, <1>3, Positive
  <2> QED
    BY <1>2, <1>3, <1>4, <2>1 DEF BatchTypes, Padded
<1>7. (InSampled /\ InBalance /\ InCount /\ InCut /\ InRejected /\ InCollect)'
  BY <1>1, <1>3, <1>5 DEF InSampled, InBalance, InCount, InCut, InRejected, InCollect
<1>8. (IsPadded /\ IsDealt /\ IsCollected)'
  BY <1>3, <1>4 DEF IsPadded, IsDealt, IsCollected
<1>9. AreCut'
  BY <1>1, <1>3, NoneCut DEF AreCut
<1> QED
  BY <1>6, <1>7, <1>8, <1>9 DEF PhaseInv

\* karmarkar_karp leaves the batch alone, and does not fail: the ranks divide the batch.
LEMMA PartitioningStep ==
  ASSUME BalanceInv, Partitioning
  PROVE  PhaseInv'
<1>1. UNCHANGED <<divisor, warm, lens, phase, rank, order, micro, output, work, k, equal>>
  BY DEF Partitioning, BuildEqual, BuildSingle, MergeStates, kkArgs
<1>2. kk \in {"build", "merge"}
  BY DEF Partitioning, BuildEqual, BuildSingle, MergeStates
<1>3. phase \in {"balance", "cut"}
  BY <1>2 DEF BalanceInv, PhaseInv, BatchTypes, InSampled, InCount, InRejected, InCollect
<1>4. ASSUME BuildEqual PROVE kk' = "merge"
  <2>1. phase = "balance" /\ k = DpSize /\ work = WorksOf(lens) /\ Padded(lens)
    BY <1>3, <1>4 DEF BuildEqual, BalanceInv, PhaseInv, InBalance, InCut, IsPadded
  <2>2. PICK l : l = lens
    OBVIOUS
  <2>3. PICK X \in SUBSET Nat : X = Pos
    BY DEF Pos
  <2>4. l \in Seq(X) /\ Padded(l)
    BY <2>1, <2>2, <2>3 DEF Padded
  <2>5. Len(work) = Len(l)
    BY <2>1, <2>2, <2>4, WorksType
  <2>7. Len(l) % DpSize = 0
    BY <2>4 DEF Padded
  <2> QED
    BY <1>4, <2>1, <2>5, <2>7 DEF BuildEqual
<1>5. kk' = "merge"
  BY <1>4 DEF Partitioning, BuildSingle, MergeStates
<1>6. BatchTypes'
  BY <1>1, <1>5 DEF BalanceInv, PhaseInv, BatchTypes
<1>7. (InSampled /\ InCount /\ InRejected /\ InCollect /\ IsCollected)'
  BY <1>1, <1>3 DEF InSampled, InCount, InRejected, InCollect, IsCollected
<1>8. (InBalance /\ InCut)'
  BY <1>1, <1>5 DEF BalanceInv, PhaseInv, InBalance, InCut
<1>9. (IsPadded /\ IsDealt /\ AreCut)'
  BY <1>1 DEF BalanceInv, PhaseInv, IsPadded, IsDealt, AreCut
<1> QED
  BY <1>6, <1>7, <1>8, <1>9 DEF PhaseInv

\* The reordered batch is an order of the batch, and the ranks' loads are even.
LEMMA ReorderStep ==
  ASSUME BalanceInv, Reorder
  PROVE  PhaseInv'
<1>1. phase = "balance" /\ rank = 1 /\ k = DpSize /\ equal /\ work = WorksOf(lens) /\ Padded(lens)
  BY DEF BalanceInv, PhaseInv, InBalance, IsPadded, Reorder
<1>2. PICK s \in heap : /\ KKReturn(s)
                        /\ IF Asserted(s) THEN order' = FlattenSeq(Partitions(s)) /\ phase' = "count"
                                          ELSE phase' = "failed" /\ UNCHANGED order
  BY DEF Reorder
<1>3. kk = "merge" /\ heap = {s} /\ kk' = "idle" /\ UNCHANGED <<work, k, equal>>
  BY <1>2 DEF KKReturn, kkArgs
<1>4. UNCHANGED <<divisor, warm, lens, rank, micro, output>>
  BY DEF Reorder
<1>6. PICK o : o = FlattenSeq(Partitions(s))
  OBVIOUS
<1>7. PICK l : l = lens
  OBVIOUS
<1>9. Asserted(s) /\ Dealt(o, l) /\ EvenLoads(o, l)
  BY <1>1, <1>3, <1>6, <1>7, ReorderResult DEF BalanceInv
<1>10. phase' = "count" /\ order' = o /\ lens' = l
  BY <1>2, <1>4, <1>6, <1>7, <1>9
<1>11. BatchTypes'
  <2>1. o \in Seq(Nat)
    BY <1>9 DEF Dealt
  <2> QED
    BY <1>3, <1>4, <1>10, <2>1 DEF BalanceInv, PhaseInv, BatchTypes
<1>12. (InSampled /\ InBalance /\ InCut /\ InRejected /\ InCollect /\ IsCollected)'
  BY <1>10 DEF InSampled, InBalance, InCut, InRejected, InCollect, IsCollected
<1>13. InCount'
  BY <1>1, <1>3, <1>4, Positive DEF InCount
<1>14. (IsPadded /\ IsDealt)'
  BY <1>1, <1>7, <1>9, <1>10 DEF IsPadded, IsDealt
<1>15. AreCut'
  BY <1>1, <1>4, NoneCut DEF AreCut
<1> QED
  BY <1>11, <1>12, <1>13, <1>14, <1>15 DEF PhaseInv

\* What a rank asks karmarkar_karp for.
CallsForRank == k' \in Nat \ {0} /\ kk' = "build" /\ equal' = FALSE /\ work' \in Seq(Nat)

\* A rank is refused only for a sequence that is too long or a share that is not a multiple
\* of the divisor.
LEMMA MicroCountStep ==
  ASSUME BalanceInv, MicroCount
  PROVE  PhaseInv' /\ (CallsForRank \/ UNCHANGED kkVars)
<1>1. phase = "count" /\ kk = "idle" /\ rank \in Ranks /\ Padded(lens) /\ Dealt(order, lens)
  BY DEF BalanceInv, PhaseInv, InCount, IsPadded, IsDealt, MicroCount
<1>2. UNCHANGED <<divisor, warm, lens, rank, order, micro, output>>
  BY DEF MicroCount
<1>3. PICK l : l = lens
  OBVIOUS
<1>4. PICK o : o = order
  OBVIOUS
<1>5. PICK d \in DividedBy : d = divisor
  BY DEF BalanceInv, PhaseInv, BatchTypes
<1>6. PICK r \in Ranks : r = rank
  BY <1>1
<1>7. Padded(l) /\ Dealt(o, l)
  BY <1>1, <1>3, <1>4
<1>8. PICK c : c = CountOf(o, l, d)
  OBVIOUS
<1>9. c \in Nat \ {0} /\ (Size(o) % d = 0 => c <= Size(o))
  BY <1>7, <1>8, CountFacts
<1>10. Size(o) \in Nat \ {0} /\ Len(o) = DpSize * Size(o)
  BY <1>7, SizeFacts DEF Dealt
<1>11. PICK n \in Nat \ {0} : n = Size(o)
  BY <1>10
<1>12. RoundupDivisible(ReducedCount(rank), divisor) = c /\ ShareSize = n
  <2>1. /\ RoundupDivisible(ReducedCount(rank), divisor) = CountOf(order, lens, divisor)
        /\ ShareSize = Size(order)
    BY SameNames, Zenon
  <2> QED
    BY <1>3, <1>4, <1>5, <1>8, <1>11, <2>1, Zenon
<1>13. TooLong <=> ~FitsOf(o, l)
  BY <1>1, <1>3, <1>4, FitsIsNotTooLong, Zenon
<1>14. (IsPadded /\ AreCut)'
  BY <1>1, <1>2 DEF BalanceInv, PhaseInv, IsPadded, AreCut
<1>15. IsDealt'
  BY <1>1, <1>2 DEF BalanceInv, PhaseInv, IsDealt
<1>16. CASE TooLong \/ c > n
  <2>1. phase' = "rejected" /\ UNCHANGED kkVars
    BY <1>12, <1>16 DEF MicroCount
  <2>2. kk' = "idle"
    BY <1>1, <2>1 DEF kkVars
  <2>3. FitsOf(o, l) => n % d # 0
    BY <1>9, <1>11, <1>13, <1>16
  <2>4. BatchTypes'
    BY <1>2, <2>1, <2>2 DEF BalanceInv, PhaseInv, BatchTypes
  <2>5. (InSampled /\ InBalance /\ InCount /\ InCut /\ InCollect /\ IsCollected)'
    BY <2>1 DEF InSampled, InBalance, InCount, InCut, InCollect, IsCollected
  <2>6. InRejected'
    BY <1>2, <1>3, <1>4, <1>5, <1>11, <2>2, <2>3 DEF InRejected
  <2> QED
    BY <1>14, <1>15, <2>1, <2>4, <2>5, <2>6 DEF PhaseInv
<1>17. CASE ~TooLong /\ ~ (c > n)
  <2>1. /\ phase' = "cut" /\ kk' = "build" /\ equal' = FALSE /\ k' = c
        /\ work' = [i \in 1..ShareSize |-> Workload(ShareLens(rank)[i])]
    BY <1>12, <1>17 DEF MicroCount
  <2>2. c <= n /\ FitsOf(o, l)
    BY <1>9, <1>13, <1>17
  <2>3. PICK L : L = LensOf(o, l, r)
    OBVIOUS
  <2>4. PICK X \in SUBSET Nat : X = Pos
    BY DEF Pos
  <2>5. L \in Seq(X) /\ Len(L) = n
    <3>1. L \in [1..n -> X]
      BY <1>7, <1>10, <1>11, <2>3, <2>4, ShareTypes
    <3> QED
      BY <3>1
  <2>6. work' = WorksOf(L)
    <3>1. ShareLens(rank) = L
      <4>1. ShareLens(rank) = LensOf(order, lens, rank)
        BY SameNames, Zenon
      <4> QED
        BY <1>3, <1>4, <1>6, <2>3, <4>1
    <3>2. work' = [i \in 1..n |-> Workload(L[i])]
      BY <1>12, <2>1, <3>1
    <3> QED
      BY <2>5, <3>2 DEF WorksOf
  <2>7. work' \in Seq(Nat)
    BY <2>5, <2>6, WorksType
  <2>8. BatchTypes'
    BY <1>2, <2>1 DEF BalanceInv, PhaseInv, BatchTypes
  <2>9. (InSampled /\ InBalance /\ InCount /\ InRejected /\ InCollect /\ IsCollected)'
    BY <2>1 DEF InSampled, InBalance, InCount, InRejected, InCollect, IsCollected
  <2>10. InCut'
    <3>1. rank' = r /\ order' = o /\ lens' = l /\ divisor' = d
      BY <1>2, <1>3, <1>4, <1>5, <1>6
    <3>2. kk' # "idle" /\ ~equal' /\ r \in Ranks /\ k' = c
      BY <2>1
    <3> QED
      BY <1>8, <1>11, <2>2, <2>3, <2>6, <3>1, <3>2 DEF InCut
  <2> QED
    BY <1>9, <1>14, <1>15, <2>1, <2>7, <2>8, <2>9, <2>10 DEF PhaseInv, CallsForRank
<1> QED
  BY <1>16, <1>17

\* The micro-batches of a rank deal its samples within the budget.
LEMMA RearrangeStep ==
  ASSUME BalanceInv, Rearrange
  PROVE  PhaseInv'
<1>1. /\ phase = "cut" /\ rank \in Ranks /\ ~equal /\ k = CountOf(order, lens, divisor)
      /\ work = WorksOf(LensOf(order, lens, rank)) /\ k <= Size(order) /\ FitsOf(order, lens)
      /\ Padded(lens) /\ Dealt(order, lens) /\ EvenLoads(order, lens)
  BY DEF BalanceInv, PhaseInv, InCut, IsPadded, IsDealt, Rearrange
<1>2. PICK s \in heap :
        /\ KKReturn(s)
        /\ IF Asserted(s)
           THEN /\ micro' = [micro EXCEPT ![rank] = BothEnds(Heaviest(ToSet(Partitions(s))))]
                /\ rank' = rank + 1
                /\ phase' = IF rank = DpSize THEN "collect" ELSE "count"
           ELSE phase' = "failed" /\ UNCHANGED <<micro, rank>>
  BY DEF Rearrange
<1>3. kk = "merge" /\ heap = {s} /\ kk' = "idle" /\ UNCHANGED <<work, k, equal>>
  BY <1>2 DEF KKReturn, kkArgs
<1>4. UNCHANGED <<divisor, warm, lens, order, output>>
  BY DEF Rearrange
<1>5. PICK l : l = lens
  OBVIOUS
<1>6. PICK o : o = order
  OBVIOUS
<1>7. PICK d \in DividedBy : d = divisor
  BY DEF BalanceInv, PhaseInv, BatchTypes
<1>8. PICK r \in Ranks : r = rank
  BY <1>1
<1>9. PICK m : m = BothEnds(Heaviest(ToSet(Partitions(s))))
  OBVIOUS
<1>10. Asserted(s) /\ CutWell(m, o, l, d, r)
  BY <1>1, <1>3, <1>5, <1>6, <1>7, <1>8, <1>9, CutResult DEF BalanceInv
<1>11. /\ micro' = [micro EXCEPT ![r] = m] /\ rank' = r + 1
       /\ phase' = IF r = DpSize THEN "collect" ELSE "count"
  BY <1>2, <1>8, <1>9, <1>10
<1>12. DpSize \in Nat \ {0} /\ Ranks = 1..DpSize /\ r \in 1..DpSize
  BY Positive
<1>13. phase' \in {"collect", "count"} /\ (phase' = "collect" => r = DpSize) /\ (phase' = "count" => r # DpSize)
  BY <1>11
<1>14. DOMAIN micro = Ranks /\ DOMAIN micro' = Ranks
  BY <1>11 DEF BalanceInv, PhaseInv, BatchTypes
<1>15. BatchTypes'
  <2>1. rank' \in 1..(DpSize + 1)
    BY <1>11, <1>12
  <2> QED
    BY <1>3, <1>4, <1>13, <1>14, <2>1 DEF BalanceInv, PhaseInv, BatchTypes
<1>16. (InSampled /\ InBalance /\ InCut /\ InRejected /\ IsCollected)'
  BY <1>13 DEF InSampled, InBalance, InCut, InRejected, IsCollected
<1>17. InCount' /\ InCollect'
  <2>1. phase' = "count" => rank' \in Ranks
    BY <1>11, <1>12, <1>13
  <2>2. phase' \in {"collect", "done"} => rank' = DpSize + 1
    BY <1>11, <1>13
  <2> QED
    BY <1>3, <2>1, <2>2 DEF InCount, InCollect
<1>18. (IsPadded /\ IsDealt)'
  BY <1>1, <1>4 DEF IsPadded, IsDealt
<1>19. AreCut'
  <2> SUFFICES ASSUME NEW q \in Ranks, q < rank'
               PROVE  CutWell(micro'[q], order', lens', divisor', q)
    BY DEF AreCut
  <2>1. CASE q = r
    <3>1. micro'[q] = m
      BY <1>11, <1>14, <2>1
    <3> QED
      BY <1>4, <1>5, <1>6, <1>7, <1>10, <2>1, <3>1
  <2>2. CASE q # r
    <3>1. micro'[q] = micro[q] /\ q < rank
      BY <1>8, <1>11, <1>12, <1>14, <2>2
    <3>2. CutWell(micro[q], order, lens, divisor, q)
      BY <3>1 DEF BalanceInv, PhaseInv, AreCut
    <3> QED
      BY <1>4, <3>1, <3>2
  <2> QED
    BY <2>1, <2>2
<1> QED
  BY <1>15, <1>16, <1>17, <1>18, <1>19 DEF PhaseInv

\* A rank's outputs come back in the order of its share (restore_dynamic_batch).
LEMMA RestoredShare ==
  ASSUME BalanceInv, phase = "collect", NEW r \in Ranks
  PROVE  Restored(r) = ShareOf(order, r)
<1>1. Padded(lens) /\ Dealt(order, lens) /\ rank = DpSize + 1
  BY DEF BalanceInv, PhaseInv, IsPadded, IsDealt, InCollect
<1>2. PICK l : l = lens
  OBVIOUS
<1>3. PICK o : o = order
  OBVIOUS
<1>4. PICK d \in DividedBy : d = divisor
  BY DEF BalanceInv, PhaseInv, BatchTypes
<1>5. PICK m : m = micro[r]
  OBVIOUS
<1>6. Padded(l) /\ Dealt(o, l)
  BY <1>1, <1>2, <1>3
<1>7. CutWell(m, o, l, d, r)
  <2>1. r < rank
    BY <1>1, Positive
  <2> QED
    BY <1>2, <1>3, <1>4, <1>5, <2>1 DEF BalanceInv, PhaseInv, AreCut
<1>8. PICK n \in Nat \ {0} : n = Size(o)
  BY <1>6, SizeFacts DEF Dealt
<1>9. PICK c \in Nat \ {0} : c = CountOf(o, l, d)
  BY <1>6, CountFacts
<1>10. PICK f : f = FlattenSeq(m)
  OBVIOUS
<1>11. f \in Seq(Nat) /\ Distinct(f) /\ Len(f) = n /\ ToSet(f) = 1..n
  <2>1. Divides(m, c, n)
    BY <1>7, <1>8, <1>9 DEF CutWell
  <2>2. /\ m \in Seq(Seq(Nat)) /\ Len(m) = c /\ \A i \in 1..c : Distinct(m[i])
        /\ \A i, j \in 1..c : i # j => ToSet(m[i]) \cap ToSet(m[j]) = {}
        /\ UNION {ToSet(m[i]) : i \in 1..c} = 1..n
    BY <2>1 DEF Divides
  <2> QED
    BY <1>10, <2>2, FlattenDivides
<1>12. PICK g : g = ShareOf(o, r)
  OBVIOUS
<1>13. g = [j \in 1..n |-> g[j]]
  BY <1>8, <1>12 DEF ShareOf
<1>14. [j \in DOMAIN f |-> [i \in DOMAIN f |-> g[f[i]]][ReverseIdx(f)[j]]] = g
  BY <1>11, <1>13, ReverseUndoes
<1>15. Share(r) = g
  <2>1. Share(r) = ShareOf(order, r)
    BY SameNames, Zenon
  <2> QED
    BY <1>3, <1>12, <2>1
<1>16. Restored(r) = [j \in DOMAIN f |-> [i \in DOMAIN f |-> g[f[i]]][ReverseIdx(f)[j]]]
  <2>1. f = FlattenSeq(micro[r])
    BY <1>5, <1>10
  <2>2. PICK p : p = [i \in DOMAIN f |-> Share(r)[f[i]]]
    OBVIOUS
  <2>3. Restored(r) = [j \in DOMAIN f |-> p[ReverseIdx(f)[j]]]
    BY <2>1, <2>2 DEF Restored
  <2>4. p = [i \in DOMAIN f |-> g[f[i]]]
    BY <1>15, <2>2
  <2> QED
    BY <2>3, <2>4
<1> QED
  BY <1>3, <1>12, <1>14, <1>16

\* The controller collects the batch in the order it sent it.
LEMMA CollectStep ==
  ASSUME BalanceInv, Collect
  PROVE  PhaseInv'
<1>1. /\ phase = "collect" /\ phase' = "done"
      /\ UNCHANGED <<work, k, equal, heap, kk, divisor, warm, lens, rank, order, micro>>
  BY DEF Collect, kkVars
<1>2. /\ Padded(lens) /\ Dealt(order, lens) /\ EvenLoads(order, lens)
      /\ divisor \in DividedBy /\ order \in Seq(Nat) /\ kk = "idle" /\ rank = DpSize + 1
  BY <1>1 DEF BalanceInv, PhaseInv, IsPadded, IsDealt, BatchTypes, InCollect
<1>3. PICK o : o = order
  OBVIOUS
<1>4. PICK n \in Nat : n = Size(o) /\ Len(o) = DpSize * n
  <2>1. PICK l : l = lens
    OBVIOUS
  <2>2. Padded(l) /\ Len(o) = Len(l)
    BY <1>2, <1>3, <2>1 DEF Dealt
  <2> QED
    BY <1>2, <2>2, SizeFacts
<1>5. PICK F : F = [w \in 1..(DpSize * SpSize) |-> IF CollectMask(w) THEN Restored(DpRank(w)) ELSE <<>>]
  OBVIOUS
<1>6. output' = FlattenSeq(F)
  BY <1>5 DEF Collect
<1>7. PICK z \in Nat : z = DpSize * SpSize
  BY EndWorkers
<1>8. ASSUME NEW w \in 1..z PROVE F[w] = Returned(o, n, w)
  <2>1. CASE CollectMask(w)
    <3>1. DpRank(w) \in Ranks
      BY <1>7, WorkerHasRank
    <3>2. Restored(DpRank(w)) = ShareOf(order, DpRank(w))
      BY <1>1, <3>1, RestoredShare
    <3>3. F[w] = ShareOf(o, DpRank(w))
      BY <1>3, <1>5, <1>7, <2>1, <3>2
    <3>4. ShareOf(o, DpRank(w)) = Returned(o, n, w)
      BY <1>4, <2>1 DEF ShareOf, Returned
    <3> QED
      BY <3>3, <3>4
  <2>2. CASE ~CollectMask(w)
    BY <1>5, <1>7, <2>2 DEF Returned
  <2> QED
    BY <2>1, <2>2
<1>9. PICK X : X = {F[w] : w \in 1..z}
  OBVIOUS
<1>10. F \in Seq(X) /\ Len(F) = DpSize * SpSize
  <2>1. \A w \in 1..z : F[w] \in X
    BY <1>9
  <2>2. F = [w \in 1..z |-> F[w]]
    BY <1>5, <1>7
  <2>3. F \in [1..z -> X]
    BY <2>1, <2>2
  <2> QED
    BY <1>7, <2>3
<1>11. output' = order
  <2>1. \A w \in 1..Len(F) : F[w] = Returned(o, n, w)
    BY <1>7, <1>8, <1>10
  <2>2. o \in Seq(Nat)
    BY <1>2, <1>3
  <2>3. FlattenSeq(F) = o
    BY <1>4, <1>10, <2>1, <2>2, CollectInOrder
  <2> QED
    BY <1>3, <1>6, <2>3
<1>12. BatchTypes'
  BY <1>1, <1>2, <1>11 DEF BalanceInv, PhaseInv, BatchTypes
<1>13. (InSampled /\ InBalance /\ InCount /\ InCut /\ InRejected)'
  BY <1>1 DEF InSampled, InBalance, InCount, InCut, InRejected
<1>14. (InCollect /\ IsPadded /\ IsDealt /\ IsCollected)'
  BY <1>1, <1>2, <1>11 DEF InCollect, IsPadded, IsDealt, IsCollected
<1>15. AreCut'
  BY <1>1 DEF BalanceInv, PhaseInv, AreCut
<1> QED
  BY <1>12, <1>13, <1>14, <1>15 DEF PhaseInv

-----------------------------------------------------------------------------
(* The theorems.                                                           *)

\* The invariant holds of a sampled batch.
LEMMA InitInv == Init => BalanceInv
<1> SUFFICES ASSUME Init PROVE BalanceInv
  OBVIOUS
<1>1. KKInit
  BY DEF Init
<1>2. IndInv /\ ItemInv
  BY <1>1, InitKeepsInv
<1>4. /\ phase = "sampled" /\ rank = 1 /\ order = <<>> /\ output = <<>> /\ kk = "idle"
      /\ divisor \in DividedBy /\ warm \in BOOLEAN /\ DOMAIN micro = Ranks
  BY DEF Init, KKInit
<1>5. lens \in Seq(Pos) /\ Len(lens) \in Nat \ {0}
  <2>1. PICK X : X = Pos
    OBVIOUS
  <2>2. lens \in Seq(X) /\ lens # <<>>
    BY <2>1, BalanceAssumption DEF Init, Pos
  <2>3. Len(lens) \in Nat \ {0}
    BY <2>2
  <2> QED
    BY <2>1, <2>2, <2>3
<1>6. BatchTypes
  <2>1. <<>> \in Seq(Nat) /\ 1 \in 1..(DpSize + 1)
    BY Positive
  <2> QED
    BY <1>4, <1>5, <2>1 DEF BatchTypes
<1>7. InSampled /\ InBalance /\ InCount /\ InCut /\ InRejected /\ InCollect /\ IsPadded /\ IsDealt /\ IsCollected
  BY <1>4 DEF InSampled, InBalance, InCount, InCut, InRejected, InCollect, IsPadded, IsDealt, IsCollected
<1>8. AreCut
  BY <1>4, NoneCut DEF AreCut
<1> QED
  BY <1>2, <1>6, <1>7, <1>8 DEF BalanceInv, PhaseInv

\* Every step is a call, a step or a return of karmarkar_karp, or leaves it alone.
LEMMA StepOfKK == BalanceInv /\ [Next]_vars => [KKNext]_kkVars
<1> SUFFICES ASSUME BalanceInv, [Next]_vars PROVE [KKNext]_kkVars
  OBVIOUS
<1>1. CASE BalanceBatch
  <2>1. InBalance' /\ IsPadded' /\ phase' = "balance"
    BY <1>1, BalanceBatchStep DEF PhaseInv, BalanceBatch
  <2>2. work' = WorksOf(lens') /\ Padded(lens')
    BY <2>1 DEF InBalance, IsPadded
  <2>3. PICK l : l = lens'
    OBVIOUS
  <2>4. PICK X \in SUBSET Nat : X = Pos
    BY DEF Pos
  <2>5. l \in Seq(X)
    BY <2>2, <2>3, <2>4 DEF Padded
  <2>6. work' \in Seq(Nat)
    BY <2>2, <2>3, <2>5, WorksType
  <2>7. KKCall
    BY <1>1, <2>6, Positive DEF BalanceBatch, KKCall, EqualShares
  <2> QED
    BY <2>7 DEF KKNext
<1>2. CASE Partitioning
  BY <1>2 DEF Partitioning, KKNext
<1>3. CASE Reorder
  BY <1>3 DEF Reorder, KKNext
<1>4. CASE MicroCount
  <2>1. CallsForRank \/ UNCHANGED kkVars
    BY <1>4, MicroCountStep
  <2>2. CASE CallsForRank
    <3>1. kk = "idle" /\ (UNCHANGED heap \/ UNCHANGED kkVars)
      BY <1>4 DEF MicroCount
    <3>2. UNCHANGED heap
      BY <3>1 DEF kkVars
    <3>3. KKCall
      BY <2>2, <3>1, <3>2 DEF CallsForRank, KKCall
    <3> QED
      BY <3>3 DEF KKNext
  <2> QED
    BY <2>1, <2>2
<1>5. CASE Rearrange
  BY <1>5 DEF Rearrange, KKNext
<1>6. CASE Collect
  BY <1>6 DEF Collect
<1>7. CASE Finished \/ UNCHANGED vars
  BY <1>7 DEF Finished, vars
<1> QED
  BY <1>1, <1>2, <1>3, <1>4, <1>5, <1>6, <1>7 DEF Next

\* The invariant is inductive.
LEMMA StepInv == BalanceInv /\ [Next]_vars => BalanceInv'
<1> SUFFICES ASSUME BalanceInv, [Next]_vars PROVE BalanceInv'
  OBVIOUS
<1>1. IndInv' /\ ItemInv'
  BY StepOfKK, StepKeepsInv, StepKeepsItems DEF BalanceInv
<1>2. PhaseInv'
  <2>1. CASE BalanceBatch
    BY <2>1, BalanceBatchStep
  <2>2. CASE Partitioning
    BY <2>2, PartitioningStep
  <2>3. CASE Reorder
    BY <2>3, ReorderStep
  <2>4. CASE MicroCount
    BY <2>4, MicroCountStep
  <2>5. CASE Rearrange
    BY <2>5, RearrangeStep
  <2>6. CASE Collect
    BY <2>6, CollectStep
  <2>7. CASE Finished \/ UNCHANGED vars
    <3>1. UNCHANGED <<work, k, equal, heap, kk, divisor, warm, lens, phase, rank, order, micro, output>>
      BY <2>7 DEF Finished, vars, kkVars
    <3>2. (BatchTypes /\ InSampled /\ InBalance /\ InCount /\ InCut /\ InRejected /\ InCollect)'
      BY <3>1 DEF BalanceInv, PhaseInv, BatchTypes, InSampled, InBalance, InCount, InCut, InRejected, InCollect
    <3>3. (IsPadded /\ IsDealt /\ AreCut /\ IsCollected)'
      BY <3>1 DEF BalanceInv, PhaseInv, IsPadded, IsDealt, AreCut, IsCollected
    <3> QED
      BY <3>2, <3>3 DEF PhaseInv
  <2> QED
    BY <2>1, <2>2, <2>3, <2>4, <2>5, <2>6, <2>7 DEF Next
<1> QED
  BY <1>1, <1>2 DEF BalanceInv

\* The invariant holds always.
LEMMA AlwaysInv == Spec => []BalanceInv
BY InitInv, StepInv, PTL DEF Spec

\* Both callers use karmarkar_karp as it is specified for any input.
LEMMA CallersKeepToSpec == Spec => KKSpec
<1>1. Init => KKInit
  BY DEF Init
<1> QED
  BY <1>1, StepOfKK, AlwaysInv, PTL DEF Spec, KKSpec

\* So what karmarkar_karp promises of any input holds of the trainer's and the ranks' calls.
THEOREM CallsBalanced == Spec => []SpreadBound
BY CallersKeepToSpec, PartitionsBalanced, PTL

\* The variables have the values their names say.
THEOREM BalanceTypes == Spec => []TypeOK
<1>1. BalanceInv => TypeOK
  <2> SUFFICES ASSUME BalanceInv PROVE TypeOK
    OBVIOUS
  <2>1. KKTypeOK
    BY DEF BalanceInv, IndInv
  <2>2. lens \in Seq(Nat)
    <3>1. PICK X \in SUBSET Nat : X = Pos
      BY DEF Pos
    <3>2. lens \in Seq(X)
      BY <3>1 DEF BalanceInv, PhaseInv, BatchTypes
    <3>3. \A i \in 1..Len(lens) : lens[i] \in X
      BY <3>2
    <3>4. PICK n \in Nat : n = Len(lens) /\ lens = [i \in 1..n |-> lens[i]]
      BY <3>2
    <3>5. lens \in [1..n -> Nat]
      BY <3>3, <3>4
    <3> QED
      BY <3>5
  <2> QED
    BY <2>1, <2>2 DEF BalanceInv, PhaseInv, BatchTypes, TypeOK
<1> QED
  BY <1>1, AlwaysInv, PTL

\* Whatever the batch, the mini-batch sizes, max_token_len and num_batches_divided_by, no
\* assert of karmarkar_karp and _check_and_sort_partitions fails, and one of
\* rearrange_micro_batches on its arguments fails only for a sequence longer than
\* max_token_len or a share that is not a multiple of num_batches_divided_by.
THEOREM NoAssertFails == Spec => []ChecksHold
<1>1. BalanceInv => ChecksHold
  <2> SUFFICES ASSUME BalanceInv PROVE ChecksHold
    OBVIOUS
  <2>1. phase # "failed" /\ kk # "failed"
    BY DEF BalanceInv, PhaseInv, BatchTypes
  <2>2. ASSUME phase = "rejected" PROVE TooLong \/ ShareSize % divisor # 0
    <3>1. /\ FitsOf(order, lens) => Size(order) % divisor # 0
          /\ Padded(lens) /\ Dealt(order, lens)
      BY <2>2 DEF BalanceInv, PhaseInv, InRejected, IsPadded, IsDealt
    <3>2. TooLong <=> ~FitsOf(order, lens)
      BY <3>1, FitsIsNotTooLong
    <3>3. ShareSize = Size(order)
      BY SameNames, Zenon
    <3> QED
      BY <3>1, <3>2, <3>3, Zenon
  <2> QED
    BY <2>1, <2>2 DEF ChecksHold
<1> QED
  BY <1>1, AlwaysInv, PTL

\* The workloads of the ranks differ by no more than two samples of the batch do.
THEOREM LoadsEven == Spec => []SharesBalanced
<1>1. BalanceInv => SharesBalanced
  <2> SUFFICES ASSUME BalanceInv, phase = "done", NEW q \in Ranks, NEW r \in Ranks
      PROVE LET load == [x \in Ranks |-> Sum([i \in 1..ShareSize |-> Workload(ShareLens(x)[i])], 1..ShareSize)]
            IN \E i, j \in DOMAIN lens : load[q] - load[r] <= Workload(lens[i]) - Workload(lens[j])
    BY Zenon DEF SharesBalanced
  <2> DEFINE load == [x \in Ranks |-> Sum([i \in 1..ShareSize |-> Workload(ShareLens(x)[i])], 1..ShareSize)]
  <2>1. EvenLoads(order, lens) /\ Padded(lens)
    BY DEF BalanceInv, PhaseInv, IsDealt, IsPadded
  <2>2. DOMAIN lens = 1..Len(lens)
    BY <2>1 DEF Padded
  <2>3. PICK a \in DOMAIN lens, b \in DOMAIN lens :
          LoadOf(order, lens, q) - LoadOf(order, lens, r) <= Workload(lens[a]) - Workload(lens[b])
    BY <2>1, <2>2 DEF EvenLoads
  <2>4. ASSUME NEW x \in Ranks PROVE load[x] = LoadOf(order, lens, x)
    <3>1. ShareSize = Size(order) /\ ShareLens(x) = LensOf(order, lens, x)
      BY SameNames, Zenon
    <3>2. load[x] = Sum([i \in 1..ShareSize |-> Workload(ShareLens(x)[i])], 1..ShareSize)
      OBVIOUS
    <3> QED
      BY <3>1, <3>2, Zenon DEF LoadOf, Sum, Sigma
  <2> HIDE DEF load
  <2>5. load[q] - load[r] <= Workload(lens[a]) - Workload(lens[b])
    BY <2>3, <2>4
  <2> QED
    BY <2>5 DEF load
<1> QED
  BY <1>1, AlwaysInv, PTL

\* All ranks run the same number of micro-batches.
THEOREM SameCounts == Spec => []RanksAgree
<1>1. BalanceInv => RanksAgree
  <2> SUFFICES ASSUME BalanceInv, phase = "done", NEW q \in Ranks, NEW r \in Ranks
               PROVE  Len(micro[q]) = Len(micro[r])
    BY DEF RanksAgree
  <2>1. \A x \in Ranks : Len(micro[x]) = CountOf(order, lens, divisor)
    <3> TAKE x \in Ranks
    <3>1. x < rank
      BY Positive DEF BalanceInv, PhaseInv, InCollect
    <3> QED
      BY <3>1 DEF BalanceInv, PhaseInv, AreCut, CutWell, Divides
  <2> QED
    BY <2>1
<1> QED
  BY <1>1, AlwaysInv, PTL

\* A micro-batch exceeds its budget of tokens only as far as the lengths of the rank's
\* sequences differ.
THEOREM BudgetHolds == Spec => []TokenBudget
<1>1. BalanceInv => TokenBudget
  <2> SUFFICES ASSUME BalanceInv, phase = "done", NEW r \in Ranks, NEW b \in DOMAIN micro[r]
      PROVE \E i, j \in 1..ShareSize :
              (LinearCost + ShareLens(r)[j]) * Sum(ShareLens(r), ToSet(micro[r][b]))
                <= (LinearCost + ShareLens(r)[i]) * (MaxTokenLen + ShareLens(r)[i])
    BY DEF TokenBudget
  <2>1. r < rank
    BY Positive DEF BalanceInv, PhaseInv, InCollect
  <2>2. CutWell(micro[r], order, lens, divisor, r)
    BY <2>1 DEF BalanceInv, PhaseInv, AreCut
  <2>3. b \in 1..CountOf(order, lens, divisor)
    BY <2>2 DEF CutWell, Divides
  <2>4. InBudget(micro[r][b], LensOf(order, lens, r), Size(order), MaxTokenLen)
    BY <2>2, <2>3 DEF CutWell
  <2>5. ShareSize = Size(order) /\ ShareLens(r) = LensOf(order, lens, r)
    BY SameNames, Zenon
  <2>6. InBudget(micro[r][b], ShareLens(r), ShareSize, MaxTokenLen)
    BY <2>4, <2>5, Zenon
  <2> QED
    BY <2>6 DEF InBudget, Sum, Sigma
<1> QED
  BY <1>1, AlwaysInv, PTL

\* The controller collects every sample once, in the order of the batch it sent.
THEOREM CollectedInOrder == Spec => []OutputsAligned
<1>1. BalanceInv => OutputsAligned
  <2> SUFFICES ASSUME BalanceInv, phase = "done"
               PROVE  output = order /\ ToSet(order) = DOMAIN lens /\ Len(order) = Len(lens)
    BY DEF OutputsAligned
  <2>1. output = order /\ Dealt(order, lens) /\ Padded(lens)
    BY DEF BalanceInv, PhaseInv, IsCollected, IsDealt, IsPadded
  <2>2. DOMAIN lens = 1..Len(lens)
    BY <2>1 DEF Padded
  <2> QED
    BY <2>1, <2>2 DEF Dealt
<1> QED
  BY <1>1, AlwaysInv, PTL
=============================================================================
