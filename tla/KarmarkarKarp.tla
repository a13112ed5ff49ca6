--------------------------- MODULE KarmarkarKarp ---------------------------
(***************************************************************************)
(* karmarkar_karp (utils/seqlen_balancing.py): the largest differencing    *)
(* method, for any list of workloads and any number of partitions.  Its    *)
(* loop is the action MergeStates.  A State of the code is a decreasing    *)
(* tuple of k Sets; a Set keeps its sum and its items in the order they    *)
(* were added.  Indices start at 1.                                        *)
(***************************************************************************)
EXTENDS Integers, SequencesExt

VARIABLES
  work,   \* seqlen_list
  k,      \* k_partitions
  equal,  \* equal_size
  heap,   \* states_pq
  kk      \* "idle", "build", "merge", or "failed": the assert on the number of items

kkArgs == <<work, k, equal>>
kkVars == <<work, k, equal, heap, kk>>

KKInit == work = <<>> /\ k = 1 /\ equal = FALSE /\ heap = {} /\ kk = "idle"

EmptySet == [sum |-> 0, items |-> <<>>]
Singleton(i) == [sum |-> work[i], items |-> <<i>>]

\* Set.__lt__: sets that are compared have no item in common, so that the first items
\* decide between item lists of equal length.
SetLess(a, b) ==
  \/ a.sum < b.sum
  \/ a.sum = b.sum /\ Len(a.items) < Len(b.items)
  \/ a.sum = b.sum /\ Len(a.items) = Len(b.items) /\ a.items # <<>> /\ a.items[1] < b.items[1]

Spread(s) == s[1].sum - s[k].sum

\* State.__lt__: the state with the largest spread is popped first.
PoppedBefore(s, t) ==
  \/ Spread(s) > Spread(t)
  \/ Spread(s) = Spread(t) /\ SetLess(t[1], s[1])

\* sorted([(seqlen, i)]): increasing workload, then increasing index.
Lighter(i, j) == work[i] < work[j] \/ (work[i] = work[j] /\ i < j)
Position(i) == Cardinality({j \in DOMAIN work : Lighter(j, i)}) + 1
AtPosition(p) == CHOOSE i \in DOMAIN work : Position(i) = p

\* equal_size: every State starts with k items that follow one another in the sorted
\* list, the largest first.
BuildEqual ==
  /\ kk = "build" /\ equal
  /\ IF Len(work) % k # 0
     THEN kk' = "failed" /\ UNCHANGED heap
     ELSE /\ heap' = {[i \in 1..k |-> Singleton(AtPosition(b * k + 1 - i))] : b \in 1..(Len(work) \div k)}
          /\ kk' = "merge"
  /\ UNCHANGED kkArgs

\* Otherwise a State starts with one item.
BuildSingle ==
  /\ kk = "build" /\ ~equal
  /\ heap' = {[i \in 1..k |-> IF i = 1 THEN Singleton(g) ELSE EmptySet] : g \in 1..Len(work)}
  /\ kk' = "merge"
  /\ UNCHANGED kkArgs

\* Set.merge.
Joined(a, b) == [sum |-> a.sum + b.sum, items |-> a.items \o b.items]

\* Mutant: largest with largest.
MergeAligned(s, t) == [i \in 1..k |-> Joined(s[i], t[i])]

\* State.merge before its sort: largest with smallest.
Merged(s, t) == [i \in 1..k |-> Joined(s[i], t[k + 1 - i])]

\* Mutant: no sort after the merge.
Unsorted(m) == {m}

\* sorted(sets, reverse=True): decreasing, equal sets are both empty.
Resorted(m) ==
  {g \in {[i \in 1..k |-> m[p[i]]] : p \in Bijection(1..k, 1..k)} :
     \A i, j \in 1..k : i < j => ~SetLess(g[i], g[j])}

MergeStates ==
  /\ kk = "merge"
  /\ \E s \in heap : \E t \in heap \ {s} :
       /\ \A u \in heap \ {s} : PoppedBefore(s, u)
       /\ \A u \in heap \ {s, t} : PoppedBefore(t, u)
       /\ \E g \in Resorted(Merged(s, t)) : heap' = (heap \ {s, t}) \cup {g}
  /\ UNCHANGED <<kkArgs, kk>>

\* The State that is left is the result.
KKReturn(s) ==
  /\ kk = "merge" /\ heap = {s}
  /\ kk' = "idle" /\ heap' = {}
  /\ UNCHANGED kkArgs

\* The asserts of karmarkar_karp and _check_and_sort_partitions on the result.
Asserted(s) ==
  /\ \A i \in 1..k : s[i].items # <<>>
  /\ UNION {ToSet(s[i].items) : i \in 1..k} = 1..Len(work)
  /\ equal => \A i \in 1..k : Len(s[i].items) * k = Len(work)

\* sorted: the elements of S, each after the elements that before[x] says come before it.
InOrder(S, before) ==
  [p \in 1..Cardinality(S) |-> CHOOSE x \in S : Cardinality(before[x]) = p - 1]

Increasing(S) == InOrder(S, [x \in S |-> {y \in S : y < x}])

\* get_partitions, and the sort of _check_and_sort_partitions.
Partitions(s) == [i \in 1..k |-> Increasing(ToSet(s[i].items))]

\* Any call: workloads are natural numbers, and there is at least one partition.
KKCall ==
  /\ kk = "idle"
  /\ kk' = "build"
  /\ work' \in Seq(Nat) /\ k' \in Nat \ {0} /\ equal' \in BOOLEAN
  /\ UNCHANGED heap

KKNext == KKCall \/ BuildEqual \/ BuildSingle \/ MergeStates \/ \E s \in heap : KKReturn(s)

KKSpec == KKInit /\ [][KKNext]_kkVars

-----------------------------------------------------------------------------
\* The arguments are numbers, and every State has k Sets; there are States only while
\* karmarkar_karp runs.
KKTypeOK ==
  /\ work \in Seq(Nat) /\ k \in Nat \ {0} /\ equal \in BOOLEAN
  /\ kk \in {"idle", "build", "merge", "failed"}
  /\ kk # "merge" => heap = {}
  /\ \A s \in heap : s \in [1..k -> [sum : Nat, items : Seq(Nat)]]

\* karmarkar_karp keeps the sets of every State as close as it promises: their sums differ
\* by no more than the size of one item, and with equal_size by no more than two items
\* differ.  The State that is left is the result.
SpreadBound ==
  \A s \in heap : \E i, j \in DOMAIN work : \A a, b \in 1..k :
    s[a].sum - s[b].sum <= (IF equal THEN work[i] - work[j] ELSE work[i])
=============================================================================
