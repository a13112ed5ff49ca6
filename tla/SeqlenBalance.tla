--------------------------- MODULE SeqlenBalance ---------------------------
(***************************************************************************)
(* How a sampled batch reaches the data-parallel ranks and comes back: the *)
(* trainer pads it (upsample_batch_to_divisible_size), reorders it so that *)
(* the ranks get equal work (_balance_batch), the controller chunks it     *)
(* (dispatch_nd_compute), each rank cuts its share into micro-batches      *)
(* (rearrange_micro_batches), restores the order of the outputs            *)
(* (restore_dynamic_batch), and the controller concatenates them           *)
(* (collect_nd_compute).  Both partitionings call karmarkar_karp; the      *)
(* ranks do not depend on each other but for the all_reduce, and run one   *)
(* after the other here.                                                   *)
(***************************************************************************)
EXTENDS KarmarkarKarp

CONSTANTS
  DpSize,          \* data-parallel ranks
  SpSize,          \* workers per rank (Ulysses sequence parallelism)
  UseCritic,       \* use_critic
  CriticMiniBatch, \* critic.ppo_mini_batch_size
  ActorMiniBatch,  \* actor.ppo_mini_batch_size
  RolloutN,        \* rollout.n
  MaxTokenLen,     \* max_token_len of a micro-batch
  LinearCost,      \* 24576 in calculate_workload; 24576/u when lengths count u tokens
  DividedBy,       \* the values of num_batches_divided_by, 1 for None
  Batches          \* the sampled batches: the lengths of their trajectories

ASSUME BalanceAssumption ==
  /\ DpSize \in Nat \ {0} /\ SpSize \in Nat \ {0}
  /\ UseCritic \in BOOLEAN /\ RolloutN \in Nat \ {0}
  /\ CriticMiniBatch \in Nat \ {0} /\ ActorMiniBatch \in Nat \ {0}
  /\ MaxTokenLen \in Nat \ {0} /\ LinearCost \in Nat
  /\ DividedBy \subseteq Nat \ {0}
  /\ Batches \subseteq Seq(Nat \ {0}) \ {<<>>}

VARIABLES
  divisor, \* num_batches_divided_by of the engine
  warm,    \* critic_warmup <= global_steps: the actor is updated
  lens,    \* the sequence lengths of the batch, then of the padded batch
  phase,   \* "sampled", "balance", "count", "cut", "collect", "done"; "failed": an assert
           \* on the partitions, "rejected": one on the arguments
  rank,    \* the rank whose share is cut
  order,   \* the order of the batch after reorder
  micro,   \* micro[r]: the micro-batches of rank r, as indices of its share
  output   \* what the controller collects, as indices of the batch

vars == <<kkVars, divisor, warm, lens, phase, rank, order, micro, output>>

Ranks == 1..DpSize

\* calculate_workload.
Workload(s) == LinearCost * s + s * s

\* -(a // -b), floor division.
CeilDiv(a, b) == -((-a) \div b)

\* Mutant: rounds down.
RounddownDivisible(a, b) == (a \div b) * b

RoundupDivisible(a, b) == ((a + b - 1) \div b) * b

Sum(f, S) == SumFunctionOnSet(f, S)

Init ==
  /\ KKInit
  /\ divisor \in DividedBy /\ warm \in BOOLEAN
  /\ lens \in Batches
  /\ phase = "sampled" /\ rank = 1
  /\ order = <<>> /\ micro = [r \in Ranks |-> <<>>] /\ output = <<>>

-----------------------------------------------------------------------------
(* The trainer.                                                            *)

\* math.lcm.
Lcm(a, b) == Min({m \in 1..(a * b) : m % a = 0 /\ m % b = 0})

\* _get_required_batch_multiple.
BatchMultiple ==
  LET critic == IF UseCritic THEN Lcm(DpSize, CriticMiniBatch * RolloutN) ELSE DpSize
  IN  IF warm THEN Lcm(critic, ActorMiniBatch * RolloutN) ELSE critic

\* A padding sample is one prompt token and one response token.
PadLen == 2

\* upsample_batch_to_divisible_size.
Upsampled(b) ==
  b \o [i \in 1..((BatchMultiple - (Len(b) % BatchMultiple)) % BatchMultiple) |-> PadLen]

\* Mutant: the trainer partitions by workload only.
NeverEqual == FALSE

\* equal_size in _balance_batch.
EqualShares == TRUE

BalanceBatch ==
  /\ phase = "sampled" /\ kk = "idle"
  /\ lens' = Upsampled(lens)
  /\ work' = [i \in 1..Len(lens') |-> Workload(lens'[i])]
  /\ k' = DpSize /\ equal' = EqualShares
  /\ kk' = "build"
  /\ phase' = "balance"
  /\ UNCHANGED <<heap, divisor, warm, rank, order, micro, output>>

\* karmarkar_karp runs.
Partitioning ==
  /\ BuildEqual \/ BuildSingle \/ MergeStates
  /\ UNCHANGED <<divisor, warm, lens, phase, rank, order, micro, output>>

-----------------------------------------------------------------------------
(* Dispatch, micro-batches and collection.                                 *)

\* Reorder and dispatch: the batch is the concatenation of the partitions.
Reorder ==
  /\ phase = "balance"
  /\ \E s \in heap :
       /\ KKReturn(s)
       /\ IF Asserted(s)
          THEN order' = FlattenSeq(Partitions(s)) /\ phase' = "count"
          ELSE phase' = "failed" /\ UNCHANGED order
  /\ UNCHANGED <<divisor, warm, lens, rank, micro, output>>

ShareSize == Len(order) \div DpSize

\* The chunk of rank r: _split_args_kwargs_data_proto.
Share(r) == [i \in 1..ShareSize |-> order[(r - 1) * ShareSize + i]]

ShareLens(r) == [i \in 1..ShareSize |-> lens[Share(r)[i]]]

\* Mutant: rounds down.
FloorCount(r) ==
  Max({1, Sum(ShareLens(r), 1..ShareSize) \div MaxTokenLen})

LocalCount(r) == Min({ShareSize, CeilDiv(Sum(ShareLens(r), 1..ShareSize), MaxTokenLen)})

\* Mutant: every rank decides for itself.
OwnCount(r) == LocalCount(r)

\* all_reduce with MAX.
ReducedCount(r) == Max({LocalCount(q) : q \in Ranks})

TooLong == \E q \in Ranks : \E i \in 1..ShareSize : ShareLens(q)[i] > MaxTokenLen

\* rearrange_micro_batches up to the partitioning.  Its two asserts on the arguments: a rank
\* that fails the first one leaves the others in the all_reduce.
MicroCount ==
  LET num == RoundupDivisible(ReducedCount(rank), divisor)
  IN  /\ phase = "count" /\ kk = "idle"
      /\ IF TooLong \/ num > ShareSize
         THEN phase' = "rejected" /\ UNCHANGED kkVars
         ELSE /\ work' = [i \in 1..ShareSize |-> Workload(ShareLens(rank)[i])]
              /\ k' = num /\ equal' = FALSE
              /\ kk' = "build"
              /\ phase' = "cut"
              /\ UNCHANGED heap
      /\ UNCHANGED <<divisor, warm, lens, rank, order, micro, output>>

\* The sort by total workload, then by first index, decreasing.
PartWork(p) == Sum(work, ToSet(p))
HeavierPart(p, q) == PartWork(p) > PartWork(q) \/ (PartWork(p) = PartWork(q) /\ p[1] > q[1])
Heaviest(parts) == InOrder(parts, [p \in parts |-> {q \in parts : HeavierPart(q, p)}])

\* m[::2][::-1] + m[1::2].
BothEnds(m) ==
  Reverse([i \in 1..CeilDiv(Len(m), 2) |-> m[2 * i - 1]]) \o [i \in 1..(Len(m) \div 2) |-> m[2 * i]]

Rearrange ==
  /\ phase = "cut"
  /\ \E s \in heap :
       /\ KKReturn(s)
       /\ IF Asserted(s)
          THEN /\ micro' = [micro EXCEPT ![rank] = BothEnds(Heaviest(ToSet(Partitions(s))))]
               /\ rank' = rank + 1
               /\ phase' = IF rank = DpSize THEN "collect" ELSE "count"
          ELSE phase' = "failed" /\ UNCHANGED <<micro, rank>>
  /\ UNCHANGED <<divisor, warm, lens, order, output>>

\* Mutant: the index list itself.
SameIdx(f) == f

\* get_reverse_idx.
ReverseIdx(f) == [j \in DOMAIN f |-> CHOOSE i \in DOMAIN f : f[i] = j]

\* restore_dynamic_batch: the outputs of the micro-batches, one after the other, indexed
\* by the reversed index list.
Restored(r) ==
  LET indices == FlattenSeq(micro[r])
      produced == [i \in DOMAIN indices |-> Share(r)[indices[i]]]
  IN  [j \in DOMAIN indices |-> produced[ReverseIdx(indices)[j]]]

\* dispatch_nd_compute: worker w has the share of its rank; collect_nd_compute takes the
\* output of the first worker of each rank, in the order of the workers.
DpRank(w) == (w - 1) \div SpSize + 1
CollectMask(w) == (w - 1) % SpSize = 0

Collect ==
  /\ phase = "collect"
  /\ output' = FlattenSeq([w \in 1..(DpSize * SpSize) |->
                             IF CollectMask(w) THEN Restored(DpRank(w)) ELSE <<>>])
  /\ phase' = "done"
  /\ UNCHANGED <<kkVars, divisor, warm, lens, rank, order, micro>>

Finished ==
  /\ phase \in {"done", "failed", "rejected"} \/ kk = "failed"
  /\ UNCHANGED vars

Next ==
  \/ BalanceBatch \/ Partitioning \/ Reorder \/ MicroCount \/ Rearrange \/ Collect \/ Finished

Spec == Init /\ [][Next]_vars

-----------------------------------------------------------------------------
\* The variables have the values their names say.
TypeOK ==
  /\ KKTypeOK
  /\ divisor \in DividedBy /\ warm \in BOOLEAN /\ lens \in Seq(Nat)
  /\ phase \in {"sampled", "balance", "count", "cut", "collect", "done", "failed", "rejected"}
  /\ rank \in 1..(DpSize + 1)
  /\ order \in Seq(Nat) /\ output \in Seq(Nat)
  /\ DOMAIN micro = Ranks

\* No assert of karmarkar_karp and _check_and_sort_partitions fails: no partition is empty,
\* and sizes are equal where they must be.  Those of rearrange_micro_batches on its arguments
\* fail for two reasons only: a sequence longer than max_token_len, or a share that is not
\* a multiple of num_batches_divided_by.
ChecksHold ==
  /\ phase # "failed" /\ kk # "failed"
  /\ phase = "rejected" => TooLong \/ ShareSize % divisor # 0

\* The chunks of the reordered batch are the partitions: the ranks' workloads differ by
\* no more than two samples of the batch do.
SharesBalanced ==
  phase = "done" =>
    LET load == [r \in Ranks |-> Sum([i \in 1..ShareSize |-> Workload(ShareLens(r)[i])], 1..ShareSize)]
    IN  \A q, r \in Ranks : \E i, j \in DOMAIN lens :
          load[q] - load[r] <= Workload(lens[i]) - Workload(lens[j])

\* All ranks run the same number of micro-batches: a rank with fewer would leave the
\* others waiting in a collective operation.
RanksAgree == phase = "done" => \A q, r \in Ranks : Len(micro[q]) = Len(micro[r])

\* max_token_len is a target, and how far a micro-batch may exceed it depends on how unlike
\* the sequences of the rank are, since the partitions have like workloads, not like numbers
\* of tokens: with l and m the longest and the shortest of them, it holds at most
\* (max_token_len + l) * (LinearCost + l) / (LinearCost + m) tokens.
TokenBudget ==
  phase = "done" =>
    \A r \in Ranks : \A b \in DOMAIN micro[r] : \E i, j \in 1..ShareSize :
      LET l == ShareLens(r)[i]
          m == ShareLens(r)[j]
      IN  (LinearCost + m) * Sum(ShareLens(r), ToSet(micro[r][b])) <= (LinearCost + l) * (MaxTokenLen + l)


\* What the controller collects is in the order of the batch it sent, each sample once,
\* whatever was padded, balanced, split and duplicated on the way.
OutputsAligned ==
  phase = "done" => output = order /\ ToSet(order) = DOMAIN lens /\ Len(order) = Len(lens)
=============================================================================
