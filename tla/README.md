# A verification project for verl's asynchronous trainers

This directory models the parts of the repository (a fork of verl, a library for
reinforcement-learning training of language models, under `src/verl/verl`) whose
correctness depends on concurrency, recovery or order: the V1 PPO trainer, which trains on
trajectories that background workers put into a shared queue and must find all of them
again after a crash; the generation side with its load balancer and weight updates; the
fully asynchronous trainer, where rollouter and trainer are two processes with a bounded
queue between them; and the way of a batch to the data-parallel ranks and back.

## The system

Paths are relative to `src/verl/verl`.

| Part | State | Operations | Talks to |
|---|---|---|---|
| `PPOTrainer` (`trainer/ppo/v1/trainer_base.py`) | `global_steps`, dataloader position, keys of the current step, actor weights | `fit`, `step`, `_step_once`, `_add_batch_to_generate`, `_save_checkpoint`, `_load_checkpoint`, `_reissue_inflight_prompts` | everything below |
| `ReplayBuffer` (`trainer/ppo/v1/replay_buffer.py`) | a metadata snapshot | `sample`: snapshot, drop stale groups, refill, gate, select, clear, poll | TransferQueue; calls back the trainer to refill |
| `AgentLoopWorkerTQ` (`trainer/ppo/v1/agent_loop_tq.py`) | asyncio tasks: one per prompt, one per session | `_run_prompt`, `_agent_loop_postprocess` | TransferQueue, LLM servers |
| TransferQueue (external library) | keys with tags and values, in partitions | put, clear, list, get, save, load | shared by all |
| Trainer modes (`trainer_sync.py`, `trainer_colocate_async.py`, `trainer_separate_async.py`) | mode of the hybrid engine | warm-up, abort/sleep/resume of replicas, weight update | LLM servers, load balancer |
| Checkpoint manager (`utils/checkpoint/checkpoint_manager.py`) | `previous_saved_paths`, files | `ensure_checkpoint_capacity`, `register_checkpoint`, `find_latest_ckpt_path` | file system |
| LLM server client, load balancer (`workers/rollout/llm_server.py`) | servers, in-flight counts, sticky sessions | acquire, release, add, remove, partial rollout | agent loops, trainer modes |
| Weight synchronisation (`checkpoint_engine/base.py`) | weight version of each replica | update, abort, resume, sleep | trainer modes, servers |
| Rollout servers (`workers/rollout/vllm_rollout/vllm_async_server.py` and the SGLang and TensorRT-LLM ones) | running requests, paused or not, `global_steps` | generate, abort (with or without a pause), resume | engines, server client, weight synchronisation |
| Fully asynchronous trainer (`experimental/fully_async_policy`) | message queue, pause flag, staleness count, active tasks, parameter version, checkpoints | put, get, pause, resume, reset, feed, train, save, load | rollouter, queue and trainer are Ray actors |
| Sequence balancing (`utils/seqlen_balancing.py`, `trainer/ppo/padding_utils.py`, `single_controller/base/decorator.py`) | the order of a batch, the micro-batches of a rank | pad, partition, dispatch, cut, restore, collect | trainer, engines of the ranks |

A prompt group is one dataloader item with `rollout.n` sessions. The trainer registers
it as *pending* and dispatches it; a worker marks it *running*, its sessions put
trajectories, and the worker marks it *finished* or *failure*. The trainer polls the
queue, drops groups that span too many model versions (`drop`) or waits for old groups
to end (`wait`), samples the oldest terminal groups, trains on them, possibly saves a
checkpoint, and clears the step's trajectories.

What is hard here:

* **interleaving**: workers write between any two calls of the trainer to the queue;
  the sampler decides on a snapshot and acts on the live queue;
* **partial failure**: a group is *failure* at its first exception, its other sessions
  go on and write later;
* **crash and recovery**: a checkpoint has four parts written one after the other while
  workers run, and before the step's trajectories are cleared; retention deletes old
  parts in the same window;
* **liveness**: the sampler polls forever unless enough groups become terminal;
* **bounds**: two off-by-one-sensitive comparisons with the staleness threshold, a pool
  that every restart refills, a retention limit, a queue that drops its oldest sample;
* **stale decisions**: the rollouter of the fully asynchronous trainer decides to pause on a
  statistic it read before it took the lock, and the trainer resets the count meanwhile;
* **order**: a sample is permuted four times between the batch and its micro-batch, and its
  outputs must come back under its key; ranks must agree on the number of micro-batches or
  wait for one another forever.

`PROJECT.json` lists these hazards one by one, at their lines, with the properties that
cover them; hazards no property covers carry a note.

## Modules

* `ReplayBuffer` - the sampling rules as operators on a snapshot: which groups are in
  flight, terminal, sampleable or stale, when a batch can be formed, which selections
  are oldest-first.
* `AsyncPPO` - the system: trainer, workers, queue, disk. One action per step between
  two calls to the queue or to the disk.
* `SampleLedger` - the abstract specification: a ledger of items with a pool, an update
  in progress, trained items and one stored copy to recover to. `AsyncPPO` implements it
  (`ImplementsLedger`).
* `MCAsyncPPO` - the symmetry set for TLC.
* `AsyncPPOProofs` - theorems about `AsyncPPO`, checked by TLAPS: types, the items of the
  dataloader, the tracked checkpoint. `QueueProofs` extends it with the trajectories in the
  queue, retention and the refinement of `SampleLedger`; `PoolProofs` extends `QueueProofs` with
  the counts and ages of groups, and the faults.
* `LoadBalancer` - the state and the methods of `GlobalRequestLoadBalancer`.
* `Rollout` - generation in the separate asynchronous mode: conversations, balancer,
  standalone and hybrid replicas, the trainer's mode switches and weight updates.
* `RolloutProofs` - theorems about `Rollout`, checked by TLAPS.
* `MessageQueue` - the state and the methods of the queue of the fully asynchronous trainer.
* `FullyAsync` - its rollouter (feeder, processor, tasks, monitor), its trainer, checkpoints,
  crash and resume, around `MessageQueue`.
* `FullyAsyncProofs` - theorems about where its samples are and about the counts: how far
  ahead, what is dropped, who waits.
* `KarmarkarKarp` - the partitioning algorithm as a specification of its own: any call, its
  loop one merge at a time.
* `SeqlenBalance` - a batch on its way through padding, balancing, dispatch, micro-batches and
  back; both of its partitionings are runs of `KarmarkarKarp`, whose actions it takes by
  EXTENDS. `MCSeqlenBalance` has the batches for TLC.
* `FoldLemmas` - what sums over sets and concatenations are (`SumFunctionOnSet` and
  `FlattenSeq` of the community modules), proved by induction.
* `KarmarkarKarpProofs` - the balance of the partitions and their items, for any input.
* `BalanceProofs` - all properties of `SeqlenBalance`, for any batch and any number of ranks.

`AsyncPPO` sees a session only by its end, `Rollout` sees inside it; they meet at the
trainer's hooks (`on_sample_end`, `on_step_end`, `on_validate_begin`) and are not composed.

Definitions whose comment starts with "Mutant" are wrong variants of the definition that
follows them. No specification uses them; they document which mistake in the code each
property would notice.

### How AsyncPPO corresponds to the code

Items are numbered in fetch order; the number stands for the fresh uuid each fetched item
gets, and a dataloader that starts a new epoch hands out new items. The queue's `train`
partition is three total functions: `status[u]` ("absent" if `u` is not a key),
`born[u]` (the prompt's `global_steps` tag) and `traj[u][s]` (the `global_steps` tag of
the trajectories of session `s`, 0 if none). All outputs of one session are put by one
call, so one entry stands for them.

| Action | Code |
|---|---|
| `StartPrompt` | `_run_prompt`: status running, one task per session |
| `SessionEnd`, `SessionEmpty`, `SessionFail` | `_agent_loop_postprocess` puts the outputs, returns early, or something in `_run_agent_loop` raises |
| `PromptFinished`, `PromptFailure` | `asyncio.gather` returns, or raises at the first exception; other sessions keep running |
| `LoadCheckpoint` | `_load_checkpoint`, resume mode auto |
| `ReissueInflight` | `global_steps += 1` and `_reissue_inflight_prompts` |
| `Warmup` | one iteration of `on_train_begin` of the async modes (none in sync mode) |
| `Feed`, `TrainEnd` | the loop condition of `fit` and `_add_batch_to_generate` of `step` |
| `SyncMetadata` | the snapshot at the head of `sample`'s loop |
| `DropStale`, `Refill` | `_drop_stale_finished`, `refill_fn`, `continue` |
| `SelectBatch` | selection and `kv_clear` of the prompt keys; the trajectory keys join the step's keys |
| `SleepPoll` | the sleep of the poll loop |
| `BalanceFails` | `_balance_batch` asserts on a batch without trajectories: the trainer stops |
| `UpdateActor` | the rest of `_step_once`; back to sampling, on to the save, or to the end of the step |
| `EnsureCapacity`, `SaveActor` | `ensure_checkpoint_capacity`, the write, `register_checkpoint` |
| `SaveDataloader`, `SaveTransferQueue`, `WriteTracker` | the other parts of `_save_checkpoint`, in its order |
| `StepEnd` | `kv_clear` of the step's keys, `global_steps += 1` |
| `Crash` | the job dies at any instant; only the disk is left |

The stuttering step `Terminated` stands for a job that is over. `trained` and `dropped` record
what the weights were trained on and what was discarded; they are saved with the actor because
the weights are. `failed`, `base`, `faults` and `crashes` are history variables. `base` is what
had been consumed when the run resumed.

Abstractions: a put of several keys is atomic, as is a save or load of one part. Between
the put of pending prompts and their dispatch nothing else touches those keys, so the two
are one step. `current_epoch` is not modelled: the loop ends by the step count. Actor and
critic are one part (the critic is saved by the same code right after the actor). The
skip manager is off. `critic_warmup` is 0.

### How Rollout corresponds to the code

A request id is one conversation of an agent loop: several turns, each a call of
`FullyAsyncLLMServerClient.generate`, each with several attempts if it is aborted.
`held[r]` is the server an attempt acquired, until the balancer has executed its release;
a client that is past the attempt and still holds a server has its release on the way.
Ray runs the calls of one caller in order, so the next acquire comes after it.
`since[r]` is the set of requests used since `r` was, which is all that the order of an LRU
cache says. `weights` is what an engine has in memory (`NoWeights` while it is discarded or
being overwritten), `version` the `global_steps` it reports.

`abort_all_requests` is modelled in all the forms of
`workers/rollout/vllm_rollout/vllm_async_server.py:874-951`:

* a server of `Pausing` (vLLM from 0.12 on; SGLang, `async_sglang_server.py:697-705`; TensorRT-LLM,
  `trtllm_async_server.py:396-409`) answers what runs and pauses: what arrives later waits until
  `resume_generation`;
* any other server (vLLM before 0.12, which `setup.py:54` allows from 0.8.5 on) aborts a snapshot
  of its requests and does not pause; its `resume_generation` does nothing. A request that arrives
  later generates while the weights are overwritten, and reports the version it ends with;
* a server of `Faulty` may raise in the abort: vLLM's server swallows the exception (938-940) after
  any part of the requests was answered, and does not pause.

The servers of the last two kinds are `Dirty`, from the start or from the failed abort on
(`botched`). Tokens of half overwritten weights, and versions outside
`min_global_steps`..`max_global_steps`, do come from them. So `WholeWeights` and `VersionSpan` say
that nothing else brings them about: `fresh` (the weights the tokens of the running attempt come
from) and `gen` (those of the turn) record attempts on servers that are not `Dirty`. With all
servers in `Pausing` and none in `Faulty` that is every attempt. The SGLang and TensorRT-LLM servers
swallow nothing: an exception there ends the job, and is not modelled. A conversation outside
`ToolLoops` has one turn (`SingleTurnAgentLoop`).

| Action | Code |
|---|---|
| `Acquire`, `Arrive`, `Complete`, `ServerError`, `Release` | `LLMServerClient.generate`: acquire, the call to the server, its answer or exception, the release of the `finally` |
| `Generate` | the engine (external) |
| `Retry`, `Return` | the loop of `FullyAsyncLLMServerClient.generate`; the turn of `ToolAgentLoop` |
| `OnSampleEnd`, `RemoveReplicasFromBalancer`, `AbortHybrid`, `SleepReplica` | `on_sample_end`, `switch_to_trainer` |
| `AbortAllRequests`: `AbortAll`, `AbortRaises` | `abort_all_requests` of a server, complete or ended by an exception; part of the two aborts |
| `AbortStandalone`, `BeginUpdate`, `EndUpdate`, `ResumeStandalone` | `on_step_end`: `CheckpointEngineManager.update_weights` |
| `ReloadReplica`, `ResumeHybrid`, `AddReplicasToBalancer` | `on_validate_begin`: `switch_to_rollout` |
| `StepEnd` | the end of the loop body of `fit` |

The trainer's sampling returns at any time, whatever the conversations do. The tie-break of
`acquire_server` is a free choice, which covers both of its rules. The token limit of a
resumed turn is left out: the V1 workers pass none.

### How FullyAsync corresponds to the code

The rollouter is an asyncio program: what a coroutine does between two awaits is one step,
and a lock that is held across an await is a variable. A call to the queue (a Ray actor) is
one step of the queue; its answer may arrive later, which is why `_should_pause_generation`
is two steps. Samples are numbered in the order of the dataloader.

| Action | Code |
|---|---|
| `FeedSamples` | `_feed_samples`: fills `pending_queue` (a put into a queue with room does not yield) and, after the last sample, puts None |
| `AskQueue`, `DecidePause`, `Pause` | `_processor_worker`: the statistics, `staleness_samples`, then the lock and `paused` |
| `DrainWake`, `DrainReap`, `DrainResume` | its loop while paused: wait for a task or the resume event, reap under the lock, go on |
| `TakeSample`, `WaitForTask`, `ReapInLock`, `SubmitSample` | the next sample, a free slot (waiting inside the lock), `safe_create_task` |
| `FinishSample`, `FailSample` | `_process_single_sample_streaming` puts its result, or raises |
| `FinishRollout` | the `finally` of `_streaming_generation_main`: None into the queue |
| `MonitorAsk`, `MonitorDecide`, `MonitorResume` | `_async_monitor_loop` |
| `GetOneSample` | one round of `_get_samples_from_queue` |
| `TrainStep` | `fit_step` up to `_fit_update_local_step` |
| `ResetBegin`, `ResetEnd` | `_fit_update_weights` and `reset_staleness`, before and after it asks the queue |
| `FinalSync`, `SaveCheckpoint`, `EndOfTraining` | the end of `fit`, `_save_checkpoint`, the task runner |
| `CrashAndLoad` | the job dies; both sides load the checkpoint the tracker names |

A checkpoint is one step: nobody reads the folder before the tracker names it, and neither
weights nor, as far as a resume can tell, the dataloader position change meanwhile.
`active_tasks` changes only under the lock, so the number `reset_staleness` takes before its
await is still right after it; a task that puts its sample in between is counted twice, and the
model has that (`doubled` records how many the last reset counted so). `MaxConcurrent` is the
code's `max_concurrent_samples`, the smaller of 16 per replica and `max_required_samples`, which
is also the queue size. After a resume the dataloader may run out before `total_rollout_steps`
(`Left`: it has `total_epochs` epochs from where it stands in its own). Left out: validation and
the hybrid engine it may use, the critic, ESI expiry, retention (the same checkpoint manager as
above), `test_freq` of 0 or less.

### How SeqlenBalance corresponds to the code

`work`, `k`, `equal` and `heap` are the arguments and the heap of `karmarkar_karp`; a State is
a tuple of Sets, a Set its sum and its items. `Resorted` is Python's stable sort with
`reverse=True`: Sets that compare equal are both empty, so that any sorted permutation is the
one the code produces. `InOrder` is any other sort without ties: an element's place is the
number of elements that come before it.

| Action | Code |
|---|---|
| `BalanceBatch` | `_balance_batch`: `upsample_batch_to_divisible_size`, the workloads, the call |
| `Partitioning` | `karmarkar_karp`: build the States, merge the two with the largest spread |
| `Reorder` | its return, `_check_and_sort_partitions`, `batch.reorder` |
| `MicroCount` | `rearrange_micro_batches` on one rank, up to its call of the partitioning |
| `Rearrange` | the return, the sort, smaller micro-batches at both ends |
| `Collect` | forward on every worker, `restore_dynamic_batch`, `collect_nd_compute` |

The batch is padded to the multiple `_get_required_batch_multiple` asks for (`BatchMultiple`): of
the ranks, of the critic's mini-batch if there is a critic, and of the actor's once
`critic_warmup` is over (`warm`). `num_batches_divided_by` (`divisor`) is given by the Megatron
engine for its virtual pipeline (`transformer_impl.py:703-713`), and nothing relates it to that
multiple.

A failed assertion on partitions is the phase "failed" (`kk` = "failed" inside the algorithm). The
two assertions of `rearrange_micro_batches` on its arguments (`max_token_len` at least the longest
sequence, at most as many micro-batches as samples) lead to the phase "rejected". A rank that
fails the first leaves the others in the `all_reduce`; in either case the job is over. Lengths are
counted in a unit of tokens, and `LinearCost` is 24576 in that unit, so the ratio of workload to
length is the code's. The ranks
are independent but for the `all_reduce`, whose result is a function of all shares, and run
one after the other. The path is that of a forward pass over a whole share
(`compute_log_prob`, values, reference); an update first cuts the share into mini-batches of
equal size. Workers are numbered as the FSDP engine's device mesh does, sequence-parallel
workers of one rank next to each other. Micro-batches of a fixed size
(`use_dynamic_bsz=False`) are not modelled. No caller gives `min_num_micro_batch`, and
`force_group_size` is 1 outside reward-model training. Chunking a batch into equal
contiguous parts is the external queue's.

## Runs

| Run | Instance | Shows |
|---|---|---|
| `drop` | 2 sessions, threshold 1, 1 warm-up batch, 3 steps, 6 items, 2 faults | `ExactlyOnce`, `FreshTraining`, `TerminalIsFinal`, `LateWriterOnlyAfterFailure`, `OrphansExplained`, `EmptyBatchNeedsFaults`, `PoolBounds`, `TypeOK` |
| `resume` | 1 session, threshold 1, 1 warm-up batch, 2 steps, save after each, 1 crash | `TrackedConsistent`, `OrphansExplained`, `PoolBounds`, `ImplementsLedger`, `TrainingEnds` |
| `sync` | sync mode, 2 local updates per step, 4 steps, 2 retained checkpoints, 1 fault, 2 crashes | `TrackedComplete`, `ExactlyOnce` without a saved queue, `BatchStored` |
| `wait` | threshold 2, 1 warm-up batch, 3 steps, save after every second, 1 fault, 1 crash | `WaitSpanBound`, `OneAttempt`, `TrainingEnds` |
| `failure_doc` | 2 sessions, 1 fault | violated: a group is tagged failure while a session runs |
| `retention` | 1 retained checkpoint | violated: the tracked actor is deleted before the tracker moves |
| `rollout` | 2 standalone servers and 1 hybrid; one does not pause, one may raise in the abort; a conversation of 2 turns and one of 1, cache of 1, 1 step with validation | `InflightAccurate`, `StickySessions`, `WholeWeights`, `VersionSpan`, `TypeOK`, `TurnsReturn` |
| `stranded` | 1 conversation, 2 steps, no validation | violated: a turn waits for ever at a paused hybrid replica |
| `fully_async` | 6 samples, 1 per version, staleness threshold 1 (queue of 2, hence 2 concurrent tasks), 1 fault, 1 crash | `OutstandingBound`, `DropsBound`, `TrainedOnce`, `NothingLost`, `StuckByDoubleCount`, `TypeOK`, `JobEnds` |
| `staleness_doc` | 9 samples, 2 per version, staleness threshold 1 (queue of 4) | violated: one sample more than the documented number is ahead |
| `balance` | all batches of up to 7 sequences of 32k, 104k or 152k tokens, one of 12 alike, one of 22 unlike; 2 ranks of 2 workers, limit of 144k tokens, micro-batches in multiples of 1, 2 or 3, multiple of 2 or 6 samples required | `SpreadBound`, `ChecksHold`, `SharesBalanced`, `RanksAgree`, `TokenBudget`, `OutputsAligned`, `TypeOK` |
| `token_doc` | the same batches, one worker per rank, no critic | violated: a micro-batch has more tokens than `max_token_len` |

Why the bounds are enough. With threshold 1 and one warm-up batch every step has both a
group fetched in the step and one fetched before, so a drop and a refill happen from step
2 on; three steps let a refilled group be dropped in its turn. Two sessions are what a late
writer needs. `MaxItems` is never the reason why a run stops: TLC checks
for deadlock, and a blocked fetch would be one. One crash at any instant, including
during a save and during the resumed run's own save, covers every pair of a checkpoint and
a later state; `sync` adds a second crash because retention depends on paths that a restart
forgets. `wait` needs a fault after the crash: the second attempt overwrites the keys of the
first one, so an old trajectory can only survive where the new session puts nothing. The
sessions of a group are interchangeable, hence the symmetry in the largest
runs; it is not used with liveness.

In `rollout` a server leaves and comes back, which is what a late release needs; the cache is
one short of the conversations, so every route can be evicted. Two standalone replicas let an
aborted conversation retry on one the gather has not reached, and a turn can span the weight
update. The three servers are one that pauses, one that does not and one whose abort may
raise. Its safety properties are proved for any number of replicas of each kind, conversations and
steps and any size of the cache.
A validation follows, so that `TurnsReturn` can hold: without one it does not (`stranded`).

In `fully_async` the queue is larger than what one version takes, without which a reset never
leaves anything behind, and two tasks run at once, as many as the code allows for that queue, so
that one may end during a reset, after a pause, or after the other has failed, and both may be
counted twice: `Stuck` is reached. Six samples are three rounds of pause and resume. `dropped` is
what the full queue threw away since the last start.

In `balance` (units of 8192 tokens, lengths 4, 13 and 19, limit 18) a share has 1 to 12 samples and
is cut into 1 to 6 micro-batches. Both the limit by the samples of a rank and the rounding take
effect, both assertions on the arguments fail for some batches (a sequence of 19; a share of 1 with
`divisor` 2), ranks differ in their own count, and ties in sums, lengths and spreads all occur.
The workload of a token of the longest sequence is up to more than twice that of the shortest.
All of its properties are proved for any instance as well.

The violations are disagreements between the code and its own comments; `PROJECT.json` quotes
them. For `retention`: with `max_actor_ckpt_to_keep=1` a crash between the actor's save and the
tracker's write leaves a tracker that names a folder whose actor is gone. With 2 or more the
window is closed (`sync`). For `stranded`: a request that acquires a hybrid replica just before
`switch_to_trainer` and arrives just after the abort waits until a validation resumes the
engine. With the default `test_freq=-1` that is never. Under the `wait` strategy even a later
validation does not help, because the trainer waits in `sample` for that group; this coupling is
not in the model, whose sampling never waits. For `staleness_doc`: `docs/advance/fully_async.md`
gives `max_required_samples` as the most samples the rollouter generates between two updates. It
is ahead by one more after a reset that comes between `pending_queue.get` and `create_task`: the
count is overwritten and the sample is in no list yet. `OutstandingBound` says that it is never
more than this one; if the queue is full then, its oldest sample is dropped (`DropsBound`). For
`token_doc`: `rearrange_micro_batches` calls `max_token_len` the "max sum of attention_mask per
micro-batch". It is a target: the count is computed from tokens, the partition from workloads,
in which a long sequence weighs more per token, so that a micro-batch of short ones may get far
more tokens. `TokenBudget` states the true bound; sequences of equal length exceed the limit by
at most one of them.

Other places where the code does less than one would expect, met while modelling and
visible in the properties:

* `reset_staleness` counts a task that ended and whose sample has arrived in the queue twice.
  If it counts more of them twice than `max_required_samples` leaves beyond one version
  (`required_samples * trigger_parameter_sync_step`), and the answer of the queue is slower than a
  round of training, the rollouter stays paused with nothing in progress and the trainer waits at
  an empty queue (`Stuck`). The monitor does not help, since it applies the same test. A
  `staleness_threshold` of 0 leaves nothing, so that one task counted twice is enough.
  `StuckByDoubleCount` says that there is no other way to get stuck. No text of the repository
  rules this out, so it is a remark and not a finding.
* The forced save at the end of the fully asynchronous `fit` is skipped when the version was
  saved already, so local updates after the last synchronisation are in no checkpoint.
* Rounding the number of micro-batches up to `num_batches_divided_by` stays within the samples of
  a rank if their number is a multiple of it. The trainer does not see to that; the rank only
  asserts it (`ChecksHold`).
* On vLLM before 0.12, and after an exception in the abort, requests that arrive during a weight
  update are generated from half overwritten weights (`Dirty` above).

What some properties say that is easy to get wrong: `WaitSpanBound` - `wait` does not bound
the span of trained data by `max_off_policy_threshold`, because a group that finished in
time still queues behind the groups of the warm-up; the bound is larger by the warm-up
depth, once more for every restart. `OrphansExplained` - trajectories of failed groups, and
those of the last trained step after a resume, stay in the queue for the rest of the run.
`EmptyBatchNeedsFaults` - one failed session per sampled group is enough to stop the
trainer, not `n`.

### Fairness

`TrainingEnds` (runs `resume` and `wait`) is checked under weak fairness of the trainer and of
each worker task. The trainer is a single thread whose only wait is the poll loop, asyncio runs
every ready task, and a session is assumed to end (with outputs, without, or with an exception):
a server that never answers is outside this assumption, and `wait` would then indeed wait
forever (the `stranded` run shows one way to get there). Crashes and faults are not fair: they
may or may not happen.

`TurnsReturn` is checked under weak fairness of the trainer, of every client and of the
completion of a request that an engine works on. A paused engine owes nothing.

`JobEnds` is checked under weak fairness of the feeder, the processor and the monitor (tasks
of one event loop, which runs every ready coroutine; the monitor wakes up every ten seconds),
of the trainer, and of the running tasks taken together (generation ends or raises). It says that
the job is over in the end or `Stuck`, which by `StuckByDoubleCount` takes a reset that counted
tasks twice.

## Proofs

`AsyncPPOProofs` proves, for all values of the constants allowed by the ASSUMEs,

* `TypeCorrect`: `Spec => []TypeOK`;
* `ItemsExactlyOnce`: `Spec => []ExactlyOnce`, given `TqCheckpoint`;
* `CheckpointConsistent`: `Spec => []TrackedConsistent`, given `TqCheckpoint`;
* `TerminalGroupsFinal`: `Spec => TerminalIsFinal`, given `TqCheckpoint`.

`TqCheckpoint` says that the mode saves the queue. Without it an asynchronous run does lose
its in-flight groups at a restart, so the assumption is needed. The induction itself
(`IndNext`) asks for less: that the prompts of the folder and of the queue agree when they meet
(`Carried`), which `PoolProofs` shows of the synchronous mode.

`ExactlyOnce` is not inductive. The invariant `IndInv` adds:

* `StepInv`: inside the loop the step is between 1 and `TotalSteps`, so the folder being
  written exists;
* `WorkerInv`: a prompt task exists only while its key is pending or running. So no
  worker puts the status of a key the trainer has cleared;
* `SnapInv`: what the snapshot calls terminal still is. It follows from `WorkerInv` and
  makes dropping and selecting from the snapshot remove keys that are there;
* `TakenInv`: only an update in progress holds sampled groups, so a checkpoint does not
  have to;
* `TrackerInv`: the tracker is behind the current step during a save, so the tracked folder
  is never written again, only evicted from;
* `SaveInv`: the parts written so far agree with the trainer. Workers may finish groups
  between two parts but add or remove no prompt, which is why separate writes are a cut;
* `TrackedConsistent`: what a resume loads.

`QueueProofs` and `PoolProofs` prove the rest of the safety properties of
`AsyncPPO`:

* `LateWriters`, `BatchStaysStored`, `SingleAttempt`, `TrainingIsFresh`, `OrphansAreExplained`:
  `LateWriterOnlyAfterFailure`, `BatchStored`, `OneAttempt`, `FreshTraining` and
  `OrphansExplained` hold for any mode, with or without a saved queue. They share `QueueInv`: a
  session carries the `global_steps` of its dispatch (`SessInv`, `JobInv`), the trajectories of
  a prompt in the queue have the prompt's own tag (`Sound`), also in the folder being
  written and in the tracked one (`DiskSound`), and a terminal group of the snapshot keeps its
  tag and gains trajectories only from the siblings of a failed session (`SnapSound`). The last
  is why the sampler's decision on prompt tags is right for the trajectories it hands on.
* `CheckpointComplete`: `TrackedComplete`, given `KeepCkpt # 1`. `SavedInv` says that
  `previous_saved_paths` is in the order of the steps and ends with the tracked folder or, during
  a save, with the new one after it; the two cuts then evict older folders only. With
  `KeepCkpt = 1` the statement is false (the `retention` run).
* `TrainerImplementsLedger`: `ImplementsLedger`, given `TqCheckpoint` and `KeepCkpt # 1`. The
  initial states map to initial states, and each action to the action of the ledger it
  implements or to a stutter. The write of the tracker is the ledger's commit, and the load its
  recovery; `IndInv` and `CheckpointComplete` say that what is loaded is what was committed.
* `PoolIsBounded`: `PoolBounds`. The sum kept constant in a step is the live groups, plus those
  dropped and not yet replaced (`Owed`), minus those the step will still take (`Due`). A
  checkpoint saved in a run restores that run's pool (`StoredPool`), which is how each resume
  can add a warm-up.
* `EmptyBatchesNeedFaults`: `EmptyBatchNeedsFaults`. The groups that lack a trajectory
  for good (`Faulty`) are not more than the faults so far, nor are those of a saved queue, which
  a resume brings back.
* `WaitingBoundsAge`: `WaitSpanBound`, with or without a saved queue. `AgeInv` bounds, for every
  step `b`, the groups submitted by step `b` that are still in the pool: at most the whole pool
  when the sampler starts to wait for them (`Lag` - 1 steps later, or in the next step
  for a threshold of 1), and a batch less in every step after. Selecting takes a full batch of
  them or all that are left, because the gate leaves none of them in flight, the snapshot knows
  the whole pool (`SnapWhole`), and the oldest are taken first. A reissued group counts as one
  of the resumed step, and a saved queue obeys the same bound (`StoredAge`);
* `SyncItemsExactlyOnce` and `SyncCheckpointConsistent`: `ExactlyOnce` and `TrackedConsistent`
  of the synchronous mode, given `~ TqCheckpoint` and `WarmupBatches = 0`. By `PoolInv` a step
  without warm-up ends with no prompt in the queue, and no folder ever gets one (`NoMeta`): that
  is why a checkpoint may leave the queue out.

`RolloutProofs` proves, for any servers, conversations, turns and steps,

* `TypeCorrect`: `Spec => []TypeOK`;
* `InflightCounts`: `Spec => []InflightAccurate`. The invariant `CountInv` adds that servers
  outside the pool have count 0, without which a late release would break the bound, and that
  standalone servers stay in the pool;
* `TokensFromWholeWeights`: `Spec => []WholeWeights`, about attempts on servers that are not
  `Dirty`. The invariant `WeightInv` says that such an engine is paused while it has no weights,
  and for each phase of the trainer which of them are already paused or already reloaded;
* `SpanEnclosesVersions`: `Spec => []VersionSpan`. `VersionInv` says that all engines that serve
  and are not `Dirty` have one version, `Current` (`EngineInv`), and follows a turn through its
  attempts: before the first answer its tokens come from an engine that has not been paused
  since (`BoundedBelow`), and the last answer is not older than any token (`BoundedAbove`). An
  update between an attempt's last token and its answer is where both are needed;
* `ConversationsSticky`: `Spec => StickySessions`, an action property; the types are enough of
  an invariant.

The constants need only be finite sets with at least one standalone and one hybrid server; any of
them may be outside `Pausing` or in `Faulty`.

`KarmarkarKarpProofs` proves `PartitionsBalanced`: `KKSpec => []SpreadBound`, for any list of
natural numbers, any number of partitions and any sequence of calls. The invariant `IndInv`
adds to `SpreadBound` the types and `Decreasing`: the Sets of a State are in decreasing order.
Merging the largest Set of one State with the smallest of the other then makes the spread no
larger than that of the wider one (`MergeWithin`): where one State's sums go down, the other's
go up. Without the sort after the merge this fails at the next merge. For the first States of
an equal-size call the proof needs that the sorted list is what its name says: `Position` is a
strictly increasing injection of a finite set into itself, hence every place is taken
(`PositionsSorted`).

`ResultsPassAsserts` says what happens to the items. Its invariant `ItemInv` adds that the Sets
of all States together hold every item once and that a Set's sum is that of its items, and the
shape that keeps Sets from staying empty: with equal sizes all Sets of a State have equally many
items; otherwise the empty Sets are the last ones of a State, and while there is one, no Set of
it has two items (`FillsUp`): a merge puts the largest Sets of one State on the empty ones of the
other first. So the State that is left has no empty Set if there are items enough.

`BalanceProofs` proves every property of `SeqlenBalance`, for any batch, lengths, number of
ranks and workers, required multiple and token limit that satisfy `BalanceAssumption`:
`CallsBalanced` (`SpreadBound`, from the lemma that every behaviour of `Spec` is one of
`KKSpec`), `BalanceTypes` (`TypeOK`), `NoAssertFails` (`ChecksHold`), `LoadsEven`
(`SharesBalanced`), `SameCounts` (`RanksAgree`), `BudgetHolds` (`TokenBudget`) and
`CollectedInOrder` (`OutputsAligned`). `BalanceAssumption` says only what kind of value each
constant has: sequences may be longer than the limit and a share need not be a multiple of the
divisor. The invariant `BalanceInv` is `IndInv` and `ItemInv` of the algorithm, and `PhaseInv`:
for each phase, the arguments of the call under way and what is known of the batch. The steps of
the argument:

* the required multiple is one of the ranks (`LcmFacts`, `BatchMultipleFacts`), so a padded batch
  divides into shares (`SizeFacts`). The largest count of a rank is within a share; rounding it up
  stays there if the divisor divides the share (`RoundupBetween`), and is never below it
  (`RoundupAbove`), so that a call that is not rejected has items for all its partitions
  (`CountFacts`);
* concatenating partitions of equal size and chunking gives the partitions back
  (`ChunksAreParts`), hence the load of a rank is the sum of its partition (`LoadIsSum`);
* the sort of the micro-batches has no ties, because partitions share no first index
  (`HeaviestOnce`), and taking every second one from the other end loses none
  (`BothEndsKeeps`);
* all micro-batches of a rank have at least the workload of the heaviest less one sequence;
  their sum is at most the tokens times the weight of the longest sequence's token, and the
  count was computed from those tokens (`BudgetKept`);
* the reversed index list undoes the index list (`ReverseUndoes`), and the first workers of the
  ranks return the shares in order (`CollectInOrder`).

Nothing here is assumed of the helpers. `FoldLemmas` proves what `SumFunctionOnSet` and
`FlattenSeq` return, from the definitions in the community modules. The induction theorems of
the library take a predicate and cannot be used; the lemmas take the set of the numbers
(`NatInductionBySet`) or of the subsets (`FiniteInduction`) for which a statement holds instead,
and rest on the least element of a set of naturals (`LeastNat`).

`FullyAsyncProofs` proves for any queue size, number of concurrent tasks, batch size and
synchronisation interval, and any number of faults and crashes,

* `TypeCorrect`: `Spec => []TypeOK`;
* `SamplesTrainedOnce`: `Spec => []TrainedOnce`;
* `NoSampleLost`: `Spec => []NothingLost`.

The invariant `SampleInv` says that a sample is in one place (`DistinctInv`), that all places
hold only what the processor took (`PlaceInv`, with the dataloader of a checkpoint as far as
its weights), what the lock excludes (`LockInv`), and that None is put last (`EndInv`).

It also counts:

* `AheadIsBounded` and `DropsAreBounded`: `OutstandingBound` and `DropsBound`, without
  assumptions. `staleness_samples` is at most one behind what is really on its way (`StaleInv`).
  Being one behind, or one sample above the queue size, takes a reset that no dropped sample
  stands for yet (`DropInv`). None is not pushed out, because fewer tasks are left than
  places behind it (`MarkerInv`).
* `NobodyWaits`: `StuckByDoubleCount`, without assumptions. Between two resets the count is at
  most what is on its way, what was consumed since the reset and the tasks counted twice
  (`doubled`), or the queue alone reaches the next reset (`CountInv`). If neither side can go
  on, nothing is on its way, less than a version was consumed, and the rest up to the queue size
  was counted twice.

What stays with TLC is liveness (`TrainingEnds`, `TurnsReturn`, `JobEnds`): fairness is out of the
prover's reach. Every other property of a passing run is a theorem.

## Not modelled

Validation (the `val` partition goes through the same `sample`), metrics and logging; in
`AsyncPPO` the padding samples `_balance_batch` puts into the queue (they are cleared with the
step's keys; `SeqlenBalance` has them); `async_save`, which skips the tracker; the truncation
window of the tracker file; custom samplers; failures of the queue itself; the numerical part of
the repository (`core_algos`, engines, kernels), the inside of the rollout servers, and
everything marked `not_modelled` in `PROJECT.json`.

Most of the repository's lines are of that kind: tensor arithmetic, model definitions, engine
adapters, kernels, configuration and command lines are sequential floating-point or glue code
without states a model checker could tell apart. The modules here cover the control that is
the repository's own. The earlier trainers (one-step-off, separation, the legacy
`ray_trainer`) repeat the structure of the ones modelled.

## Plan

Done: `ReplayBuffer`, `AsyncPPO`, `SampleLedger`, `LoadBalancer`, `Rollout`, `MessageQueue`,
`FullyAsync`, `KarmarkarKarp`, `SeqlenBalance`, and the proofs above. Next:

1. The colocated mode in `Rollout` (abort, sleep, update and resume of the same replicas) and
   the composition of `Rollout` with the `wait` gate of `ReplayBuffer`.
2. File-level steps of the save (tracker truncation, critic), validation.
3. The rate limiter of the reward loop, and weight-chunk splitting as a pure algorithm.
