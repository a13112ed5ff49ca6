------------------------------ MODULE AsyncPPO ------------------------------
(***************************************************************************)
(* The V1 PPO trainer of verl (trainer/ppo/v1): the training loop of       *)
(* PPOTrainer, the agent loop workers that generate trajectories in the    *)
(* background, the ReplayBuffer that samples finished groups, the          *)
(* TransferQueue they share, and the checkpoint that must bring all of     *)
(* them back after a crash.                                                *)
(*                                                                         *)
(* Actors: the trainer (one thread, program counter pc), one task per      *)
(* dispatched prompt and one task per session of a running prompt (asyncio *)
(* tasks of AgentLoopWorkerTQ).  They interleave at every call to the      *)
(* TransferQueue.                                                          *)
(***************************************************************************)
EXTENDS ReplayBuffer, Sequences

CONSTANTS
  SampleBatch,   \* prompts sampled for one update: train_batch_size // parameter_sync_step
  SyncSteps,     \* parameter_sync_step
  WarmupBatches, \* num_warmup_batches of the async modes, 0 in sync mode
  TotalSteps,    \* total_training_steps
  SaveFreq,      \* trainer.save_freq, 0 for never
  KeepCkpt,      \* max_actor_ckpt_to_keep, 0 for None
  TqCheckpoint,  \* trainer_mode # "sync" and _tq_supports_checkpoint()
  MaxFaults,     \* bound on the sessions that fail or return no output
  MaxCrashes     \* bound on the crashes of a behaviour

ASSUME TrainerAssumption ==
  /\ SampleBatch \in Nat \ {0} /\ SyncSteps \in Nat \ {0}
  /\ WarmupBatches \in Nat /\ TotalSteps \in Nat
  /\ SaveFreq \in Nat /\ KeepCkpt \in Nat
  /\ TqCheckpoint \in BOOLEAN /\ MaxFaults \in Nat /\ MaxCrashes \in Nat

TrainBatch == SampleBatch * SyncSteps

VARIABLES
  \* TransferQueue, partition "train"
  status, born, traj,
  \* AgentLoopWorkerTQ: the task of a prompt, its sessions, the global_steps it was given
  task, sess, job,
  \* PPOTrainer
  pc, gs, iter, warm, pos,
  \* ReplayBuffer.sample: metadata snapshot, number of groups to refill
  snap, refill,
  \* groups sampled for the update in progress; trajectory keys of the step (combined_keys)
  taken, batch,
  \* what the actor weights have been trained on; what the drop strategy discarded
  trained, dropped,
  \* trainer.default_local_dir: global_step_<g> folders and the tracker file;
  \* previous_saved_paths of the actor's checkpoint manager (in memory)
  disk, tracker, saved,
  \* history: faults and crashes so far, groups with a failed session, groups already trained
  \* or dropped when the trainer resumed
  faults, crashes, failed, base

tqVars     == <<status, born, traj>>
workerVars == <<task, sess, job>>
bufferVars == <<snap, refill>>
diskVars   == <<disk, tracker>>
ghostVars  == <<faults, crashes, failed, base>>
vars == <<tqVars, workerVars, pc, gs, iter, warm, pos, bufferVars, taken, batch,
          trained, dropped, diskVars, saved, ghostVars>>

Queue == [status |-> status, born |-> born, traj |-> traj]

Folder == [parts   : SUBSET {"actor", "data", "tq"},
           trained : SUBSET Item, dropped : SUBSET Item, pos : 0 .. MaxItems, meta : Meta]

EmptyFolder == [parts |-> {}, trained |-> {}, dropped |-> {}, pos |-> 0, meta |-> EmptyMeta]

\* The parts of a folder that _load_checkpoint needs.
Needed == {"actor", "data"} \cup (IF TqCheckpoint THEN {"tq"} ELSE {})

PC == {"load", "reissue", "warmup", "feed", "poll", "decide", "refill", "train", "raised",
       "capacity", "actor", "data", "tq", "tracker", "step_end", "done"}

TypeOK ==
  /\ status \in [Item -> Status]
  /\ born \in [Item -> Nat]
  /\ traj \in [Item -> [Session -> Nat]]
  /\ task \in [Item -> {"none", "queued", "gather"}]
  /\ sess \in [Item -> [Session -> {"idle", "run", "ok", "err"}]]
  /\ job \in [Item -> Nat]
  /\ pc \in PC
  /\ gs \in Nat /\ iter \in Nat /\ warm \in Nat /\ pos \in 0 .. MaxItems
  /\ snap \in Meta /\ refill \in Nat
  /\ taken \in SUBSET Item /\ batch \in SUBSET Key
  /\ trained \in SUBSET Item /\ dropped \in SUBSET Item
  /\ disk \in [1 .. TotalSteps -> Folder]
  /\ tracker \in 0 .. TotalSteps
  /\ saved \in Seq(1 .. TotalSteps)
  /\ faults \in Nat /\ crashes \in Nat /\ failed \in SUBSET Item /\ base \in SUBSET Item

-----------------------------------------------------------------------------
\* A process that has just started holds nothing in memory.
Init ==
  /\ status = EmptyMeta.status /\ born = EmptyMeta.born /\ traj = EmptyMeta.traj
  /\ task = [u \in Item |-> "none"]
  /\ sess = [u \in Item |-> [s \in Session |-> "idle"]]
  /\ job = [u \in Item |-> 0]
  /\ pc = "load" /\ gs = 0 /\ iter = 0 /\ warm = 0 /\ pos = 0
  /\ snap = EmptyMeta /\ refill = 0
  /\ taken = {} /\ batch = {} /\ trained = {} /\ dropped = {}
  /\ saved = <<>> /\ failed = {} /\ base = {}
  /\ disk = [g \in 1 .. TotalSteps |-> EmptyFolder]
  /\ tracker = 0
  /\ faults = 0 /\ crashes = 0

-----------------------------------------------------------------------------
(* AgentLoopWorkerTQ: background tasks. *)

\* The first await of _run_prompt, then one task per session.
StartPrompt(u) ==
  /\ task[u] = "queued"
  /\ status' = [status EXCEPT ![u] = "running"]
  /\ task' = [task EXCEPT ![u] = "gather"]
  /\ sess' = [sess EXCEPT ![u] = [s \in Session |-> "run"]]
  /\ UNCHANGED <<born, traj, job, pc, gs, iter, warm, pos, bufferVars, taken, batch,
                 trained, dropped, diskVars, saved, ghostVars>>

\* What is left of a session that ended: a result for the gather that awaits it, or
\* nothing if the gather is over.
Ended(u, result) == IF task[u] = "gather" THEN result ELSE "idle"

\* _agent_loop_postprocess puts the outputs of the session.
SessionEnd(u, s) ==
  /\ sess[u][s] = "run"
  /\ sess' = [sess EXCEPT ![u][s] = Ended(u, "ok")]
  /\ traj' = [traj EXCEPT ![u][s] = job[u]]
  /\ UNCHANGED <<status, born, task, job, pc, gs, iter, warm, pos, bufferVars, taken,
                 batch, trained, dropped, diskVars, saved, ghostVars>>

\* _agent_loop_postprocess returns early: the agent loop had no output.
SessionEmpty(u, s) ==
  /\ sess[u][s] = "run" /\ faults < MaxFaults
  /\ faults' = faults + 1
  /\ sess' = [sess EXCEPT ![u][s] = Ended(u, "ok")]
  /\ UNCHANGED <<tqVars, task, job, pc, gs, iter, warm, pos, bufferVars, taken, batch,
                 trained, dropped, diskVars, saved, crashes, failed, base>>

\* An exception in the agent loop, the reward or the post-processing.
SessionFail(u, s) ==
  /\ sess[u][s] = "run" /\ faults < MaxFaults
  /\ faults' = faults + 1
  /\ sess' = [sess EXCEPT ![u][s] = Ended(u, "err")]
  /\ failed' = failed \cup {u}
  /\ UNCHANGED <<tqVars, task, job, pc, gs, iter, warm, pos, bufferVars, taken, batch,
                 trained, dropped, diskVars, saved, crashes, base>>

\* Mutant: the group is finished with its first session.
GatherFirst(u) == \E s \in Session : sess[u][s] = "ok"

\* asyncio.gather returns when every session ended well.
GatherReturns(u) == \A s \in Session : sess[u][s] = "ok"

\* asyncio.gather without return_exceptions raises at the first exception.
GatherRaises(u) == \E s \in Session : sess[u][s] = "err"

\* The sessions that still run when the gather is over: they are not cancelled.
LeftRunning(u) == [s \in Session |-> IF sess[u][s] = "run" THEN "run" ELSE "idle"]

PromptFinished(u) ==
  /\ task[u] = "gather"
  /\ GatherReturns(u)
  /\ status' = [status EXCEPT ![u] = "finished"]
  /\ task' = [task EXCEPT ![u] = "none"]
  /\ sess' = [sess EXCEPT ![u] = LeftRunning(u)]
  /\ UNCHANGED <<born, traj, job, pc, gs, iter, warm, pos, bufferVars, taken,
                 batch, trained, dropped, diskVars, saved, ghostVars>>

PromptFailure(u) ==
  /\ task[u] = "gather"
  /\ GatherRaises(u)
  /\ status' = [status EXCEPT ![u] = "failure"]
  /\ task' = [task EXCEPT ![u] = "none"]
  /\ sess' = [sess EXCEPT ![u] = LeftRunning(u)]
  /\ UNCHANGED <<born, traj, job, pc, gs, iter, warm, pos, bufferVars, taken,
                 batch, trained, dropped, diskVars, saved, ghostVars>>

Worker(u) ==
  \/ StartPrompt(u)
  \/ \E s \in Session : SessionEnd(u, s) \/ SessionEmpty(u, s) \/ SessionFail(u, s)
  \/ PromptFinished(u)
  \/ PromptFailure(u)

-----------------------------------------------------------------------------
(* PPOTrainer: feeding prompts. *)

\* Mutant: a status that the replay buffer does not know.
DispatchUnknownStatus(S) ==
  /\ status' = [u \in Item |-> IF u \in S THEN "queued" ELSE status[u]]
  /\ born' = [u \in Item |-> IF u \in S THEN gs ELSE born[u]]
  /\ task' = [u \in Item |-> IF u \in S THEN "queued" ELSE task[u]]
  /\ job' = [u \in Item |-> IF u \in S THEN gs ELSE job[u]]

\* Register the groups of S as pending at the current step and hand them to the
\* agent loop workers (AgentLoopManagerTQ.generate_sequences returns at once).
Dispatch(S) ==
  /\ status' = [u \in Item |-> IF u \in S THEN "pending" ELSE status[u]]
  /\ born' = [u \in Item |-> IF u \in S THEN gs ELSE born[u]]
  /\ task' = [u \in Item |-> IF u \in S THEN "queued" ELSE task[u]]
  /\ job' = [u \in Item |-> IF u \in S THEN gs ELSE job[u]]

\* Mutant: starts with the item fetched last.
FetchedAgain(n) == pos .. pos + n - 1

\* The next n items of the dataloader.
Fetched(n) == pos + 1 .. pos + n

\* _next_train_batch(n) and _submit_batch_to_rollout.
AddPrompts(n) ==
  /\ pos + n <= MaxItems
  /\ pos' = pos + n
  /\ Dispatch(Fetched(n))
  /\ UNCHANGED <<traj, sess>>

\* Mutant: one warm-up batch too many.
WarmupLeftOneMore == warm <= WarmupBatches

\* on_train_begin still has a batch to add.
WarmupLeft == warm < WarmupBatches

Warmup ==
  /\ pc = "warmup"
  /\ IF WarmupLeft
     THEN AddPrompts(TrainBatch) /\ warm' = warm + 1 /\ UNCHANGED pc
     ELSE pc' = "feed" /\ UNCHANGED <<tqVars, workerVars, pos, warm>>
  /\ UNCHANGED <<gs, iter, bufferVars, taken, batch, trained, dropped, diskVars, saved,
                 ghostVars>>

\* The loop condition of fit, and the regular feed at the start of step.
Feed ==
  /\ pc = "feed" /\ gs <= TotalSteps
  /\ AddPrompts(TrainBatch)
  /\ pc' = "poll" /\ iter' = 0
  /\ UNCHANGED <<gs, warm, bufferVars, taken, batch, trained, dropped, diskVars, saved,
                 ghostVars>>

TrainEnd ==
  /\ pc = "feed" /\ gs > TotalSteps
  /\ pc' = "done"
  /\ UNCHANGED <<tqVars, workerVars, gs, iter, warm, pos, bufferVars, taken, batch,
                 trained, dropped, diskVars, saved, ghostVars>>

-----------------------------------------------------------------------------
(* ReplayBuffer.sample(global_steps, "train", SampleBatch). *)

SyncMetadata ==
  /\ pc = "poll"
  /\ snap' = Queue
  /\ pc' = "decide"
  /\ UNCHANGED <<tqVars, workerVars, gs, iter, warm, pos, refill, taken, batch, trained,
                 dropped, diskVars, saved, ghostVars>>

\* kv_clear of prompt keys S and trajectory keys K (it does not cascade).
KvClear(S, K) ==
  /\ status' = [u \in Item |-> IF u \in S THEN "absent" ELSE status[u]]
  /\ born' = [u \in Item |-> IF u \in S THEN 0 ELSE born[u]]
  /\ traj' = [u \in Item |-> [s \in Session |->
                IF <<u, s>> \in K THEN 0 ELSE traj[u][s]]]

\* Mutant: one group short.
NumRefillShort(S) == Cardinality(S) - 1

\* The number of fresh prompts that replace the dropped groups S.
NumRefill(S) == Cardinality(S)

\* Mutant: relies on kv_clear to cascade.
DroppedPromptsOnly(S) == {}

\* The trajectory keys that are cleared with the dropped groups S.
DroppedKeys(S) == TrajectoryKeys(snap, S)

DropStale ==
  /\ pc = "decide"
  /\ StaleKeys(gs, snap) # {}
  /\ LET S == StaleKeys(gs, snap) IN
       /\ KvClear(S, DroppedKeys(S))
       /\ dropped' = dropped \cup S
       /\ refill' = NumRefill(S)
  /\ snap' = EmptyMeta
  /\ pc' = "refill"
  /\ UNCHANGED <<workerVars, gs, iter, warm, pos, taken, batch, trained, diskVars, saved,
                 ghostVars>>

\* refill_fn(dropped), then "continue".
Refill ==
  /\ pc = "refill"
  /\ AddPrompts(refill)
  /\ refill' = 0
  /\ pc' = "poll"
  /\ UNCHANGED <<gs, iter, warm, snap, taken, batch, trained, dropped, diskVars, saved,
                 ghostVars>>

\* Mutant: the trajectories are cleared when they are handed out.
SampledTrajectories(S) == TrajectoryKeys(snap, S)

\* The trajectory keys that are cleared when the groups S are sampled: none, the
\* update still has to read them.
SampledClears(S) == {}

SelectBatch ==
  /\ pc = "decide"
  /\ StaleKeys(gs, snap) = {}
  /\ HasEnoughSamples(gs, snap, SampleBatch)
  /\ \E S \in OldestFirst(gs, snap, SampleBatch) :
       /\ KvClear(S, SampledClears(S))
       /\ taken' = S
       /\ batch' = batch \cup TrajectoryKeys(snap, S)
  /\ snap' = EmptyMeta
  /\ pc' = "train"
  /\ UNCHANGED <<workerVars, gs, iter, warm, pos, refill, trained, dropped, diskVars, saved,
                 ghostVars>>

SleepPoll ==
  /\ pc = "decide"
  /\ StaleKeys(gs, snap) = {}
  /\ ~ HasEnoughSamples(gs, snap, SampleBatch)
  /\ snap' = EmptyMeta
  /\ pc' = "poll"
  /\ UNCHANGED <<tqVars, workerVars, gs, iter, warm, pos, refill, taken, batch, trained,
                 dropped, diskVars, saved, ghostVars>>

-----------------------------------------------------------------------------
(* PPOTrainer: the update and the end of a step. *)

SaveDue == SaveFreq > 0 /\ (gs >= TotalSteps \/ gs % SaveFreq = 0)

\* The groups of this update have at least one trajectory between them.
HasTrajectories == \E k \in batch : k[1] \in taken

\* _balance_batch asserts on an empty batch, and the trainer stops.
BalanceFails ==
  /\ pc = "train"
  /\ ~ HasTrajectories
  /\ pc' = "raised"
  /\ UNCHANGED <<tqVars, workerVars, gs, iter, warm, pos, bufferVars, taken, batch, trained,
                 dropped, diskVars, saved, ghostVars>>

UpdateActor ==
  /\ pc = "train"
  /\ HasTrajectories
  /\ trained' = trained \cup taken
  /\ taken' = {}
  /\ iter' = iter + 1
  /\ pc' = IF iter + 1 < SyncSteps THEN "poll"
           ELSE IF SaveDue THEN "capacity" ELSE "step_end"
  /\ UNCHANGED <<tqVars, workerVars, gs, warm, pos, bufferVars, batch, dropped, diskVars,
                 saved, ghostVars>>

\* on_step_end, validation and metrics leave this state alone; the step ends by
\* clearing its trajectories.
StepEnd ==
  /\ pc = "step_end"
  /\ KvClear({}, batch)
  /\ batch' = {}
  /\ gs' = gs + 1
  /\ pc' = IF gs >= TotalSteps THEN "done" ELSE "feed"
  /\ UNCHANGED <<workerVars, iter, warm, pos, bufferVars, taken, trained, dropped,
                 diskVars, saved, ghostVars>>

-----------------------------------------------------------------------------
(* PPOTrainer._save_checkpoint, part by part. *)

\* What each part of the save adds to a folder f.
AddActor(f) ==
  [f EXCEPT !.parts = @ \cup {"actor"}, !.trained = trained, !.dropped = dropped]

\* Mutant: the state of a fresh dataloader is saved.
AddFreshData(f) == [f EXCEPT !.parts = @ \cup {"data"}, !.pos = 0]

AddData(f) == [f EXCEPT !.parts = @ \cup {"data"}, !.pos = pos]

\* Mutant: the queue is saved without its prompts.
AddTrajectories(f) ==
  [f EXCEPT !.parts = @ \cup {"tq"}, !.meta = [EmptyMeta EXCEPT !.traj = traj]]

AddQueue(f) == [f EXCEPT !.parts = @ \cup {"tq"}, !.meta = Queue]

RemoveActor(G) ==
  [g \in 1 .. TotalSteps |->
     IF g \in G THEN [disk[g] EXCEPT !.parts = @ \ {"actor"}, !.trained = {}, !.dropped = {}]
     ELSE disk[g]]

\* Mutant: makes room for one checkpoint too many.
CapacityCutTooMany(n) == IF KeepCkpt > 1 /\ n >= KeepCkpt THEN n - KeepCkpt + 2 ELSE 0

\* How many of the n oldest paths ensure_checkpoint_capacity removes.
CapacityCut(n) == IF KeepCkpt > 1 /\ n >= KeepCkpt THEN n - KeepCkpt + 1 ELSE 0

\* How many of the n oldest paths register_checkpoint removes.
RegisterCut(n) == IF KeepCkpt > 0 /\ n > KeepCkpt THEN n - KeepCkpt ELSE 0

PathsOf(q) == {q[i] : i \in 1 .. Len(q)}

\* BaseCheckpointManager.ensure_checkpoint_capacity, before the actor is written.
EnsureCapacity ==
  /\ pc = "capacity"
  /\ LET old == CapacityCut(Len(saved)) IN
       /\ disk' = RemoveActor(PathsOf(SubSeq(saved, 1, old)))
       /\ saved' = SubSeq(saved, old + 1, Len(saved))
  /\ pc' = "actor"
  /\ UNCHANGED <<tqVars, workerVars, gs, iter, warm, pos, bufferVars, taken, batch, trained,
                 dropped, tracker, ghostVars>>

\* The actor is written, then register_checkpoint enforces the retention limit.
SaveActor ==
  /\ pc = "actor"
  /\ LET q == Append(saved, gs)
         old == RegisterCut(Len(q))
     IN /\ disk' = [RemoveActor(PathsOf(SubSeq(q, 1, old))) EXCEPT
                      ![gs] = AddActor(@)]
        /\ saved' = SubSeq(q, old + 1, Len(q))
  /\ pc' = "data"
  /\ UNCHANGED <<tqVars, workerVars, gs, iter, warm, pos, bufferVars, taken, batch, trained,
                 dropped, tracker, ghostVars>>

SaveDataloader ==
  /\ pc = "data"
  /\ disk' = [disk EXCEPT ![gs] = AddData(@)]
  /\ pc' = IF TqCheckpoint THEN "tq" ELSE "tracker"
  /\ UNCHANGED <<tqVars, workerVars, gs, iter, warm, pos, bufferVars, taken, batch, trained,
                 dropped, tracker, saved, ghostVars>>

SaveTransferQueue ==
  /\ pc = "tq"
  /\ disk' = [disk EXCEPT ![gs] = AddQueue(@)]
  /\ pc' = "tracker"
  /\ UNCHANGED <<tqVars, workerVars, gs, iter, warm, pos, bufferVars, taken, batch, trained,
                 dropped, tracker, saved, ghostVars>>

WriteTracker ==
  /\ pc = "tracker"
  /\ tracker' = gs
  /\ pc' = "step_end"
  /\ UNCHANGED <<tqVars, workerVars, gs, iter, warm, pos, bufferVars, taken, batch, trained,
                 dropped, disk, saved, ghostVars>>

-----------------------------------------------------------------------------
(* Crash and resume. *)

\* Every process of the job dies: the workers, the queue and the trainer.
Crash ==
  /\ pc \notin {"load", "done"}
  /\ crashes < MaxCrashes
  /\ crashes' = crashes + 1
  /\ status' = EmptyMeta.status /\ born' = EmptyMeta.born /\ traj' = EmptyMeta.traj
  /\ task' = [u \in Item |-> "none"]
  /\ sess' = [u \in Item |-> [s \in Session |-> "idle"]]
  /\ job' = [u \in Item |-> 0]
  /\ pc' = "load" /\ gs' = 0 /\ iter' = 0 /\ warm' = 0 /\ pos' = 0
  /\ snap' = EmptyMeta /\ refill' = 0
  /\ taken' = {} /\ batch' = {} /\ trained' = {} /\ dropped' = {}
  /\ saved' = <<>> /\ failed' = {} /\ base' = {}
  /\ UNCHANGED <<diskVars, faults>>

\* _load_checkpoint in resume_mode "auto"; without a tracker, from scratch.
LoadCheckpoint ==
  /\ pc = "load"
  /\ gs' = tracker
  /\ IF tracker = 0
     THEN UNCHANGED <<tqVars, trained, dropped, base, pos>>
     ELSE LET f == disk[tracker] IN
            /\ "actor" \in f.parts
            /\ trained' = f.trained /\ dropped' = f.dropped
            /\ base' = f.trained \cup f.dropped
            /\ pos' = f.pos
            /\ IF TqCheckpoint
               THEN status' = f.meta.status /\ born' = f.meta.born /\ traj' = f.meta.traj
               ELSE UNCHANGED tqVars
  /\ pc' = "reissue"
  /\ UNCHANGED <<workerVars, iter, warm, bufferVars, taken, batch, diskVars, saved, faults,
                 crashes, failed>>

\* Mutant: nothing is dispatched again.
ReissueNone == {}

\* The restored groups that were not finished.
InflightUids == IF TqCheckpoint THEN InFlight(Queue) ELSE {}

\* Mutant: the old trajectories are kept.
KeepOldTrajectories(S) == traj

\* The trajectories without those of the groups S.
ClearOldTrajectories(S) ==
  [u \in Item |-> [s \in Session |-> IF u \in S THEN 0 ELSE traj[u][s]]]

\* fit: the step counter moves on, then _reissue_inflight_prompts restarts the
\* restored groups that were not finished: their old trajectories are cleared and
\* they are dispatched again as groups of the resumed step.
ReissueInflight ==
  /\ pc = "reissue"
  /\ gs' = gs + 1
  /\ LET S == InflightUids
     IN /\ traj' = ClearOldTrajectories(S)
        /\ status' = [u \in Item |-> IF u \in S THEN "pending" ELSE status[u]]
        /\ born' = [u \in Item |-> IF u \in S THEN gs + 1 ELSE born[u]]
        /\ task' = [u \in Item |-> IF u \in S THEN "queued" ELSE task[u]]
        /\ job' = [u \in Item |-> IF u \in S THEN gs + 1 ELSE job[u]]
  /\ pc' = "warmup"
  /\ UNCHANGED <<sess, iter, warm, pos, bufferVars, taken, batch, trained, dropped,
                 diskVars, saved, ghostVars>>

-----------------------------------------------------------------------------
Trainer ==
  \/ LoadCheckpoint \/ ReissueInflight \/ Warmup \/ Feed \/ TrainEnd
  \/ SyncMetadata \/ DropStale \/ Refill \/ SelectBatch \/ SleepPoll
  \/ BalanceFails \/ UpdateActor \/ StepEnd
  \/ EnsureCapacity \/ SaveActor \/ SaveDataloader \/ SaveTransferQueue \/ WriteTracker

\* Training is over and no background task is left.
Terminated ==
  /\ pc \in {"done", "raised"}
  /\ \A u \in Item : task[u] = "none" /\ \A s \in Session : sess[u][s] # "run"
  /\ UNCHANGED vars

Next ==
  \/ Trainer
  \/ \E u \in Item : Worker(u)
  \/ Crash
  \/ Terminated

Spec == Init /\ [][Next]_vars

-----------------------------------------------------------------------------
(* Properties. *)

Live == Prompts(Queue)

\* Every item fetched from the dataloader is in exactly one place: a prompt key of
\* the queue, the update in progress, the trained weights, or the dropped ones.  In
\* particular no item is trained twice and none is lost, across drops, refills,
\* checkpoints (which are taken while trained trajectories are still in the queue)
\* and resumes (fit, sample, _save_checkpoint, _load_checkpoint).
ExactlyOnce ==
  /\ Live \cap taken = {} /\ Live \cap trained = {} /\ Live \cap dropped = {}
  /\ taken \cap trained = {} /\ taken \cap dropped = {} /\ trained \cap dropped = {}
  /\ Live \cup taken \cup trained \cup dropped = 1 .. pos

\* While a step trains on a batch, all of its trajectories are in the queue: the
\* update reads them back with kv_batch_get until StepEnd clears them.
BatchStored == \A k \in batch : traj[k[1]][k[2]] # 0

\* The trajectories of a group that reach an update come from its last dispatch: a
\* reissued group never keeps what it generated before a crash.
OneAttempt == \A k \in batch : job[k[1]] \in {0, traj[k[1]][k[2]]}

\* Under "drop" no update sees a trajectory older than the threshold, by the
\* trajectory's own global_steps tag (the sampler only looks at the prompt's tag).
FreshTraining ==
  pc = "train" /\ Strategy = "drop" =>
    \A k \in batch : k[1] \in taken => Span(gs, traj[k[1]][k[2]]) <= Threshold

\* A session outlives its place in the queue only if a sibling session failed.
LateWriterOnlyAfterFailure ==
  \A u \in Item, s \in Session :
    sess[u][s] = "run" => \/ status[u] = "running" /\ task[u] = "gather"
                          \/ u \in failed

\* Trajectories that belong neither to a live prompt nor to the batch of the step
\* stay in the queue forever (nothing clears them).  They come from a group with a
\* failed session, or were restored with a checkpoint that had consumed their group.
OrphansExplained ==
  \A u \in Item, s \in Session :
    traj[u][s] # 0 => \/ u \in Live
                      \/ <<u, s>> \in batch
                      \/ u \in failed
                      \/ u \in base

\* One failed session is enough to empty its group (its siblings may still be running
\* when the group is sampled), and a batch of such groups stops the trainer; but it takes
\* a fault in every group of the batch.
EmptyBatchNeedsFaults == pc = "raised" => faults >= SampleBatch

\* Between two steps the pool of submitted groups is exactly the warm-up, plus one
\* more warm-up for every resume: dropping refills what it removes.
PoolBounds ==
  pc = "feed" => /\ Cardinality(Live) >= WarmupBatches * TrainBatch
                 /\ Cardinality(Live) <= (crashes + 1) * WarmupBatches * TrainBatch

\* "wait" does not bound the span by the threshold: a group that finished in time
\* still queues behind the older ones of the warm-up.
WaitSpanBound ==
  pc = "train" /\ Strategy = "wait" =>
    \A k \in batch : k[1] \in taken =>
      Span(gs, traj[k[1]][k[2]]) <=
        (IF Threshold = 1 THEN 2 ELSE Threshold) + (crashes + 1) * WarmupBatches - 1

\* The folder the tracker names always holds every part a resume needs, whatever
\* instant the crash comes at ("atomic resume", _save_checkpoint).
TrackedComplete == tracker # 0 => Needed \subseteq disk[tracker].parts

\* The folder the tracker names is a consistent cut: weights, dataloader position
\* and queue were written one after the other while workers kept running, and still
\* account for every item of the dataloader exactly once.
TrackedConsistent ==
  tracker # 0 /\ "actor" \in disk[tracker].parts =>
    LET f == disk[tracker] IN
      /\ f.trained \cap Prompts(f.meta) = {} /\ f.dropped \cap Prompts(f.meta) = {}
      /\ f.trained \cap f.dropped = {}
      /\ f.trained \cup f.dropped \cup Prompts(f.meta) = 1 .. f.pos

\* ReplayBuffer's docstring: "failure: all sessions of the prompt are finished, but
\* at least one session failed."
FailureMeansAllSessionsEnded ==
  \A u \in Item : status[u] = "failure" => \A s \in Session : sess[u][s] # "run"

\* A terminal group stays as it is until the sampler clears it (or the job dies): no
\* worker put brings a cleared key back or reopens a group.
TerminalIsFinal ==
  [][\A u \in Item :
       /\ status[u] \in {"finished", "failure"} => status'[u] \in {status[u], "absent"}
       /\ status[u] = "absent" /\ status'[u] # "absent" => u > pos \/ pc = "load"]_vars

\* The trainer is the ledger: see SampleLedger.
NoLedger == [next |-> 0, since |-> [u \in Item |-> 0], trained |-> {}, step |-> 0]

StoredLedger ==
  IF tracker = 0 THEN NoLedger
  ELSE [next |-> disk[tracker].pos, since |-> disk[tracker].meta.born,
        trained |-> disk[tracker].trained, step |-> tracker]

Loading == pc = "load"

Abstract == INSTANCE SampleLedger WITH
  next     <- IF Loading THEN StoredLedger.next ELSE pos,
  since    <- IF Loading THEN StoredLedger.since ELSE born,
  trained  <- IF Loading THEN StoredLedger.trained ELSE trained,
  step     <- IF Loading THEN StoredLedger.step ELSE gs,
  taken    <- taken,
  resuming <- pc \in {"load", "reissue"},
  stored   <- StoredLedger

\* The trainer, its workers and its checkpoints implement the ledger.
ImplementsLedger == Abstract!LedgerSpec

-----------------------------------------------------------------------------
(* Liveness. *)

\* Agent loops end (LLM servers answer or raise), asyncio runs ready tasks, the
\* trainer thread is never blocked for good by anything but the queue's contents.
Fairness ==
  /\ WF_vars(Trainer)
  /\ \A u \in Item :
       /\ WF_vars(StartPrompt(u))
       /\ WF_vars(PromptFinished(u))
       /\ WF_vars(PromptFailure(u))
       /\ \A s \in Session : WF_vars(SessionEnd(u, s) \/ SessionEmpty(u, s) \/ SessionFail(u, s))

FairSpec == Spec /\ Fairness

\* The trainer never waits forever: it trains to the last step or stops with an
\* exception.  Neither dropping and refilling nor waiting starves the sampler, and every
\* resume finds something to go on from.
TrainingEnds == <>(pc \in {"done", "raised"})
=============================================================================
