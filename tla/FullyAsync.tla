----------------------------- MODULE FullyAsync -----------------------------
(***************************************************************************)
(* The fully asynchronous trainer (experimental/fully_async_policy): the   *)
(* rollouter's event loop, with its feeder, its processor, one task per    *)
(* sample and its monitor; the trainer; and the message queue between      *)
(* them.  Awaits separate the actions: what runs between two awaits of one *)
(* coroutine is one step.  The k-th item the dataloader yields is sample k.*)
(***************************************************************************)
EXTENDS MessageQueue, FiniteSetsExt

CONSTANTS
  TotalRolloutSteps,  \* total_rollout_steps
  RequiredSamples,    \* required_samples: the samples of one local update
  SyncSteps,          \* trigger_parameter_sync_step
  ReplicaSlots,       \* 16 for every replica
  EpochSize, Epochs,  \* len(train_dataloader), total_epochs
  FeedCap,            \* maxsize of pending_queue
  SaveFreq,           \* trainer.save_freq
  TestFreq,           \* trainer.test_freq
  MaxFaults,          \* bound: tasks that raise
  MaxCrashes          \* bound: crashes of the job

\* max_required_samples is required_samples * (1 + staleness_threshold) * sync steps, and
\* the queue is created with it: MaxQueueSize stands for both.
ASSUME FullyAsyncAssumption ==
  /\ TotalRolloutSteps \in Nat \ {0}
  /\ RequiredSamples \in Nat \ {0} /\ SyncSteps \in Nat \ {0}
  /\ MaxQueueSize >= RequiredSamples * SyncSteps
  /\ ReplicaSlots \in Nat \ {0}
  /\ EpochSize \in Nat \ {0} /\ Epochs \in Nat \ {0}
  /\ TotalRolloutSteps <= Epochs * EpochSize
  /\ FeedCap \in Nat \ {0}
  /\ SaveFreq \in Nat \ {0} /\ TestFreq \in Nat \ {0}
  /\ MaxFaults \in Nat /\ MaxCrashes \in Nat

VARIABLES
  base,       \* the dataloader's position when the job started
  last,       \* the last sample of this job; the feeder puts None after it
  fed,        \* items put into pending_queue
  taken,      \* items the processor took from it
  running,    \* active_tasks: their coroutine runs,
  ended,      \*   it has put its sample,
  failed,     \*   or it raised
  staleness,  \* staleness_samples
  paused,     \* self.paused; _resume_event is set when it is FALSE
  lock,       \* the holder of self.lock across an await: "free", "processor", "reset"
  pp,         \* where _processor_worker is
  reaping,    \* the done tasks that the drain loop is about to remove
  mon,        \* where _async_monitor_loop is
  tp,         \* where the trainer is
  got,        \* queue_samples
  local,      \* local_trigger_step
  version,    \* current_param_version
  stopping,   \* the trainer's loop ended
  lastCkpt,   \* last_ckpt_version
  model,      \* the samples the actor's weights were trained on
  disk,       \* the checkpoint that the tracker names
  resets,     \* reset_staleness calls since the last start
  doubled,    \* history: finished tasks that the last reset_staleness still counted
  faults, crashes

taskVars == <<running, ended, failed, faults>>
feedVars == <<base, last, fed, taken>>
pauseVars == <<staleness, paused, lock>>
trainVars == <<tp, got, local, version, stopping, lastCkpt, model, disk, resets, doubled>>
vars == <<mqVars, taskVars, feedVars, pauseVars, pp, reaping, mon, trainVars, crashes>>

Active == running \cup ended \cup failed

\* max_concurrent_samples
MaxConcurrent == Min({ReplicaSlots, MaxQueueSize})

\* The samples between two parameter versions.
PerVersion == RequiredSamples * SyncSteps

Init ==
  /\ MqInit
  /\ base = 0 /\ last = TotalRolloutSteps /\ fed = 0 /\ taken = 0
  /\ running = {} /\ ended = {} /\ failed = {} /\ faults = 0
  /\ staleness = 0 /\ paused = FALSE /\ lock = "free"
  /\ pp = "ask" /\ reaping = {} /\ mon = "idle"
  /\ tp = "get" /\ got = {} /\ local = 1 /\ version = 0 /\ stopping = FALSE
  /\ lastCkpt = 0 /\ model = {} /\ resets = 0 /\ doubled = 0
  /\ disk = [version |-> 0, model |-> {}, fed |-> 0]
  /\ crashes = 0

-----------------------------------------------------------------------------
(* The rollouter.                                                          *)

\* _feed_samples: a put into a queue with room does not give up the event loop.
FeedSamples ==
  /\ pp # "finished"
  /\ fed < taken + FeedCap /\ fed <= last
  /\ fed' = Min({last + 1, taken + FeedCap})
  /\ UNCHANGED <<mqVars, taskVars, base, last, taken, pauseVars, pp, reaping, mon, trainVars, crashes>>

\* What the dataloader has yielded: once the feeder ran, it holds one more item.
Yielded == IF fed = base THEN base ELSE Min({fed + 1, last})

\* _processor_worker, the call of _should_pause_generation: the statistics of the queue
\* come first, and staleness_samples is read when they have arrived.
AskQueue ==
  /\ pp = "ask"
  /\ pp' = IF GetQueueSize >= MaxQueueSize THEN "pausing" ELSE "room"
  /\ UNCHANGED <<mqVars, taskVars, feedVars, pauseVars, reaping, mon, trainVars, crashes>>

\* Mutant: pauses one sample late.
TooStaleLate == staleness > MaxQueueSize

TooStale == staleness >= MaxQueueSize

DecidePause ==
  /\ pp = "room"
  /\ pp' = IF TooStale THEN "pausing" ELSE "take"
  /\ UNCHANGED <<mqVars, taskVars, feedVars, pauseVars, reaping, mon, trainVars, crashes>>

Pause ==
  /\ pp = "pausing" /\ lock = "free"
  /\ paused' = TRUE
  /\ pp' = "drain"
  /\ UNCHANGED <<mqVars, taskVars, feedVars, staleness, lock, reaping, mon, trainVars, crashes>>

\* The drain loop sees done tasks, and removes them one by one once it has the lock.  A task
\* that raised ends the processor, and leaves the rest.
DrainWake ==
  /\ pp = "drain" /\ ended \cup failed # {}
  /\ reaping' = ended \cup failed
  /\ pp' = "reap"
  /\ UNCHANGED <<mqVars, taskVars, feedVars, pauseVars, mon, trainVars, crashes>>

DrainReap ==
  /\ pp = "reap" /\ lock = "free"
  /\ \/ /\ reaping \cap failed = {}
        /\ ended' = ended \ reaping /\ UNCHANGED failed
        /\ pp' = IF paused THEN "drain" ELSE "ask"
     \/ \E f \in reaping \cap failed, R \in SUBSET (reaping \ failed) :
          /\ ended' = ended \ R /\ failed' = failed \ {f}
          /\ pp' = "crashed"
  /\ reaping' = {}
  /\ UNCHANGED <<mqVars, running, faults, feedVars, pauseVars, mon, trainVars, crashes>>

DrainResume ==
  /\ pp = "drain" /\ ~paused /\ ended \cup failed = {}
  /\ pp' = "ask"
  /\ UNCHANGED <<mqVars, taskVars, feedVars, pauseVars, reaping, mon, trainVars, crashes>>

\* pending_queue.get; None is counted too.
TakeSample ==
  /\ pp = "take" /\ taken < fed
  /\ taken' = taken + 1
  /\ staleness' = staleness + 1
  /\ pp' = IF taken' > last THEN "end" ELSE "slot"
  /\ UNCHANGED <<mqVars, taskVars, base, last, fed, paused, lock, reaping, mon, trainVars, crashes>>

SlotsBusy == Cardinality(Active) >= MaxConcurrent

\* With all slots busy, or after None, the processor waits for a task inside the lock.
WaitForTask ==
  /\ lock = "free"
  /\ \/ pp = "slot" /\ SlotsBusy
     \/ pp = "end" /\ Active # {}
  /\ lock' = "processor"
  /\ UNCHANGED <<mqVars, taskVars, feedVars, staleness, paused, pp, reaping, mon, trainVars, crashes>>

ReapInLock ==
  /\ lock = "processor" /\ ended \cup failed # {}
  /\ ended' = {} /\ failed' = {}
  /\ lock' = "free"
  /\ pp' = IF failed # {} THEN "crashed" ELSE pp
  /\ UNCHANGED <<mqVars, running, faults, feedVars, staleness, paused, reaping, mon, trainVars, crashes>>

\* The test of self.paused before it is never true: only the processor sets it, and it
\* leaves the drain loop with the event set.
SubmitSample ==
  /\ pp = "slot" /\ ~SlotsBusy /\ lock = "free"
  /\ running' = running \cup {taken}
  /\ pp' = "ask"
  /\ UNCHANGED <<mqVars, ended, failed, faults, feedVars, pauseVars, reaping, mon, trainVars, crashes>>

\* _process_single_sample_streaming: the task puts its sample and is done, or raises.
FinishSample(s) ==
  /\ PutSample(s)
  /\ running' = running \ {s} /\ ended' = ended \cup {s}
  /\ UNCHANGED <<failed, faults, feedVars, pauseVars, pp, reaping, mon, trainVars, crashes>>

FailSample(s) ==
  /\ faults < MaxFaults
  /\ faults' = faults + 1
  /\ running' = running \ {s} /\ failed' = failed \cup {s}
  /\ UNCHANGED <<mqVars, ended, feedVars, pauseVars, pp, reaping, mon, trainVars, crashes>>

\* The finally of _streaming_generation_main: None is put after the last task, and also
\* when the processor raised, while other tasks still run.
FinishRollout ==
  /\ \/ pp = "end" /\ Active = {}
     \/ pp = "crashed"
  /\ PutSample(EndMarker)
  /\ pp' = "finished"
  /\ UNCHANGED <<taskVars, feedVars, pauseVars, reaping, mon, trainVars, crashes>>

\* _async_monitor_loop, while self.running: every ten seconds.
MonitorAsk ==
  /\ mon = "idle" /\ pp # "finished" /\ paused /\ GetQueueSize < MaxQueueSize
  /\ mon' = "room"
  /\ UNCHANGED <<mqVars, taskVars, feedVars, pauseVars, pp, reaping, trainVars, crashes>>

MonitorDecide ==
  /\ mon = "room"
  /\ mon' = IF TooStale THEN "idle" ELSE "resuming"
  /\ UNCHANGED <<mqVars, taskVars, feedVars, pauseVars, pp, reaping, trainVars, crashes>>

\* Mutant: the monitor only logs.
MonitorOnlyLogs ==
  /\ mon = "resuming" /\ lock = "free"
  /\ mon' = "idle"
  /\ UNCHANGED <<mqVars, taskVars, feedVars, pauseVars, pp, reaping, trainVars, crashes>>

MonitorResume ==
  /\ mon = "resuming" /\ lock = "free"
  /\ paused' = FALSE
  /\ mon' = "idle"
  /\ UNCHANGED <<mqVars, taskVars, feedVars, staleness, lock, pp, reaping, trainVars, crashes>>

-----------------------------------------------------------------------------
(* The trainer.                                                            *)

\* _get_samples_from_queue, one sample at a time; None throws a partial batch away.
GetOneSample ==
  /\ tp = "get"
  /\ GetSample
  /\ IF Head(queue) = EndMarker
     THEN got' = {} /\ stopping' = TRUE /\ tp' = "final"
     ELSE /\ got' = got \cup {Head(queue)}
          /\ tp' = IF Cardinality(got') = RequiredSamples THEN "train" ELSE "get"
          /\ UNCHANGED stopping
  /\ UNCHANGED <<taskVars, feedVars, pauseVars, pp, reaping, mon, local, version, lastCkpt,
                 model, disk, resets, doubled, crashes>>

\* _fit_save_checkpoint: not twice for a version; force after the loop.
ShouldSave(v, force) == v # lastCkpt /\ (force \/ v % SaveFreq = 0)

\* Mutant: one local update more.
SyncLater == local <= SyncSteps

LocalUpdate == local < SyncSteps

\* fit_step up to _fit_update_local_step.
TrainStep ==
  /\ tp = "train"
  /\ model' = model \cup got /\ got' = {}
  /\ IF LocalUpdate
     THEN /\ local' = local + 1
          /\ tp' = IF ShouldSave(version, FALSE) THEN "save" ELSE "get"
          /\ UNCHANGED version
     ELSE /\ version' = version + 1
          /\ local' = 1
          /\ tp' = "sync"
  /\ UNCHANGED <<mqVars, taskVars, feedVars, pauseVars, pp, reaping, mon, stopping, lastCkpt,
                 disk, resets, doubled, crashes>>

\* _fit_update_weights, then reset_staleness in the rollouter: it takes the lock,
\* resumes the processor, and asks the queue for its length before it assigns.
ResetBegin ==
  /\ tp = "sync" /\ lock = "free"
  /\ lock' = "reset"
  /\ paused' = FALSE
  /\ tp' = "reset"
  /\ UNCHANGED <<mqVars, taskVars, feedVars, staleness, pp, reaping, mon, got, local, version,
                 stopping, lastCkpt, model, disk, resets, doubled, crashes>>

\* Mutants: the count goes on, or only the queue is counted.
KeepCount == staleness

RecountQueue == GetQueueSize

\* active_tasks only changes under the lock, so its length is still the one taken before
\* the await.
Recount == Cardinality(Active) + GetQueueSize

ResetEnd ==
  /\ tp = "reset"
  /\ staleness' = Recount
  /\ lock' = "free"
  /\ resets' = resets + 1
  /\ doubled' = Cardinality(ended)
  /\ tp' = IF ShouldSave(version, stopping) THEN "save" ELSE IF stopping THEN "end" ELSE "get"
  /\ UNCHANGED <<mqVars, taskVars, feedVars, paused, pp, reaping, mon, got, local, version,
                 stopping, lastCkpt, model, disk, crashes>>

\* fit after its loop: one more synchronisation unless the last version was validated.
FinalSync ==
  /\ tp = "final"
  /\ tp' = IF version % TestFreq # 0 /\ local = 1 THEN "sync"
           ELSE IF ShouldSave(version, TRUE) THEN "save" ELSE "end"
  /\ UNCHANGED <<mqVars, taskVars, feedVars, pauseVars, pp, reaping, mon, got, local, version,
                 stopping, lastCkpt, model, disk, resets, doubled, crashes>>

\* _save_checkpoint: the actor, the rollouter's dataloader, then the tracker.  The folder
\* is not read before the tracker names it, and the weights do not change meanwhile.
SaveCheckpoint ==
  /\ tp = "save"
  /\ disk' = [version |-> version, model |-> model, fed |-> Yielded]
  /\ lastCkpt' = version
  /\ tp' = IF stopping THEN "end" ELSE "get"
  /\ UNCHANGED <<mqVars, taskVars, feedVars, pauseVars, pp, reaping, mon, got, local, version,
                 stopping, model, resets, doubled, crashes>>

\* _run_training_loop ends once both returned, and clears the queue.
EndOfTraining ==
  /\ tp = "end" /\ pp = "finished"
  /\ ClearQueue
  /\ tp' = "done"
  /\ UNCHANGED <<taskVars, feedVars, pauseVars, pp, reaping, mon, got, local, version,
                 stopping, lastCkpt, model, disk, resets, doubled, crashes>>

-----------------------------------------------------------------------------
\* The batches the dataloader has left when it is restored at position p: total_epochs
\* epochs, the first from where it stands in its own.
Left(p) == Epochs * EpochSize - (IF p = 0 THEN 0 ELSE ((p - 1) % EpochSize) + 1)

\* The job dies and starts again: both sides load the checkpoint of the tracker.  The
\* rollouter computes its step from the version, and feeds at least one sample if there is
\* one.
FeedsAfter(v, p) == Min({Max({1, TotalRolloutSteps - v * PerVersion}), Left(p)})

\* Mutant: the position is computed from the version.
ResumeAtVersion == disk.version * PerVersion

\* load_state_dict of data.pt.
ResumePosition == disk.fed

CrashAndLoad ==
  /\ crashes < MaxCrashes /\ tp # "done"
  /\ crashes' = crashes + 1
  /\ queue' = <<>> /\ dropped' = {}
  /\ running' = {} /\ ended' = {} /\ failed' = {}
  /\ base' = ResumePosition /\ fed' = ResumePosition /\ taken' = ResumePosition
  /\ last' = ResumePosition + FeedsAfter(disk.version, ResumePosition)
  /\ staleness' = 0 /\ paused' = FALSE /\ lock' = "free"
  /\ pp' = "ask" /\ reaping' = {} /\ mon' = "idle"
  /\ tp' = "get" /\ got' = {} /\ local' = 1 /\ stopping' = FALSE /\ resets' = 0 /\ doubled' = 0
  /\ version' = disk.version /\ lastCkpt' = disk.version /\ model' = disk.model
  /\ UNCHANGED <<disk, faults>>

\* Nothing is left to do.
Done ==
  /\ tp = "done" /\ running = {}
  /\ UNCHANGED vars

Processor ==
  \/ AskQueue \/ DecidePause \/ Pause \/ DrainWake \/ DrainReap \/ DrainResume
  \/ TakeSample \/ WaitForTask \/ ReapInLock \/ SubmitSample \/ FinishRollout

Monitor == MonitorAsk \/ MonitorDecide \/ MonitorResume

Trainer ==
  \/ GetOneSample \/ TrainStep \/ ResetBegin \/ ResetEnd \/ FinalSync \/ SaveCheckpoint
  \/ EndOfTraining

Task(s) == FinishSample(s) \/ FailSample(s)

Next ==
  \/ FeedSamples \/ Processor \/ Monitor \/ Trainer
  \/ \E s \in running : Task(s)
  \/ CrashAndLoad \/ Done

Spec == Init /\ [][Next]_vars

-----------------------------------------------------------------------------
PC == {"ask", "room", "pausing", "drain", "reap", "take", "slot", "end", "crashed", "finished"}
TP == {"get", "train", "sync", "reset", "final", "save", "end", "done"}

\* The variables have the values their fields can have, and the positions in the stream
\* of samples are ordered.
TypeOK ==
  /\ MqTypeOK
  /\ base \in Nat /\ last \in Nat /\ fed \in 0..(last + 1) /\ taken \in 0..fed
  /\ running \subseteq 1..taken /\ ended \subseteq 1..taken /\ failed \subseteq 1..taken
  /\ staleness \in Nat /\ paused \in BOOLEAN /\ lock \in {"free", "processor", "reset"}
  /\ pp \in PC /\ reaping \subseteq ended \cup failed
  /\ mon \in {"idle", "room", "resuming"}
  /\ tp \in TP /\ got \subseteq 1..taken /\ Cardinality(got) <= RequiredSamples
  /\ local \in 1..SyncSteps /\ version \in Nat /\ stopping \in BOOLEAN /\ lastCkpt \in 0..version
  /\ model \subseteq 1..taken
  /\ disk \in [version : 0..version, model : SUBSET (1..taken), fed : 0..last]
  /\ resets \in Nat /\ doubled \in Nat /\ faults \in 0..MaxFaults /\ crashes \in 0..MaxCrashes

\* The sample the processor holds between pending_queue.get and create_task.
InHand == IF pp = "slot" THEN {taken} ELSE {}

Queued == {x \in {queue[i] : i \in DOMAIN queue} : x # EndMarker}

\* Samples that were started and not yet consumed, of this job.
Outstanding == InHand \cup running \cup Queued

\* Freshness control (max_required_samples): the samples ahead of the trainer never
\* exceed max_required_samples by more than the one sample that a reset_staleness cannot
\* see, in the processor's hand, whatever resets, pauses and finishing tasks do.
OutstandingBound == Cardinality(Outstanding) <= MaxQueueSize + 1

\* What docs/advance/fully_async.md says of staleness_threshold ("Rollouter will generate at
\* most the following number of samples between two parameter updates": max_required_samples
\* less those left over from before): what was left over and what was generated since, so
\* also what is outstanding of them, is at most max_required_samples.
DocumentedBound == Cardinality(Outstanding) <= MaxQueueSize

\* put_sample drops a sample only for that extra one: not more often than
\* reset_staleness was called.  The None that ends the trainer's loop is never dropped,
\* not even when a task failed and others put their samples behind it.
DropsBound == Cardinality(dropped) <= resets /\ EndMarker \notin dropped

\* A sample is in one place at a time, and what was trained on is never trained on again,
\* also after a restart from a checkpoint (the dataloader's state is at least as far as
\* the weights).
TrainedOnce ==
  /\ model \cap (got \cup Outstanding) = {}
  /\ got \cap Outstanding = {}
  /\ \A s \in disk.model : s <= disk.fed

\* While the processor lives, every sample it took since the last start is in someone's
\* hands, in the weights, or was dropped from the full queue: pauses, early resumes and
\* reaped tasks lose none.  What a restart skips (the WARNING of save_checkpoint) is not
\* among them.
NothingLost ==
  pp \notin {"crashed", "finished"} =>
    (base + 1)..Min({taken, last}) \subseteq model \cup got \cup Outstanding \cup failed \cup dropped

\* Rollouter and trainer wait for one another: the trainer finds the queue empty, and the
\* rollouter stays paused with nothing in progress because staleness_samples counts samples
\* that are gone.
Stuck ==
  /\ tp = "get" /\ queue = <<>>
  /\ pp = "drain" /\ paused /\ Active = {} /\ staleness >= MaxQueueSize

\* Only one thing gets them there: a reset_staleness that counts finished tasks a second
\* time, besides their samples in the queue, and more of them than max_required_samples
\* leaves beyond one version.  A staleness_threshold of 0 leaves none.
StuckByDoubleCount == Stuck => doubled > MaxQueueSize - PerVersion

\* The processes go on and generations end.
FairSpec ==
  /\ Spec
  /\ WF_vars(FeedSamples) /\ WF_vars(Processor) /\ WF_vars(Monitor) /\ WF_vars(Trainer)
  /\ WF_vars(\E s \in running : Task(s))

\* Neither pauses that overtake a resume, nor failed tasks, nor a restart leave rollouter
\* and trainer waiting: the job ends, unless they are stuck.
JobEnds == <>(tp = "done" \/ Stuck)
=============================================================================
