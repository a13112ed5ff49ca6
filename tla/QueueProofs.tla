---------------------------- MODULE QueueProofs -----------------------------
(***************************************************************************)
(* Proofs about the trajectories that AsyncPPO's workers leave in the      *)
(* TransferQueue: who may still write one, which of them an update reads,  *)
(* and which stay behind; about the checkpoints that the tracker names;    *)
(* and that the parts together implement SampleLedger.                     *)
(***************************************************************************)
EXTENDS AsyncPPOProofs

-----------------------------------------------------------------------------
(* The inductive invariant. *)

\* A process that has just started, and one that has restored the queue, runs no task.
StartInv ==
  /\ pc = "load" => /\ pos = 0 /\ trained = {}
                    /\ \A u \in Item : /\ status[u] = "absent" /\ born[u] = 0
                                       /\ \A s \in Session : traj[u][s] = 0
  /\ pc \in {"load", "reissue"} =>
       \A u \in Item : /\ task[u] = "none" /\ job[u] = 0
                       /\ \A s \in Session : sess[u][s] = "idle"
  /\ pc \in {"load", "reissue", "warmup", "feed", "done"} => batch = {}

\* A session runs under its gather or after a sibling's failure, and with the
\* global_steps of its dispatch.
SessInv ==
  \A u \in Item :
    /\ task[u] # "none" => job[u] # 0
    /\ \A s \in Session :
         /\ sess[u][s] = "run" => job[u] # 0 /\ (task[u] = "gather" \/ u \in failed)
         /\ sess[u][s] = "err" => u \in failed

\* The metadata m of a queue that has seen the first p items: every key was fetched, a
\* prompt has a global_steps tag, and the trajectories of a prompt carry the same one.
Sound(m, p) ==
  \A u \in Item :
    /\ m.status[u] # "absent" <=> m.born[u] # 0
    /\ m.status[u] # "absent" => u <= p
    /\ \A s \in Session :
         m.traj[u][s] # 0 => /\ u <= p
                             /\ m.status[u] # "absent" => m.traj[u][s] = m.born[u]

\* The trajectories of a dispatched group come from that dispatch.
JobInv ==
  \A u \in Item :
    job[u] # 0 => /\ u <= pos
                  /\ status[u] # "absent" => job[u] = born[u]
                  /\ \A s \in Session : traj[u][s] \in {0, job[u]}

\* So is the metadata in the folder being written and in the one the tracker names.
DiskSound ==
  /\ pc \in {"tq", "tracker"} => disk[gs].pos = pos
  /\ TqCheckpoint /\ pc = "tracker" => disk[gs].meta.born = born /\ Sound(disk[gs].meta, pos)
  /\ TqCheckpoint /\ tracker # 0 => Sound(disk[tracker].meta, disk[tracker].pos)

\* The terminal groups of the sampler's snapshot have kept their tags, and gain
\* trajectories only from the siblings of a failed session.
SnapSound ==
  \A u \in Terminal(snap) :
    /\ born[u] = snap.born[u]
    /\ \A s \in Session :
         /\ snap.traj[u][s] # 0 => traj[u][s] # 0
         /\ snap.traj[u][s] = 0 /\ traj[u][s] # 0 => u \in failed

\* The trajectories of the step: their groups have left the queue, they have not.
BatchInv ==
  \A k \in batch : status[k[1]] = "absent" /\ k[1] <= pos /\ traj[k[1]][k[2]] # 0

QueueInv ==
  /\ StartInv /\ SessInv /\ Sound(Queue, pos) /\ JobInv /\ DiskSound /\ SnapSound /\ BatchInv

-----------------------------------------------------------------------------
(* What a step does to the queue and to the workers. *)

\* A worker writes to its own group only: a trajectory with the global_steps of its
\* dispatch, and only from a session that runs.
LEMMA WorkerEffect ==
  ASSUME TypeOK, NEW u \in Item, Worker(u)
  PROVE  /\ UNCHANGED <<born, job, pc, gs, pos, snap, taken, batch, trained, dropped, disk,
                        tracker, base>>
         /\ failed \subseteq failed'
         /\ \A v \in Item : v # u => /\ status'[v] = status[v] /\ task'[v] = task[v]
                                     /\ sess'[v] = sess[v] /\ traj'[v] = traj[v]
         /\ task'[u] # "none" => task[u] # "none"
         /\ \A s \in Session :
              /\ traj'[u][s] = traj[u][s] \/ (sess[u][s] = "run" /\ traj'[u][s] = job[u])
              /\ sess'[u][s] = "run" =>
                   \/ sess[u][s] = "run" /\ task'[u] = task[u]
                   \/ sess[u][s] = "run" /\ \E r \in Session : sess[u][r] = "err"
                   \/ task[u] = "queued" /\ task'[u] = "gather"
              /\ sess'[u][s] = "err" => sess[u][s] = "err" \/ u \in failed'
<1> USE DEF TypeOK, tqVars, workerVars, bufferVars, diskVars, ghostVars
<1>1. CASE StartPrompt(u)
  BY <1>1 DEF StartPrompt
<1>2. CASE \E s \in Session : SessionEnd(u, s)
  BY <1>2 DEF SessionEnd, Ended
<1>3. CASE \E s \in Session : SessionEmpty(u, s)
  BY <1>3 DEF SessionEmpty, Ended
<1>4. CASE \E s \in Session : SessionFail(u, s)
  BY <1>4 DEF SessionFail, Ended
<1>5. CASE PromptFinished(u)
  BY <1>5, SessionAssumption DEF PromptFinished, LeftRunning, GatherReturns
<1>6. CASE PromptFailure(u)
  BY <1>6 DEF PromptFailure, LeftRunning, GatherRaises
<1> QED
  BY <1>1, <1>2, <1>3, <1>4, <1>5, <1>6 DEF Worker

\* Feeding changes only groups beyond the dataloader's position: they become pending
\* groups of the current step.
LEMMA FeedEffect ==
  ASSUME TypeInv, Warmup \/ Feed \/ Refill
  PROVE  /\ gs # 0 /\ gs' = gs /\ pc \notin {"load", "reissue"} /\ pos <= pos' /\ pos' \in Nat
         /\ UNCHANGED <<traj, sess, snap, taken, batch, trained, dropped, disk, tracker,
                        failed, base, crashes>>
         /\ pc' \notin {"load", "reissue", "decide", "train", "tq", "tracker"}
         /\ \A u \in Item :
              \/ /\ status'[u] = status[u] /\ born'[u] = born[u]
                 /\ task'[u] = task[u] /\ job'[u] = job[u]
              \/ /\ pos < u /\ u <= pos'
                 /\ status'[u] = "pending" /\ born'[u] = gs
                 /\ task'[u] = "queued" /\ job'[u] = gs
<1>1. /\ pc \in {"warmup", "feed", "refill"} /\ gs' = gs
      /\ pc' \in {"warmup", "feed", "poll"}
      /\ UNCHANGED <<snap, taken, batch, trained, dropped, disk, tracker, failed, base, crashes>>
  BY DEF Warmup, Feed, Refill, bufferVars, diskVars, ghostVars
<1>2. gs # 0 /\ pos \in Nat
  BY <1>1 DEF TypeInv, TypeOK, StepInv
<1>3. \/ UNCHANGED <<status, born, traj, task, sess, job, pos>>
      \/ \E n \in Nat : AddPrompts(n)
  BY TrainBatchNat DEF Warmup, Feed, Refill, tqVars, workerVars, TypeInv, TypeOK
<1>4. CASE UNCHANGED <<status, born, traj, task, sess, job, pos>>
  BY <1>1, <1>2, <1>4
<1>5. ASSUME NEW n \in Nat, AddPrompts(n)
      PROVE  /\ pos' = pos + n /\ UNCHANGED <<traj, sess>>
             /\ \A u \in Item :
                  \/ /\ status'[u] = status[u] /\ born'[u] = born[u]
                     /\ task'[u] = task[u] /\ job'[u] = job[u]
                  \/ /\ u \in pos + 1 .. pos + n
                     /\ status'[u] = "pending" /\ born'[u] = gs
                     /\ task'[u] = "queued" /\ job'[u] = gs
  BY <1>5 DEF AddPrompts, Dispatch, Fetched
<1>6. CASE \E n \in Nat : AddPrompts(n)
  BY <1>1, <1>2, <1>5, <1>6 DEF Item
<1> QED
  BY <1>3, <1>4, <1>6

-----------------------------------------------------------------------------
(* The parts of the inductive invariant. *)

\* Only the trainer's own steps leave the start, and the first of them finds no batch.
LEMMA StartNext ==
  ASSUME TypeInv, StartInv, SessInv, [Next]_vars
  PROVE  StartInv'
<1> USE DEF TypeInv, TypeOK, StartInv
<1>1. CASE Quiet
  BY <1>1 DEF Quiet, TrainEnd, SyncMetadata, SleepPoll, BalanceFails, UpdateActor,
     EnsureCapacity, SaveActor, SaveDataloader, SaveTransferQueue, WriteTracker
<1>2. CASE LoadCheckpoint
  BY <1>2 DEF LoadCheckpoint, workerVars
<1>3. CASE ReissueInflight
  BY <1>3 DEF ReissueInflight
<1>4. CASE Warmup
  BY <1>4 DEF Warmup
<1>5. CASE Feed \/ Refill \/ DropStale \/ SelectBatch
  BY <1>5 DEF Feed, Refill, DropStale, SelectBatch
<1>6. CASE StepEnd
  BY <1>6 DEF StepEnd
<1>7. CASE Crash
  BY <1>7 DEF Crash, EmptyMeta
<1>8. CASE \E u \in Item : Worker(u)
  <2> PICK u \in Item : Worker(u)
    BY <1>8
  <2>1. task[u] # "none" \/ \E s \in Session : sess[u][s] = "run"
    BY DEF Worker, StartPrompt, SessionEnd, SessionEmpty, SessionFail, PromptFinished,
       PromptFailure
  <2>2. pc \notin {"load", "reissue"}
    BY <2>1
  <2> QED
    BY <2>2, WorkerEffect
<1>9. CASE UNCHANGED vars
  BY <1>9 DEF vars, tqVars, workerVars
<1> QED
  BY <1>1, <1>2, <1>3, <1>4, <1>5, <1>6, <1>7, <1>8, <1>9, NextCases

\* Sessions that outlive their gather belong to groups with a failure.
LEMMA SessNext ==
  ASSUME TypeInv, StartInv, SessInv, JobInv, [Next]_vars
  PROVE  SessInv'
<1> USE DEF TypeInv, TypeOK, SessInv
<1>1. CASE Quiet
  BY <1>1, QuietStep DEF Quiet, TrainEnd, SyncMetadata, SleepPoll, BalanceFails, UpdateActor,
     EnsureCapacity, SaveActor, SaveDataloader, SaveTransferQueue, WriteTracker,
     workerVars, ghostVars
<1>2. CASE LoadCheckpoint
  BY <1>2 DEF LoadCheckpoint, workerVars
<1>3. CASE ReissueInflight
  <2>1. gs + 1 # 0 /\ UNCHANGED <<sess, failed>>
    BY <1>3 DEF ReissueInflight, ghostVars
  <2> QED
    BY <1>3, <2>1 DEF ReissueInflight, StartInv
<1>4. CASE Warmup \/ Feed \/ Refill
  <2>1. \A u \in Item : job[u] # 0 => ~ (pos < u)
    BY DEF JobInv, Item
  <2> QED
    BY <1>4, <2>1, FeedEffect
<1>5. CASE DropStale \/ SelectBatch \/ StepEnd
  BY <1>5 DEF DropStale, SelectBatch, StepEnd, workerVars, ghostVars
<1>7. CASE Crash
  BY <1>7 DEF Crash
<1>8. CASE \E u \in Item : Worker(u)
  <2> PICK u \in Item : Worker(u)
    BY <1>8
  <2>1. job' = job /\ failed \subseteq failed'
    BY WorkerEffect
  <2>2. ASSUME NEW v \in Item, v # u
        PROVE  task'[v] = task[v] /\ sess'[v] = sess[v]
    BY <2>2, WorkerEffect
  <2>3. task'[u] # "none" => job[u] # 0
    BY WorkerEffect
  <2>4. ASSUME NEW s \in Session
        PROVE  /\ sess'[u][s] = "run" => job[u] # 0 /\ (task'[u] = "gather" \/ u \in failed')
               /\ sess'[u][s] = "err" => u \in failed'
    <3>1. CASE \E r \in Session : sess[u][r] = "err"
      <4>1. u \in failed'
        BY <2>1, <3>1
      <4>2. sess'[u][s] = "run" => sess[u][s] = "run" \/ task[u] = "queued"
        BY WorkerEffect
      <4> QED
        BY <4>1, <4>2
    <3>2. CASE ~ \E r \in Session : sess[u][r] = "err"
      <4>1. sess'[u][s] = "run" => \/ sess[u][s] = "run" /\ task'[u] = task[u]
                                   \/ task[u] = "queued" /\ task'[u] = "gather"
        BY <3>2, WorkerEffect
      <4>2. sess'[u][s] = "err" => u \in failed'
        BY <3>2, WorkerEffect
      <4> QED
        BY <2>1, <4>1, <4>2
    <3> QED
      BY <3>1, <3>2
  <2> QED
    BY <2>1, <2>2, <2>3, <2>4
<1>9. CASE UNCHANGED vars
  BY <1>9 DEF vars, workerVars, ghostVars
<1> QED
  BY <1>1, <1>2, <1>3, <1>4, <1>5, <1>7, <1>8, <1>9, NextCases

\* The queue only holds keys of fetched items, and the tags of a group agree.
LEMMA SoundNext ==
  ASSUME TypeInv, WorkerInv, StartInv, SessInv, JobInv, DiskSound, Sound(Queue, pos), [Next]_vars
  PROVE  Sound(Queue, pos)'
<1> DEFINE P(u) ==
      /\ status[u] # "absent" <=> born[u] # 0
      /\ status[u] # "absent" => u <= pos
      /\ \A s \in Session :
           traj[u][s] # 0 => u <= pos /\ (status[u] # "absent" => traj[u][s] = born[u])
<1>0. \A u \in Item : P(u)
  BY DEF Sound, Queue
<1> SUFFICES \A u \in Item : P(u)'
  BY DEF Sound, Queue
<1>t. TypeOK /\ pos \in Nat
  BY DEF TypeInv, TypeOK
<1>1. CASE Quiet
  <2>1. UNCHANGED <<status, born, traj, pos>>
    BY <1>1 DEF Quiet, TrainEnd, SyncMetadata, SleepPoll, BalanceFails, UpdateActor,
       EnsureCapacity, SaveActor, SaveDataloader, SaveTransferQueue, WriteTracker, tqVars
  <2> QED
    BY <1>0, <2>1
<1>2. CASE LoadCheckpoint
  <2>1. CASE tracker = 0 \/ ~ TqCheckpoint
    <3>1. UNCHANGED <<status, born, traj>> /\ pc = "load"
      BY <1>2, <2>1 DEF LoadCheckpoint, tqVars
    <3> QED
      BY <3>1 DEF StartInv
  <2>2. CASE tracker # 0 /\ TqCheckpoint
    <3> DEFINE f == disk[tracker]
    <3>1. /\ status' = f.meta.status /\ born' = f.meta.born /\ traj' = f.meta.traj
          /\ pos' = f.pos
      BY <1>2, <2>2 DEF LoadCheckpoint
    <3>2. Sound(f.meta, f.pos)
      BY <2>2 DEF DiskSound
    <3> HIDE DEF f
    <3> QED
      BY <3>1, <3>2 DEF Sound
  <2> QED
    BY <2>1, <2>2
<1>3. CASE ReissueInflight
  <2> SUFFICES ASSUME NEW u \in Item PROVE P(u)'
    OBVIOUS
  <2>1. gs + 1 # 0 /\ pos' = pos
    BY <1>3, <1>t DEF ReissueInflight, TypeOK
  <2>2. CASE u \in InflightUids
    <3>1. status[u] # "absent"
      BY <2>2 DEF InflightUids, InFlight, Queue
    <3>2. status'[u] = "pending" /\ born'[u] = gs + 1 /\ \A s \in Session : traj'[u][s] = 0
      BY <1>3, <2>2 DEF ReissueInflight, ClearOldTrajectories
    <3> QED
      BY <1>0, <2>1, <3>1, <3>2
  <2>3. CASE u \notin InflightUids
    <3>1. /\ status'[u] = status[u] /\ born'[u] = born[u]
          /\ \A s \in Session : traj'[u][s] = traj[u][s]
      BY <1>3, <2>3 DEF ReissueInflight, ClearOldTrajectories
    <3> QED
      BY <1>0, <2>1, <3>1
  <2> QED
    BY <2>2, <2>3
<1>4. CASE Warmup \/ Feed \/ Refill
  <2> SUFFICES ASSUME NEW u \in Item PROVE P(u)'
    OBVIOUS
  <2>1. gs # 0 /\ pos <= pos' /\ pos' \in Nat /\ traj' = traj /\ u \in Nat
    BY <1>4, FeedEffect DEF Item
  <2>2. CASE status'[u] = status[u] /\ born'[u] = born[u]
    BY <1>0, <1>t, <2>1, <2>2
  <2>3. CASE pos < u /\ u <= pos' /\ status'[u] = "pending" /\ born'[u] = gs
    <3>1. \A s \in Session : traj[u][s] = 0
      BY <1>0, <1>t, <2>1, <2>3
    <3> QED
      BY <2>1, <2>3, <3>1
  <2> QED
    BY <1>4, <2>2, <2>3, FeedEffect
<1>5. CASE \E S, K : KvClear(S, K) /\ pos' = pos
  <2> PICK S, K : KvClear(S, K) /\ pos' = pos
    BY <1>5
  <2> SUFFICES ASSUME NEW u \in Item PROVE P(u)'
    OBVIOUS
  <2>1. /\ status'[u] = IF u \in S THEN "absent" ELSE status[u]
        /\ born'[u] = IF u \in S THEN 0 ELSE born[u]
        /\ \A s \in Session : traj'[u][s] = IF <<u, s>> \in K THEN 0 ELSE traj[u][s]
    BY DEF KvClear
  <2> QED
    BY <1>0, <2>1
<1>6. CASE Crash
  BY <1>6 DEF Crash, EmptyMeta
<1>7. CASE \E u \in Item : Worker(u)
  <2> PICK u \in Item : Worker(u)
    BY <1>7
  <2> SUFFICES ASSUME NEW v \in Item PROVE P(v)'
    OBVIOUS
  <2>1. UNCHANGED <<born, pos>> /\ (status'[v] # "absent" <=> status[v] # "absent")
    BY <1>t, WorkerStep
  <2>2. ASSUME NEW s \in Session
        PROVE  traj'[v][s] # traj[v][s] =>
                 /\ v <= pos
                 /\ status[v] # "absent" => traj'[v][s] = born[v]
    <3>1. traj'[v][s] # traj[v][s] =>
            v = u /\ sess[u][s] = "run" /\ traj'[u][s] = job[u]
      BY <1>t, WorkerEffect
    <3> QED
      BY <3>1 DEF SessInv, JobInv
  <2> QED
    BY <1>0, <2>1, <2>2
<1>8. CASE UNCHANGED vars
  BY <1>0, <1>8 DEF vars, tqVars
<1>9. CASE DropStale \/ SelectBatch \/ StepEnd
  BY <1>5, <1>9 DEF DropStale, SelectBatch, StepEnd
<1> QED
  BY <1>1, <1>2, <1>3, <1>4, <1>6, <1>7, <1>8, <1>9, NextCases

\* The trajectories of a dispatched group come from that dispatch: a group is dispatched
\* when it has none.
LEMMA JobNext ==
  ASSUME TypeInv, WorkerInv, StartInv, SessInv, JobInv, Sound(Queue, pos), [Next]_vars
  PROVE  JobInv'
<1> DEFINE P(u) ==
      job[u] # 0 => /\ u <= pos
                    /\ status[u] # "absent" => job[u] = born[u]
                    /\ \A s \in Session : traj[u][s] \in {0, job[u]}
<1>0. \A u \in Item : P(u)
  BY DEF JobInv
<1> SUFFICES \A u \in Item : P(u)'
  BY DEF JobInv
<1>t. TypeOK /\ pos \in Nat
  BY DEF TypeInv, TypeOK
<1>1. CASE Quiet
  <2>1. UNCHANGED <<status, born, traj, job, pos>>
    BY <1>1 DEF Quiet, TrainEnd, SyncMetadata, SleepPoll, BalanceFails, UpdateActor,
       EnsureCapacity, SaveActor, SaveDataloader, SaveTransferQueue, WriteTracker, tqVars,
       workerVars
  <2> QED
    BY <1>0, <2>1
<1>2. CASE LoadCheckpoint
  BY <1>2 DEF LoadCheckpoint, StartInv, workerVars
<1>3. CASE ReissueInflight
  <2> SUFFICES ASSUME NEW u \in Item PROVE P(u)'
    OBVIOUS
  <2>1. pos' = pos /\ job[u] = 0
    BY <1>3 DEF ReissueInflight, StartInv
  <2>2. CASE u \in InflightUids
    <3>1. status[u] # "absent"
      BY <2>2 DEF InflightUids, InFlight, Queue
    <3>2. u <= pos
      BY <3>1 DEF Sound, Queue
    <3>3. job'[u] = gs + 1 /\ born'[u] = gs + 1 /\ \A s \in Session : traj'[u][s] = 0
      BY <1>3, <1>t, <2>2 DEF ReissueInflight, ClearOldTrajectories, TypeOK
    <3> QED
      BY <2>1, <3>2, <3>3
  <2>3. CASE u \notin InflightUids
    BY <1>3, <2>1, <2>3 DEF ReissueInflight
  <2> QED
    BY <2>2, <2>3
<1>4. CASE Warmup \/ Feed \/ Refill
  <2> SUFFICES ASSUME NEW u \in Item PROVE P(u)'
    OBVIOUS
  <2>1. gs # 0 /\ pos <= pos' /\ pos' \in Nat /\ traj' = traj /\ u \in Nat
    BY <1>4, FeedEffect DEF Item
  <2>2. CASE status'[u] = status[u] /\ born'[u] = born[u] /\ job'[u] = job[u]
    BY <1>0, <1>t, <2>1, <2>2
  <2>3. CASE pos < u /\ u <= pos' /\ born'[u] = gs /\ job'[u] = gs
    <3>1. \A s \in Session : traj[u][s] = 0
      BY <1>t, <2>1, <2>3 DEF Sound, Queue
    <3> QED
      BY <2>1, <2>3, <3>1
  <2> QED
    BY <1>4, <2>2, <2>3, FeedEffect
<1>5. CASE \E S, K : KvClear(S, K) /\ pos' = pos /\ job' = job
  <2> PICK S, K : KvClear(S, K) /\ pos' = pos /\ job' = job
    BY <1>5
  <2> SUFFICES ASSUME NEW u \in Item PROVE P(u)'
    OBVIOUS
  <2>1. /\ status'[u] = IF u \in S THEN "absent" ELSE status[u]
        /\ born'[u] = IF u \in S THEN 0 ELSE born[u]
        /\ \A s \in Session : traj'[u][s] = IF <<u, s>> \in K THEN 0 ELSE traj[u][s]
    BY DEF KvClear
  <2> QED
    BY <1>0, <2>1
<1>6. CASE Crash
  BY <1>6 DEF Crash
<1>7. CASE \E u \in Item : Worker(u)
  <2> PICK u \in Item : Worker(u)
    BY <1>7
  <2> SUFFICES ASSUME NEW v \in Item PROVE P(v)'
    OBVIOUS
  <2>1. /\ UNCHANGED <<born, pos, job>>
        /\ status'[v] # "absent" <=> status[v] # "absent"
    BY <1>t, WorkerStep, WorkerEffect
  <2>2. \A s \in Session : traj'[v][s] = traj[v][s] \/ traj'[v][s] = job[v]
    BY <1>t, WorkerEffect
  <2> QED
    BY <1>0, <2>1, <2>2
<1>8. CASE UNCHANGED vars
  BY <1>0, <1>8 DEF vars, tqVars, workerVars
<1>9. CASE DropStale \/ SelectBatch \/ StepEnd
  BY <1>5, <1>9 DEF DropStale, SelectBatch, StepEnd, workerVars
<1> QED
  BY <1>1, <1>2, <1>3, <1>4, <1>6, <1>7, <1>8, <1>9, NextCases

\* The trajectories of the step stay in the queue until the step ends: the groups that
\* are dropped meanwhile are others.
LEMMA BatchNext ==
  ASSUME TypeInv, WorkerInv, SnapInv, StartInv, SessInv, JobInv, SnapSound, BatchInv,
         Sound(Queue, pos), [Next]_vars
  PROVE  BatchInv'
<1>t. TypeOK /\ pos \in Nat /\ batch \in SUBSET Key
  BY DEF TypeInv, TypeOK
<1>k. \A k \in batch : k[1] \in Item /\ k[2] \in Session /\ k = <<k[1], k[2]>>
  BY <1>t DEF Key
<1>1. CASE Quiet
  <2>1. UNCHANGED <<status, traj, batch, pos>>
    BY <1>1 DEF Quiet, TrainEnd, SyncMetadata, SleepPoll, BalanceFails, UpdateActor,
       EnsureCapacity, SaveActor, SaveDataloader, SaveTransferQueue, WriteTracker, tqVars
  <2> QED
    BY <2>1 DEF BatchInv
<1>2. CASE LoadCheckpoint \/ ReissueInflight \/ Crash \/ StepEnd
  <2>1. batch' = {}
    BY <1>2 DEF LoadCheckpoint, ReissueInflight, Crash, StepEnd, StartInv
  <2> QED
    BY <2>1 DEF BatchInv
<1>4. CASE Warmup \/ Feed \/ Refill
  <2> SUFFICES ASSUME NEW k \in batch
               PROVE  status'[k[1]] = "absent" /\ k[1] <= pos' /\ traj'[k[1]][k[2]] # 0
    BY <1>4, FeedEffect DEF BatchInv
  <2>1. /\ k[1] \in Item /\ k[1] \in Nat
        /\ status[k[1]] = "absent" /\ k[1] <= pos /\ traj[k[1]][k[2]] # 0
    BY <1>k DEF BatchInv, Item
  <2>2. traj' = traj /\ pos <= pos' /\ pos' \in Nat
    BY <1>4, FeedEffect
  <2>3. status'[k[1]] = status[k[1]] \/ pos < k[1]
    BY <1>4, <2>1, FeedEffect
  <2> QED
    BY <1>t, <2>1, <2>2, <2>3
<1>5. CASE DropStale
  <2> DEFINE S == StaleKeys(gs, snap)
  <2>1. KvClear(S, TrajectoryKeys(snap, S)) /\ UNCHANGED <<batch, pos>>
    BY <1>5 DEF DropStale, DroppedKeys
  <2>2. \A u \in S : status[u] # "absent"
    BY <1>t, SampleableTerminal, TerminalHasNoTask
  <2> HIDE DEF S
  <2>3. \A k \in batch : k[1] \notin S
    BY <2>2 DEF BatchInv
  <2>4. \A k \in batch : <<k[1], k[2]>> \notin TrajectoryKeys(snap, S)
    BY <2>3 DEF TrajectoryKeys
  <2> QED
    BY <1>k, <2>1, <2>3, <2>4 DEF KvClear, BatchInv
<1>6. CASE SelectBatch
  <2>1. PICK S \in OldestFirst(gs, snap, SampleBatch) :
          KvClear(S, {}) /\ batch' = batch \cup TrajectoryKeys(snap, S)
    BY <1>6 DEF SelectBatch, SampledClears
  <2>2. S \subseteq Terminal(snap)
    BY SampleableTerminal DEF OldestFirst
  <2>3. \A u \in S : u \in Item /\ status[u] # "absent"
    BY <1>t, <2>2, TerminalHasNoTask
  <2>4. \A u \in Item : status'[u] = IF u \in S THEN "absent" ELSE status[u]
    BY <2>1 DEF KvClear
  <2>5. \A u \in Item, s \in Session : traj'[u][s] = traj[u][s]
    BY <2>1 DEF KvClear
  <2>6. pos' = pos
    BY <1>6 DEF SelectBatch
  <2>7. ASSUME NEW k \in TrajectoryKeys(snap, S)
        PROVE  status'[k[1]] = "absent" /\ k[1] <= pos /\ traj'[k[1]][k[2]] # 0
    <3>1. k[1] \in S /\ k[2] \in Session /\ snap.traj[k[1]][k[2]] # 0
      BY DEF TrajectoryKeys
    <3>2. traj[k[1]][k[2]] # 0
      BY <2>2, <3>1 DEF SnapSound
    <3>3. k[1] <= pos
      BY <2>3, <3>1 DEF Sound, Queue
    <3> QED
      BY <2>3, <2>4, <2>5, <3>1, <3>2, <3>3
  <2>8. ASSUME NEW k \in batch
        PROVE  status'[k[1]] = "absent" /\ k[1] <= pos /\ traj'[k[1]][k[2]] # 0
    BY <1>k, <2>4, <2>5 DEF BatchInv
  <2> QED
    BY <2>1, <2>6, <2>7, <2>8 DEF BatchInv
<1>7. CASE \E u \in Item : Worker(u)
  <2> PICK u \in Item : Worker(u)
    BY <1>7
  <2> SUFFICES ASSUME NEW k \in batch
               PROVE  status'[k[1]] = "absent" /\ k[1] <= pos /\ traj'[k[1]][k[2]] # 0
    BY <1>t, WorkerEffect DEF BatchInv
  <2>1. k[1] \in Item /\ k[2] \in Session
        /\ status[k[1]] = "absent" /\ k[1] <= pos /\ traj[k[1]][k[2]] # 0
    BY <1>k DEF BatchInv
  <2>2. status'[k[1]] = "absent"
    BY <1>t, <2>1, WorkerStep
  <2>3. traj'[k[1]][k[2]] # 0
    BY <1>t, <2>1, WorkerEffect DEF SessInv
  <2> QED
    BY <2>1, <2>2, <2>3
<1>8. CASE UNCHANGED vars
  BY <1>8 DEF vars, tqVars, BatchInv
<1> QED
  BY <1>1, <1>2, <1>4, <1>5, <1>6, <1>7, <1>8, NextCases

\* Between the snapshot and the decision only workers act, and they leave a terminal
\* group alone unless one of its sessions failed.
LEMMA SnapSoundNext ==
  ASSUME TypeInv, WorkerInv, SnapInv, SessInv, SnapSound, [Next]_vars
  PROVE  SnapSound'
<1>1. CASE SyncMetadata
  <2>1. snap' = Queue /\ UNCHANGED <<born, traj, status>>
    BY <1>1 DEF SyncMetadata, tqVars
  <2> QED
    BY <2>1 DEF SnapSound, Queue
<1>2. CASE \E u \in Item : Worker(u)
  <2> PICK u \in Item : Worker(u)
    BY <1>2
  <2>t. TypeOK
    BY DEF TypeInv
  <2>1. snap' = snap /\ born' = born /\ failed \subseteq failed'
    BY <2>t, WorkerEffect
  <2>2. ASSUME NEW v \in Terminal(snap), NEW s \in Session
        PROVE  \/ traj'[v][s] = traj[v][s]
               \/ traj'[v][s] # 0 /\ v \in failed
    <3>1. v \in Item /\ task[v] = "none"
      BY <2>t, TerminalHasNoTask
    <3>2. \/ traj'[v][s] = traj[v][s]
          \/ v = u /\ sess[u][s] = "run" /\ traj'[u][s] = job[u]
      BY <2>t, <3>1, WorkerEffect
    <3> QED
      BY <3>1, <3>2 DEF SessInv
  <2>3. ASSUME NEW v \in Terminal(snap)
        PROVE  /\ born'[v] = snap.born[v]
               /\ \A s \in Session :
                    /\ snap.traj[v][s] # 0 => traj'[v][s] # 0
                    /\ snap.traj[v][s] = 0 /\ traj'[v][s] # 0 => v \in failed'
    BY <2>1, <2>2 DEF SnapSound
  <2> QED
    BY <2>1, <2>3 DEF SnapSound, Terminal
<1>3. CASE UNCHANGED vars
  BY <1>3 DEF vars, tqVars, bufferVars, ghostVars, SnapSound, Terminal
<1>4. CASE ~ SyncMetadata /\ ~ (\E u \in Item : Worker(u)) /\ ~ UNCHANGED vars
  <2>1. pc' # "decide"
    BY <1>4 DEF Next, Trainer, Terminated, TrainEnd, SleepPoll, BalanceFails, UpdateActor,
       EnsureCapacity, SaveActor, SaveDataloader, SaveTransferQueue, WriteTracker,
       LoadCheckpoint, ReissueInflight, Warmup, Feed, DropStale, Refill, SelectBatch, StepEnd,
       Crash
  <2>2. snap' = EmptyMeta
    BY <2>1, SnapNext DEF SnapInv
  <2>3. Terminal(snap') = {}
    BY <2>2, TerminalEmpty
  <2> QED
    BY <2>3 DEF SnapSound
<1> QED
  BY <1>1, <1>2, <1>3, <1>4

\* Steps other than the ones that write it leave the metadata and the position of a
\* folder alone: the eviction only takes the actor away.
LEMMA FolderKept ==
  ASSUME TypeInv, WorkerInv, [Next]_vars, NEW g \in 1 .. TotalSteps,
         g = gs => ~ SaveDataloader /\ ~ SaveTransferQueue
  PROVE  disk'[g].pos = disk[g].pos /\ disk'[g].meta = disk[g].meta
<1>t. TypeOK /\ disk \in [1 .. TotalSteps -> Folder]
  BY DEF TypeInv, TypeOK
<1>r. ASSUME NEW G
      PROVE  /\ RemoveActor(G)[g].pos = disk[g].pos /\ RemoveActor(G)[g].meta = disk[g].meta
             /\ RemoveActor(G) \in [1 .. TotalSteps -> Folder]
  <2>1. disk[g] \in Folder
    BY <1>t
  <2>2. /\ RemoveActor(G)[g].pos = disk[g].pos
        /\ RemoveActor(G)[g].meta = disk[g].meta
    BY <2>1 DEF RemoveActor, Folder
  <2> QED
    BY <1>t, <2>2, RemoveActorType
<1>1. CASE SaveActor
  <2> DEFINE q == Append(saved, gs)
             D == RemoveActor(PathsOf(SubSeq(q, 1, RegisterCut(Len(q)))))
             f == AddActor(D[gs])
  <2>1. disk' = [D EXCEPT ![gs] = f]
    BY <1>1 DEF SaveActor
  <2>2. /\ D \in [1 .. TotalSteps -> Folder]
        /\ D[g].pos = disk[g].pos /\ D[g].meta = disk[g].meta
    BY <1>r
  <2> HIDE DEF D
  <2>3. gs \in 1 .. TotalSteps
    BY <1>1, SaveSteps
  <2>4. D[gs] \in Folder
    BY <2>2, <2>3
  <2>5. f.pos = D[gs].pos /\ f.meta = D[gs].meta
    BY <2>4 DEF AddActor, Folder
  <2> HIDE DEF f
  <2> QED
    BY <2>1, <2>2, <2>5
<1>2. CASE SaveDataloader \/ SaveTransferQueue
  BY <1>2, SaveSteps
<1>3. CASE EnsureCapacity
  BY <1>3, <1>r DEF EnsureCapacity
<1>4. CASE \E u \in Item : Worker(u)
  BY <1>4, <1>t, WorkerEffect
<1>5. CASE ~ SaveActor /\ ~ SaveDataloader /\ ~ SaveTransferQueue /\ ~ EnsureCapacity
           /\ ~ (\E u \in Item : Worker(u))
  <2>1. disk' = disk
    BY <1>5 DEF Next, Trainer, Terminated, TrainEnd, SyncMetadata, SleepPoll,
     BalanceFails, UpdateActor, LoadCheckpoint, ReissueInflight, Warmup, Feed, DropStale, Refill,
     SelectBatch, StepEnd, Crash, WriteTracker, vars, diskVars
  <2> QED
    BY <2>1
<1> QED
  BY <1>1, <1>2, <1>3, <1>4, <1>5

\* Which step moves the trainer into and through the last parts of a save.
LEMMA SavePc ==
  ASSUME TypeInv, [Next]_vars, ~ \E u \in Item : Worker(u), ~ UNCHANGED vars
  PROVE  /\ pc' = "tq" => SaveDataloader
         /\ pc' = "tracker" => SaveTransferQueue \/ (SaveDataloader /\ ~ TqCheckpoint)
         /\ tracker' = tracker \/ WriteTracker
BY DEF Next, Trainer, Terminated, TrainEnd, SyncMetadata, SleepPoll, BalanceFails, UpdateActor,
   EnsureCapacity, SaveActor, SaveDataloader, SaveTransferQueue, WriteTracker, LoadCheckpoint,
   ReissueInflight, Warmup, Feed, DropStale, Refill, SelectBatch, StepEnd, Crash, diskVars

\* A folder that the tracker names keeps metadata that was sound when it was written.
LEMMA DiskSoundNext ==
  ASSUME TypeInv, WorkerInv, TrackerInv, Sound(Queue, pos), DiskSound, [Next]_vars
  PROVE  DiskSound'
<1>t. TypeOK /\ tracker \in 0 .. TotalSteps
  BY DEF TypeInv, TypeOK
<1>1. ASSUME tracker # 0, tracker' = tracker, TqCheckpoint
      PROVE  Sound(disk'[tracker'].meta, disk'[tracker'].pos)
  <2>1. tracker \in 1 .. TotalSteps
    BY <1>1, <1>t, TrainerAssumption
  <2>2. tracker = gs => ~ SaveDataloader /\ ~ SaveTransferQueue
    BY <1>t DEF SaveDataloader, SaveTransferQueue, TrackerInv, TypeOK
  <2>3. disk'[tracker].meta = disk[tracker].meta /\ disk'[tracker].pos = disk[tracker].pos
    BY <2>1, <2>2, FolderKept
  <2> QED
    BY <1>1, <2>3 DEF DiskSound
<1>2. CASE \E u \in Item : Worker(u)
  <2>1. UNCHANGED <<pc, gs, pos, born, disk, tracker>>
    BY <1>2, <1>t, WorkerEffect
  <2>2. UNCHANGED disk[gs] /\ UNCHANGED disk[tracker]
    BY <2>1
  <2> QED
    BY <2>1, <2>2 DEF DiskSound, Sound
<1>3. CASE SaveDataloader
  <2>1. /\ disk'[gs].pos = pos /\ UNCHANGED <<gs, pos, tracker>>
        /\ pc' \in {"tq", "tracker"} /\ (TqCheckpoint => pc' # "tracker")
    BY <1>3, SaveSteps DEF SaveDataloader
  <2> QED
    BY <1>1, <2>1 DEF DiskSound, Sound
<1>4. CASE SaveTransferQueue
  <2>1. /\ disk'[gs].pos = disk[gs].pos /\ disk'[gs].meta = Queue
        /\ UNCHANGED <<gs, pos, tracker, born>> /\ pc = "tq" /\ pc' = "tracker"
    BY <1>4, SaveSteps DEF SaveTransferQueue, tqVars
  <2>2. disk[gs].pos = pos
    BY <2>1 DEF DiskSound
  <2>3. disk'[gs'].meta = Queue /\ disk'[gs'].pos = pos' /\ Queue.born = born'
    BY <2>1, <2>2 DEF Queue
  <2>4. Sound(disk'[gs'].meta, pos')
    BY <2>1, <2>3
  <2> QED
    BY <1>1, <2>1, <2>3, <2>4 DEF DiskSound, Sound
<1>5. CASE WriteTracker
  <2>1. pc = "tracker" /\ pc' = "step_end" /\ tracker' = gs /\ disk' = disk
    BY <1>5 DEF WriteTracker
  <2>2. /\ disk'[tracker'].pos = pos
        /\ TqCheckpoint => Sound(disk'[tracker'].meta, pos)
    BY <2>1 DEF DiskSound
  <2> QED
    BY <2>1, <2>2 DEF DiskSound, Sound
<1>6. CASE UNCHANGED vars
  <2>1. UNCHANGED <<pc, gs, pos, born, disk, tracker>>
    BY <1>6 DEF vars, tqVars, diskVars
  <2>2. UNCHANGED disk[gs] /\ UNCHANGED disk[tracker]
    BY <2>1
  <2> QED
    BY <2>1, <2>2 DEF DiskSound, Sound
<1>7. CASE /\ ~ (\E u \in Item : Worker(u)) /\ ~ UNCHANGED vars
           /\ ~ SaveDataloader /\ ~ SaveTransferQueue /\ ~ WriteTracker
  <2>1. pc' \notin {"tq", "tracker"} /\ tracker' = tracker
    BY <1>7, SavePc
  <2> QED
    BY <1>1, <2>1 DEF DiskSound, Sound
<1> QED
  BY <1>2, <1>3, <1>4, <1>5, <1>6, <1>7

-----------------------------------------------------------------------------
(* The theorems. *)

\* What the proofs about the queue rest on.
QueueInd ==
  /\ TypeInv /\ WorkerInv /\ SnapInv /\ TakenInv /\ TrackerInv
  /\ QueueInv

\* A process that has just started satisfies the invariant.
LEMMA QueueInit == Init => QueueInd
<1> SUFFICES ASSUME Init PROVE QueueInd
  OBVIOUS
<1>1. TypeInv /\ WorkerInv /\ SnapInv /\ TakenInv /\ TrackerInv
  BY IndInit DEF IndInv
<1>2. \A u \in Item : /\ status[u] = "absent" /\ born[u] = 0 /\ task[u] = "none" /\ job[u] = 0
                      /\ \A s \in Session : traj[u][s] = 0 /\ sess[u][s] = "idle"
  BY DEF Init, EmptyMeta
<1>3. pc = "load" /\ batch = {} /\ pos = 0 /\ trained = {} /\ tracker = 0 /\ snap = EmptyMeta
  BY DEF Init
<1>4. StartInv /\ SessInv /\ JobInv
  BY <1>2, <1>3 DEF StartInv, SessInv, JobInv
<1>5. Sound(Queue, pos)
  BY <1>2 DEF Sound, Queue
<1>6. DiskSound /\ BatchInv
  BY <1>3 DEF DiskSound, BatchInv
<1>7. SnapSound
  BY <1>3, TerminalEmpty DEF SnapSound
<1> QED
  BY <1>1, <1>4, <1>5, <1>6, <1>7 DEF QueueInd, QueueInv

\* Every step preserves it.
LEMMA QueueNext == QueueInd /\ [Next]_vars => QueueInd'
BY TypeNext, WorkerNext, SnapNext, TakenNext, TrackerNext, StartNext, SessNext, SoundNext,
   JobNext, DiskSoundNext, SnapSoundNext, BatchNext
DEF QueueInd, QueueInv

\* The invariant holds in every behaviour.
LEMMA QueueInvariant == Spec => []QueueInd
BY QueueInit, QueueNext, PTL DEF Spec

\* asyncio.gather without return_exceptions leaves the siblings of a failed session
\* running.  That is the only way a session outlives its place in the queue: no drop, no
\* sampling, no refill and no resume leaves one behind.
THEOREM LateWriters == Spec => []LateWriterOnlyAfterFailure
<1>1. QueueInd => LateWriterOnlyAfterFailure
  BY DEF QueueInd, QueueInv, SessInv, WorkerInv, LateWriterOnlyAfterFailure
<1> QED
  BY <1>1, QueueInvariant, PTL

\* The update can read its batch back: between the sampling of a trajectory and the end
\* of the step nothing clears it, neither the drops of the later polls of the step nor
\* the clearing of the prompt keys.
THEOREM BatchStaysStored == Spec => []BatchStored
<1>1. QueueInd => BatchStored
  BY DEF QueueInd, QueueInv, BatchInv, BatchStored
<1> QED
  BY <1>1, QueueInvariant, PTL

\* The trajectories of a group in an update stem from one dispatch: what a group
\* generated before a crash is cleared before it is dispatched again, and a late session
\* writes with the global_steps of the same dispatch.
THEOREM SingleAttempt == Spec => []OneAttempt
<1>1. ASSUME QueueInd, NEW k \in batch
      PROVE  job[k[1]] \in {0, traj[k[1]][k[2]]}
  <2>1. k[1] \in Item /\ k[2] \in Session
    BY <1>1 DEF QueueInd, TypeInv, TypeOK, Key
  <2>2. traj[k[1]][k[2]] # 0
    BY <1>1 DEF QueueInd, QueueInv, BatchInv
  <2> QED
    BY <1>1, <2>1, <2>2 DEF QueueInd, QueueInv, JobInv
<1>2. QueueInd => OneAttempt
  BY <1>1 DEF OneAttempt
<1> QED
  BY <1>2, QueueInvariant, PTL

\* The sampler looks at the tag of the prompt, and the update reads trajectories: their
\* tags agree when the group is selected, and late writers do not change them.
LEMMA FreshNext ==
  ASSUME QueueInd, FreshTraining, [Next]_vars
  PROVE  FreshTraining'
<1> SUFFICES ASSUME pc' = "train", Strategy = "drop",
                    NEW k \in batch', k[1] \in taken'
             PROVE  Span(gs', traj'[k[1]][k[2]]) <= Threshold
  BY DEF FreshTraining
<1>t. /\ TypeOK /\ TypeInv /\ WorkerInv /\ SnapInv /\ SessInv /\ JobInv /\ Sound(Queue, pos)
      /\ SnapSound /\ BatchInv
  BY DEF QueueInd, QueueInv, TypeInv
<1>k. \A j \in batch : j[1] \in Item /\ j[2] \in Session
  BY <1>t DEF TypeOK, Key
<1>1. CASE SelectBatch
  <2>1. PICK S \in OldestFirst(gs, snap, SampleBatch) :
          /\ KvClear(S, {}) /\ taken' = S
          /\ batch' = batch \cup TrajectoryKeys(snap, S)
    BY <1>1 DEF SelectBatch, SampledClears
  <2>2. S \subseteq SampleableTerminalKeys(gs, snap)
    BY DEF OldestFirst
  <2>3. k[1] \in S
    BY <2>1
  <2>4. k[1] \in Terminal(snap) /\ Span(gs, snap.born[k[1]]) <= Threshold
    BY <2>2, <2>3 DEF SampleableTerminalKeys
  <2>5. k[1] \in Item /\ status[k[1]] # "absent"
    BY <1>t, <2>4, TerminalHasNoTask
  <2>6. k \in TrajectoryKeys(snap, S)
    BY <1>t, <2>1, <2>5 DEF BatchInv
  <2>7. k[2] \in Session /\ snap.traj[k[1]][k[2]] # 0
    BY <2>6 DEF TrajectoryKeys
  <2>8. traj[k[1]][k[2]] # 0 /\ born[k[1]] = snap.born[k[1]]
    BY <1>t, <2>4, <2>7 DEF SnapSound
  <2>9. traj[k[1]][k[2]] = born[k[1]]
    BY <1>t, <2>5, <2>7, <2>8 DEF Sound, Queue
  <2>10. traj'[k[1]][k[2]] = traj[k[1]][k[2]]
    BY <2>1, <2>5, <2>7 DEF KvClear
  <2>11. gs' = gs
    BY <1>1 DEF SelectBatch
  <2> QED
    BY <2>4, <2>8, <2>9, <2>10, <2>11
<1>2. CASE \E u \in Item : Worker(u)
  <2> PICK u \in Item : Worker(u)
    BY <1>2
  <2>1. UNCHANGED <<pc, gs, taken, batch, job>>
    BY <1>t, WorkerEffect
  <2>2. k[1] \in Item /\ k[2] \in Session /\ traj[k[1]][k[2]] # 0
    BY <1>t, <1>k, <2>1 DEF BatchInv
  <2>3. \/ traj'[k[1]][k[2]] = traj[k[1]][k[2]]
        \/ /\ traj'[k[1]][k[2]] = job[k[1]] /\ sess[k[1]][k[2]] = "run"
    BY <1>t, <2>2, WorkerEffect
  <2>4. traj'[k[1]][k[2]] = traj[k[1]][k[2]]
    BY <1>t, <2>2, <2>3 DEF SessInv, JobInv
  <2> QED
    BY <2>1, <2>4 DEF FreshTraining
<1>3. CASE UNCHANGED vars
  BY <1>3 DEF vars, tqVars, FreshTraining
<1>4. CASE ~ SelectBatch /\ ~ (\E u \in Item : Worker(u)) /\ ~ UNCHANGED vars
  <2>1. pc' # "train"
    BY <1>4 DEF Next, Trainer, Terminated, TrainEnd, SyncMetadata, SleepPoll, BalanceFails,
       UpdateActor, EnsureCapacity, SaveActor, SaveDataloader, SaveTransferQueue, WriteTracker,
       LoadCheckpoint, ReissueInflight, Warmup, Feed, DropStale, Refill, StepEnd, Crash
  <2> QED
    BY <2>1
<1> QED
  BY <1>1, <1>2, <1>3, <1>4

\* Under "drop" no update is given a trajectory that spans more model versions than the
\* threshold, measured by the trajectory's own tag: in every interleaving of workers with
\* the sampler, and after every resume.
THEOREM TrainingIsFresh == Spec => []FreshTraining
<1>1. Init => FreshTraining
  BY DEF Init, FreshTraining
<1>2. QueueInd /\ FreshTraining /\ [Next]_vars => FreshTraining'
  BY FreshNext
<1> QED
  BY <1>1, <1>2, QueueInvariant, PTL DEF Spec

-----------------------------------------------------------------------------
(* Orphans. *)

\* The reason why a trajectory may stay in the queue.
Explained(u, s) ==
  traj[u][s] # 0 => status[u] # "absent" \/ <<u, s>> \in batch \/ u \in failed \/ u \in base

\* OrphansExplained, key by key.
LEMMA OrphansPointwise ==
  OrphansExplained <=> \A u \in Item, s \in Session : Explained(u, s)
BY LiveStatus DEF OrphansExplained, Explained

\* No step leaves a trajectory behind without one of the two reasons.
LEMMA OrphansNext ==
  ASSUME QueueInd, TqCheckpoint => TrackedConsistent, OrphansExplained, [Next]_vars
  PROVE  \A u \in Item, s \in Session : Explained(u, s)'
<1>t. /\ TypeOK /\ TypeInv /\ WorkerInv /\ SnapInv /\ SessInv /\ JobInv /\ SnapSound
      /\ StartInv /\ DiskSound
  BY DEF QueueInd, QueueInv, TypeInv
<1>0. \A u \in Item, s \in Session : Explained(u, s)
  BY OrphansPointwise
<1> SUFFICES ASSUME NEW u \in Item, NEW s \in Session PROVE Explained(u, s)'
  OBVIOUS
<1>1. CASE Quiet
  <2>1. UNCHANGED <<status, traj, batch, failed, base>>
    BY <1>1 DEF Quiet, TrainEnd, SyncMetadata, SleepPoll, BalanceFails, UpdateActor,
       EnsureCapacity, SaveActor, SaveDataloader, SaveTransferQueue, WriteTracker, tqVars,
       ghostVars
  <2> QED
    BY <1>0, <2>1 DEF Explained
<1>2. CASE LoadCheckpoint
  <2>1. CASE tracker = 0 \/ ~ TqCheckpoint
    <3>1. traj' = traj /\ pc = "load"
      BY <1>2, <2>1 DEF LoadCheckpoint, tqVars
    <3> QED
      BY <1>t, <3>1 DEF StartInv, Explained
  <2>2. CASE tracker # 0 /\ TqCheckpoint
    <3> DEFINE f == disk[tracker]
    <3>1. /\ status' = f.meta.status /\ traj' = f.meta.traj
          /\ base' = f.trained \cup f.dropped /\ "actor" \in f.parts
      BY <1>2, <2>2 DEF LoadCheckpoint
    <3>2. Sound(f.meta, f.pos)
      BY <1>t, <2>2 DEF DiskSound
    <3>3. f.trained \cup f.dropped \cup Prompts(f.meta) = 1 .. f.pos
      BY <2>2, <3>1 DEF TrackedConsistent
    <3>4. f.pos \in Nat
      BY <1>t, <2>2, TrainerAssumption, ItemsAssumption DEF TypeOK, Folder
    <3> HIDE DEF f
    <3>5. traj'[u][s] # 0 => u \in 1 .. f.pos
      BY <3>1, <3>2, <3>4 DEF Sound, Item
    <3> QED
      BY <3>1, <3>3, <3>5 DEF Explained, Prompts
  <2> QED
    BY <2>1, <2>2
<1>3. CASE ReissueInflight
  <2>1. UNCHANGED <<batch, failed, base>>
    BY <1>3 DEF ReissueInflight, ghostVars
  <2>2. /\ status[u] # "absent" => status'[u] # "absent"
        /\ traj'[u][s] # 0 => traj[u][s] # 0
    BY <1>3 DEF ReissueInflight, ClearOldTrajectories
  <2> QED
    BY <1>0, <2>1, <2>2 DEF Explained
<1>4. CASE Warmup \/ Feed \/ Refill
  <2>1. /\ UNCHANGED <<traj, batch, failed, base>>
        /\ status[u] # "absent" => status'[u] # "absent"
    BY <1>t, <1>4, FeedEffect
  <2> QED
    BY <1>0, <2>1 DEF Explained
<1>5. CASE DropStale
  <2> DEFINE S == StaleKeys(gs, snap)
  <2>1. KvClear(S, TrajectoryKeys(snap, S)) /\ UNCHANGED <<batch, failed, base>>
    BY <1>5 DEF DropStale, DroppedKeys, ghostVars
  <2>2. S \subseteq Terminal(snap)
    BY SampleableTerminal
  <2> HIDE DEF S
  <2>3. /\ status'[u] = IF u \in S THEN "absent" ELSE status[u]
        /\ traj'[u][s] = IF <<u, s>> \in TrajectoryKeys(snap, S) THEN 0 ELSE traj[u][s]
    BY <2>1 DEF KvClear
  <2>4. CASE u \in S
    <3>1. snap.traj[u][s] # 0 => <<u, s>> \in TrajectoryKeys(snap, S)
      BY <2>4 DEF TrajectoryKeys
    <3>2. snap.traj[u][s] = 0 /\ traj[u][s] # 0 => u \in failed
      BY <1>t, <2>2, <2>4 DEF SnapSound
    <3> QED
      BY <2>1, <2>3, <3>1, <3>2 DEF Explained
  <2>5. CASE u \notin S
    BY <1>0, <2>1, <2>3, <2>5 DEF Explained
  <2> QED
    BY <2>4, <2>5
<1>6. CASE SelectBatch
  <2>1. PICK S \in OldestFirst(gs, snap, SampleBatch) :
          KvClear(S, {}) /\ batch' = batch \cup TrajectoryKeys(snap, S)
    BY <1>6 DEF SelectBatch, SampledClears
  <2>2. S \subseteq Terminal(snap) /\ UNCHANGED <<failed, base>>
    BY <1>6, SampleableTerminal DEF OldestFirst, SelectBatch, ghostVars
  <2>3. /\ status'[u] = IF u \in S THEN "absent" ELSE status[u]
        /\ traj'[u][s] = traj[u][s]
    BY <2>1 DEF KvClear
  <2>4. CASE u \in S
    <3>1. snap.traj[u][s] # 0 => <<u, s>> \in TrajectoryKeys(snap, S)
      BY <2>4 DEF TrajectoryKeys
    <3>2. snap.traj[u][s] = 0 /\ traj[u][s] # 0 => u \in failed
      BY <1>t, <2>2, <2>4 DEF SnapSound
    <3> QED
      BY <2>1, <2>2, <2>3, <3>1, <3>2 DEF Explained
  <2>5. CASE u \notin S
    BY <1>0, <2>1, <2>2, <2>3, <2>5 DEF Explained
  <2> QED
    BY <2>4, <2>5
<1>7. CASE StepEnd
  <2>1. KvClear({}, batch) /\ batch' = {} /\ UNCHANGED <<failed, base>>
    BY <1>7 DEF StepEnd, ghostVars
  <2>2. /\ status'[u] = status[u]
        /\ traj'[u][s] = IF <<u, s>> \in batch THEN 0 ELSE traj[u][s]
    BY <2>1 DEF KvClear
  <2> QED
    BY <1>0, <2>1, <2>2 DEF Explained
<1>8. CASE Crash
  BY <1>8 DEF Crash, EmptyMeta, Explained
<1>9. CASE \E v \in Item : Worker(v)
  <2> PICK v \in Item : Worker(v)
    BY <1>9
  <2>1. /\ UNCHANGED <<batch, base>> /\ failed \subseteq failed'
        /\ traj'[u][s] = traj[u][s] \/ sess[u][s] = "run"
    BY <1>t, WorkerEffect
  <2>2. status'[u] # "absent" <=> status[u] # "absent"
    BY <1>t, WorkerStep
  <2>3. sess[u][s] = "run" => status[u] # "absent" \/ u \in failed
    BY <1>t DEF SessInv, WorkerInv
  <2> QED
    BY <1>0, <2>1, <2>2, <2>3 DEF Explained
<1>10. CASE UNCHANGED vars
  BY <1>0, <1>10 DEF vars, tqVars, ghostVars, Explained
<1> QED
  BY <1>1, <1>2, <1>3, <1>4, <1>5, <1>6, <1>7, <1>8, <1>9, <1>10, NextCases

\* A trajectory that nothing will ever clear is a leak, and there are only two: a session
\* that outlived its group because a sibling failed, and trajectories that were in a
\* checkpoint after their group had been consumed.
THEOREM OrphansAreExplained == Spec => []OrphansExplained
<1>1. Init => OrphansExplained
  <2>1. Init => \A u \in Item, s \in Session : traj[u][s] = 0
    BY DEF Init, EmptyMeta
  <2> QED
    BY <2>1 DEF OrphansExplained
<1>2. ASSUME QueueInd, TqCheckpoint => TrackedConsistent, OrphansExplained, [Next]_vars
      PROVE  OrphansExplained'
  <2>1. \A u \in Item, s \in Session : Explained(u, s)'
    BY <1>2, OrphansNext
  <2>2. Live' = {u \in Item : status'[u] # "absent"}
    BY DEF Live, Prompts, Queue
  <2> QED
    BY <2>1, <2>2 DEF OrphansExplained, Explained
<1>3. CASE TqCheckpoint
  BY <1>1, <1>2, <1>3, QueueInvariant, CheckpointConsistent, PTL DEF Spec
<1>4. CASE ~ TqCheckpoint
  <2>1. QueueInd /\ OrphansExplained /\ [Next]_vars => OrphansExplained'
    BY <1>2, <1>4
  <2> QED
    BY <1>1, <2>1, QueueInvariant, PTL DEF Spec
<1> QED
  BY <1>3, <1>4

-----------------------------------------------------------------------------
(* The checkpoints that the tracker names, and the proof that trainer,     *)
(* workers and checkpoints together implement SampleLedger.                *)

-----------------------------------------------------------------------------
(* Which folders the checkpoint manager may evict. *)

\* Between the write of the actor and the write of the tracker.
Writing == pc \in {"data", "tq", "tracker"}

\* previous_saved_paths is in the order of the steps, and the folder of the tracker can
\* only be its last entry (while a save is under way, the one before it).
SavedInv ==
  /\ \A i, j \in 1 .. Len(saved) : i < j => saved[i] < saved[j]
  /\ ~ Writing => \A i \in 1 .. Len(saved) : saved[i] <= tracker
  /\ Writing => /\ Len(saved) > 0 /\ saved[Len(saved)] = gs
                /\ \A i \in 1 .. Len(saved) - 1 : saved[i] <= tracker

\* The parts that the save in progress has written.
PartsInv ==
  /\ Writing => "actor" \in disk[gs].parts
  /\ pc \in {"tq", "tracker"} => "data" \in disk[gs].parts
  /\ TqCheckpoint /\ pc = "tracker" => "tq" \in disk[gs].parts

\* The entries of a list that is cut at its old end.
LEMMA SuffixEntries ==
  ASSUME NEW S, NEW q \in Seq(S), NEW n \in 0 .. Len(q)
  PROVE  /\ Len(SubSeq(q, n + 1, Len(q))) = Len(q) - n
         /\ \A i \in 1 .. Len(q) - n : SubSeq(q, n + 1, Len(q))[i] = q[n + i]
BY SubSeqProperties

\* The paths that are cut off.
LEMMA PrefixPaths ==
  ASSUME NEW S, NEW q \in Seq(S), NEW n \in 0 .. Len(q)
  PROVE  PathsOf(SubSeq(q, 1, n)) = {q[i] : i \in 1 .. n}
<1>1. Len(SubSeq(q, 1, n)) = n /\ \A i \in 1 .. n : SubSeq(q, 1, n)[i] = q[i]
  BY SubSeqProperties
<1> QED
  BY <1>1 DEF PathsOf

\* The two cuts leave the newest path of the list, and after a write the newest two: with
\* max_actor_ckpt_to_keep = 1 the second would be one path short.
LEMMA CutBounds ==
  ASSUME NEW n \in Nat
  PROVE  /\ CapacityCut(n) \in 0 .. n /\ RegisterCut(n) \in 0 .. n
         /\ CapacityCut(n) > 0 => CapacityCut(n) < n
         /\ RegisterCut(n) > 0 => RegisterCut(n) < n
         /\ KeepCkpt # 1 /\ RegisterCut(n) > 0 => RegisterCut(n) < n - 1
BY TrainerAssumption DEF CapacityCut, RegisterCut

\* Which steps change the list of saved paths, the tracker, and the step of a save.
LEMMA SavedSteps ==
  ASSUME TypeInv, WorkerInv, [Next]_vars, ~ EnsureCapacity, ~ SaveActor, ~ WriteTracker
  PROVE  /\ tracker' = tracker
         /\ \/ saved' = <<>> /\ ~ Writing'
            \/ saved' = saved /\ (Writing' <=> Writing) /\ (Writing => gs' = gs)
<1>1. CASE \E u \in Item : Worker(u)
  <2> PICK u \in Item : Worker(u)
    BY <1>1
  <2>1. UNCHANGED <<pc, gs, tracker>>
    BY WorkerEffect DEF TypeInv
  <2>2. saved' = saved
    BY DEF Worker, StartPrompt, SessionEnd, SessionEmpty, SessionFail, PromptFinished,
       PromptFailure
  <2> QED
    BY <2>1, <2>2 DEF Writing
<1>2. CASE ~ \E u \in Item : Worker(u)
  BY <1>2 DEF Next, Trainer, Terminated, TrainEnd, SyncMetadata, SleepPoll, BalanceFails,
     UpdateActor, EnsureCapacity, SaveActor, SaveDataloader, SaveTransferQueue, WriteTracker,
     LoadCheckpoint, ReissueInflight, Warmup, Feed, DropStale, Refill, SelectBatch, StepEnd,
     Crash, vars, diskVars, Writing
<1> QED
  BY <1>1, <1>2

\* Saves, evictions and restarts keep the list of paths in order and below the tracker.
LEMMA SavedNext ==
  ASSUME TypeInv, WorkerInv, TrackerInv, SavedInv, [Next]_vars
  PROVE  SavedInv'
<1>t. saved \in Seq(1 .. TotalSteps) /\ tracker \in Nat /\ gs \in Nat /\ Len(saved) \in Nat
  BY TrainerAssumption DEF TypeInv, TypeOK
<1>e. \A i \in 1 .. Len(saved) : saved[i] \in Nat
  BY <1>t, TrainerAssumption
<1>1. CASE EnsureCapacity
  <2> DEFINE n == CapacityCut(Len(saved))
  <2>1. saved' = SubSeq(saved, n + 1, Len(saved)) /\ UNCHANGED <<tracker, gs>>
    BY <1>1 DEF EnsureCapacity, diskVars
  <2>2. pc = "capacity" /\ pc' = "actor"
    BY <1>1 DEF EnsureCapacity
  <2>3. n \in 0 .. Len(saved)
    BY <1>t, CutBounds
  <2> HIDE DEF n
  <2>4. /\ Len(saved') = Len(saved) - n
        /\ \A i \in 1 .. Len(saved) - n : saved'[i] = saved[n + i] /\ n + i \in 1 .. Len(saved)
    BY <1>t, <2>1, <2>3, SuffixEntries
  <2> QED
    BY <1>t, <2>1, <2>2, <2>3, <2>4 DEF SavedInv, Writing
<1>2. CASE SaveActor
  <2> DEFINE q == Append(saved, gs)
             n == RegisterCut(Len(q))
  <2>1. gs \in 1 .. TotalSteps /\ tracker < gs
    BY <1>2, SaveSteps DEF SaveActor, TrackerInv
  <2>2. pc = "actor" /\ pc' = "data" /\ saved' = SubSeq(q, n + 1, Len(q))
        /\ UNCHANGED <<tracker, gs>>
    BY <1>2 DEF SaveActor
  <2>3. /\ q \in Seq(1 .. TotalSteps) /\ Len(q) = Len(saved) + 1
        /\ \A i \in 1 .. Len(saved) : q[i] = saved[i]
        /\ q[Len(saved) + 1] = gs
    BY <1>t, <2>1
  <2> HIDE DEF q
  <2>4. n \in 0 .. Len(q) /\ n < Len(q)
    BY <1>t, <2>3, CutBounds
  <2> HIDE DEF n
  <2>5. /\ Len(saved') = Len(q) - n
        /\ \A i \in 1 .. Len(q) - n : saved'[i] = q[n + i]
    BY <1>t, <2>2, <2>3, <2>4, SuffixEntries
  <2>6. \A i \in 1 .. Len(saved) : saved[i] <= tracker
    BY <2>2 DEF SavedInv, Writing
  <2>7. \A i, j \in 1 .. Len(q) : i < j => q[i] < q[j]
    <3> SUFFICES ASSUME NEW i \in 1 .. Len(q), NEW j \in 1 .. Len(q), i < j
                 PROVE  q[i] < q[j]
      OBVIOUS
    <3>1. i \in 1 .. Len(saved) /\ q[i] = saved[i] /\ saved[i] \in Nat /\ saved[i] <= tracker
      BY <1>t, <1>e, <2>3, <2>6
    <3>2. CASE j = Len(saved) + 1
      BY <1>t, <2>1, <2>3, <3>1, <3>2
    <3>3. CASE j \in 1 .. Len(saved)
      BY <2>3, <3>1, <3>3 DEF SavedInv
    <3> QED
      BY <1>t, <2>3, <3>2, <3>3
  <2>8. \A i \in 1 .. Len(saved') - 1 : saved'[i] <= tracker
    <3> SUFFICES ASSUME NEW i \in 1 .. Len(saved') - 1 PROVE saved'[i] <= tracker
      OBVIOUS
    <3>1. n + i \in 1 .. Len(saved) /\ saved'[i] = q[n + i]
      BY <1>t, <2>3, <2>4, <2>5
    <3>2. q[n + i] = saved[n + i] /\ saved[n + i] <= tracker
      BY <2>3, <2>6, <3>1
    <3> QED
      BY <3>1, <3>2
  <2>9. \A i, j \in 1 .. Len(saved') : i < j => saved'[i] < saved'[j]
    BY <1>t, <2>3, <2>4, <2>5, <2>7
  <2>10. Len(saved') > 0 /\ saved'[Len(saved')] = gs
    BY <1>t, <2>3, <2>4, <2>5
  <2> QED
    BY <2>2, <2>8, <2>9, <2>10 DEF SavedInv, Writing
<1>3. CASE WriteTracker
  <2>1. pc = "tracker" /\ pc' = "step_end" /\ tracker' = gs /\ saved' = saved
    BY <1>3 DEF WriteTracker
  <2>2. \A i \in 1 .. Len(saved) : saved[i] <= gs
    BY <1>t, <1>e, <2>1 DEF SavedInv, Writing
  <2> QED
    BY <2>1, <2>2 DEF SavedInv, Writing
<1>4. CASE ~ EnsureCapacity /\ ~ SaveActor /\ ~ WriteTracker
  <2>1. tracker' = tracker
    BY <1>4, SavedSteps
  <2>2. CASE saved' = <<>> /\ ~ Writing'
    BY <2>2 DEF SavedInv
  <2>3. CASE saved' = saved /\ (Writing' <=> Writing) /\ (Writing => gs' = gs)
    BY <2>1, <2>3 DEF SavedInv
  <2> QED
    BY <1>4, <2>2, <2>3, SavedSteps
<1> QED
  BY <1>1, <1>2, <1>3, <1>4

\* Unless only one checkpoint is kept, nothing touches the folder of the tracker.
LEMMA TrackedKept ==
  ASSUME KeepCkpt # 1, TypeInv, WorkerInv, TrackerInv, SavedInv, [Next]_vars, ~ WriteTracker,
         tracker # 0
  PROVE  tracker' = tracker /\ disk'[tracker] = disk[tracker]
<1>t. /\ saved \in Seq(1 .. TotalSteps) /\ tracker \in Nat /\ gs \in Nat /\ Len(saved) \in Nat
      /\ tracker \in 1 .. TotalSteps /\ disk \in [1 .. TotalSteps -> Folder]
      /\ \A i \in 1 .. Len(saved) : saved[i] \in Nat
  BY TrainerAssumption DEF TypeInv, TypeOK
<1>1. CASE EnsureCapacity
  <2> DEFINE n == CapacityCut(Len(saved))
  <2>1. disk' = RemoveActor(PathsOf(SubSeq(saved, 1, n))) /\ tracker' = tracker
    BY <1>1 DEF EnsureCapacity
  <2>2. n \in 0 .. Len(saved) /\ (n > 0 => n < Len(saved))
    BY <1>t, CutBounds
  <2> HIDE DEF n
  <2>3. PathsOf(SubSeq(saved, 1, n)) = {saved[i] : i \in 1 .. n}
    BY <1>t, <2>2, PrefixPaths
  <2>4. \A i \in 1 .. n : saved[i] # tracker
    <3> SUFFICES ASSUME NEW i \in 1 .. n PROVE saved[i] # tracker
      OBVIOUS
    <3>1. i \in 1 .. Len(saved) /\ Len(saved) \in 1 .. Len(saved) /\ i < Len(saved)
      BY <1>t, <2>2
    <3>2. saved[i] < saved[Len(saved)] /\ saved[Len(saved)] <= tracker
      BY <1>1, <3>1 DEF SavedInv, Writing, EnsureCapacity
    <3> QED
      BY <1>t, <3>1, <3>2
  <2>5. tracker \notin PathsOf(SubSeq(saved, 1, n))
    BY <2>3, <2>4
  <2> QED
    BY <1>t, <2>1, <2>5 DEF RemoveActor
<1>2. CASE SaveActor
  <2> DEFINE q == Append(saved, gs)
             n == RegisterCut(Len(q))
             D == RemoveActor(PathsOf(SubSeq(q, 1, n)))
  <2>1. disk' = [D EXCEPT ![gs] = AddActor(D[gs])] /\ tracker' = tracker
    BY <1>2 DEF SaveActor
  <2>2. gs \in 1 .. TotalSteps /\ tracker # gs /\ pc = "actor"
    BY <1>2, <1>t, SaveSteps DEF SaveActor, TrackerInv
  <2>3. /\ q \in Seq(1 .. TotalSteps) /\ Len(q) = Len(saved) + 1
        /\ \A i \in 1 .. Len(saved) : q[i] = saved[i]
    BY <1>t, <2>2
  <2>4. D = RemoveActor(PathsOf(SubSeq(q, 1, n)))
    OBVIOUS
  <2> HIDE DEF q, D
  <2>5. n \in 0 .. Len(q) /\ (n > 0 => n < Len(saved))
    BY <1>t, <2>3, CutBounds
  <2> HIDE DEF n
  <2>6. PathsOf(SubSeq(q, 1, n)) = {q[i] : i \in 1 .. n}
    BY <2>3, <2>5, PrefixPaths
  <2>7. \A i \in 1 .. n : q[i] # tracker
    <3> SUFFICES ASSUME NEW i \in 1 .. n PROVE q[i] # tracker
      OBVIOUS
    <3>1. i \in 1 .. Len(saved) /\ Len(saved) \in 1 .. Len(saved) /\ i < Len(saved)
      BY <1>t, <2>5
    <3>2. saved[i] < saved[Len(saved)] /\ saved[Len(saved)] <= tracker
      BY <2>2, <3>1 DEF SavedInv, Writing
    <3> QED
      BY <1>t, <2>3, <3>1, <3>2
  <2>8. tracker \notin PathsOf(SubSeq(q, 1, n))
    BY <2>6, <2>7
  <2>9. D[tracker] = disk[tracker] /\ D \in [1 .. TotalSteps -> Folder]
    BY <1>t, <2>4, <2>8, RemoveActorType DEF RemoveActor, TypeInv
  <2> QED
    BY <2>1, <2>2, <2>9
<1>3. CASE SaveDataloader \/ SaveTransferQueue
  <2>1. tracker' = tracker /\ tracker # gs
    BY <1>3, <1>t DEF SaveDataloader, SaveTransferQueue, TrackerInv
  <2> QED
    BY <1>3, <1>t, <2>1, SaveSteps
<1>4. CASE \E u \in Item : Worker(u)
  BY <1>4, WorkerEffect DEF TypeInv
<1>5. CASE /\ ~ (\E u \in Item : Worker(u)) /\ ~ SaveActor /\ ~ SaveDataloader
           /\ ~ SaveTransferQueue /\ ~ EnsureCapacity
  <2>1. tracker' = tracker /\ disk' = disk
    BY <1>5 DEF Next, Trainer, Terminated, TrainEnd, SyncMetadata, SleepPoll,
       BalanceFails, UpdateActor, LoadCheckpoint, ReissueInflight, Warmup, Feed, DropStale,
       Refill, SelectBatch, StepEnd, Crash, vars, diskVars
  <2> QED
    BY <2>1
<1> QED
  BY <1>1, <1>2, <1>3, <1>4, <1>5

\* What each part of a save adds to the parts of its folder.
LEMMA PartsSteps ==
  ASSUME TypeInv
  PROVE  /\ SaveActor => "actor" \in disk'[gs].parts
         /\ SaveDataloader => disk'[gs].parts = disk[gs].parts \cup {"data"}
         /\ SaveTransferQueue => disk'[gs].parts = disk[gs].parts \cup {"tq"}
<1>t. disk \in [1 .. TotalSteps -> Folder]
  BY DEF TypeInv, TypeOK
<1>a. ASSUME NEW f \in Folder
      PROVE  /\ AddActor(f).parts = f.parts \cup {"actor"}
             /\ AddData(f).parts = f.parts \cup {"data"}
             /\ AddQueue(f).parts = f.parts \cup {"tq"}
  BY DEF AddActor, AddData, AddQueue, Folder
<1>1. ASSUME SaveActor PROVE "actor" \in disk'[gs].parts
  <2> DEFINE q == Append(saved, gs)
             D == RemoveActor(PathsOf(SubSeq(q, 1, RegisterCut(Len(q)))))
             f == AddActor(D[gs])
  <2>1. disk' = [D EXCEPT ![gs] = f] /\ gs \in 1 .. TotalSteps
    BY <1>1, SaveSteps DEF SaveActor
  <2>2. D \in [1 .. TotalSteps -> Folder]
    BY RemoveActorType DEF TypeInv
  <2> HIDE DEF D
  <2>3. f.parts = D[gs].parts \cup {"actor"}
    BY <1>a, <2>1, <2>2
  <2> HIDE DEF f
  <2> QED
    BY <2>1, <2>2, <2>3
<1>2. ASSUME SaveDataloader PROVE disk'[gs].parts = disk[gs].parts \cup {"data"}
  <2> DEFINE f == AddData(disk[gs])
  <2>1. disk' = [disk EXCEPT ![gs] = f] /\ gs \in 1 .. TotalSteps
    BY <1>2, SaveSteps DEF SaveDataloader
  <2>2. f.parts = disk[gs].parts \cup {"data"}
    BY <1>a, <1>t, <2>1
  <2> HIDE DEF f
  <2> QED
    BY <1>t, <2>1, <2>2
<1>3. ASSUME SaveTransferQueue PROVE disk'[gs].parts = disk[gs].parts \cup {"tq"}
  <2> DEFINE f == AddQueue(disk[gs])
  <2>1. disk' = [disk EXCEPT ![gs] = f] /\ gs \in 1 .. TotalSteps
    BY <1>3, SaveSteps DEF SaveTransferQueue
  <2>2. f.parts = disk[gs].parts \cup {"tq"}
    BY <1>a, <1>t, <2>1
  <2> HIDE DEF f
  <2> QED
    BY <1>t, <2>1, <2>2
<1> QED
  BY <1>1, <1>2, <1>3

\* The parts of a folder are written before the tracker names it.
LEMMA PartsNext ==
  ASSUME TypeInv, WorkerInv, PartsInv, [Next]_vars
  PROVE  PartsInv'
<1>1. CASE SaveActor
  <2>1. pc' = "data" /\ gs' = gs
    BY <1>1 DEF SaveActor
  <2> QED
    BY <1>1, <2>1, PartsSteps DEF PartsInv, Writing
<1>2. CASE SaveDataloader
  <2>1. /\ pc = "data" /\ pc' \in {"tq", "tracker"} /\ gs' = gs
        /\ TqCheckpoint => pc' = "tq"
    BY <1>2 DEF SaveDataloader
  <2> QED
    BY <1>2, <2>1, PartsSteps DEF PartsInv, Writing
<1>3. CASE SaveTransferQueue
  <2>1. pc = "tq" /\ pc' = "tracker" /\ gs' = gs
    BY <1>3 DEF SaveTransferQueue
  <2> QED
    BY <1>3, <2>1, PartsSteps DEF PartsInv, Writing
<1>4. CASE \E u \in Item : Worker(u)
  <2>1. UNCHANGED <<pc, gs, disk>>
    BY <1>4, WorkerEffect DEF TypeInv
  <2> QED
    BY <2>1 DEF PartsInv, Writing
<1>5. CASE UNCHANGED vars
  BY <1>5 DEF vars, diskVars, PartsInv, Writing
<1>6. CASE /\ ~ SaveActor /\ ~ SaveDataloader /\ ~ SaveTransferQueue
           /\ ~ (\E u \in Item : Worker(u)) /\ ~ UNCHANGED vars
  <2>1. ~ Writing'
    BY <1>6 DEF Next, Trainer, Terminated, TrainEnd, SyncMetadata, SleepPoll,
       BalanceFails, UpdateActor, EnsureCapacity, WriteTracker, LoadCheckpoint,
       ReissueInflight, Warmup, Feed, DropStale, Refill, SelectBatch, StepEnd, Crash, Writing
  <2> QED
    BY <2>1 DEF PartsInv, Writing
<1> QED
  BY <1>1, <1>2, <1>3, <1>4, <1>5, <1>6

\* What the proofs about checkpoints rest on.
SaveInd == QueueInd /\ SavedInv /\ PartsInv

\* It holds in every behaviour.
LEMMA SaveInvariant == Spec => []SaveInd
<1>1. Init => SavedInv /\ PartsInv
  BY DEF Init, SavedInv, PartsInv, Writing
<1>2. SaveInd /\ [Next]_vars => SaveInd'
  BY QueueNext, SavedNext, PartsNext DEF SaveInd, QueueInd
<1> QED
  BY <1>1, <1>2, QueueInit, PTL DEF Spec, SaveInd

\* "Atomic resume": with room for more than one checkpoint the folder that the tracker
\* names has all the parts that a resume reads, whatever instant the job dies at, also
\* across several crashes, after which the manager no longer knows the older folders.
THEOREM CheckpointComplete == ASSUME KeepCkpt # 1 PROVE Spec => []TrackedComplete
<1>1. Init => TrackedComplete
  BY DEF Init, TrackedComplete
<1>2. ASSUME SaveInd, TrackedComplete, [Next]_vars
      PROVE  TrackedComplete'
  <2>t. TypeInv /\ WorkerInv /\ TrackerInv /\ SavedInv /\ PartsInv
    BY <1>2 DEF SaveInd, QueueInd
  <2>1. CASE WriteTracker
    <3>1. pc = "tracker" /\ tracker' = gs /\ disk' = disk
      BY <2>1 DEF WriteTracker
    <3> QED
      BY <2>t, <3>1 DEF PartsInv, Writing, TrackedComplete, Needed
  <2>2. CASE ~ WriteTracker /\ tracker # 0
    BY <1>2, <2>t, <2>2, TrackedKept DEF TrackedComplete, Needed
  <2>3. CASE ~ WriteTracker /\ tracker = 0
    <3>1. tracker' = 0
      <4>1. CASE EnsureCapacity \/ SaveActor
        BY <2>3, <4>1 DEF EnsureCapacity, SaveActor
      <4> QED
        BY <1>2, <2>t, <2>3, <4>1, SavedSteps
    <3> QED
      BY <3>1 DEF TrackedComplete
  <2> QED
    BY <2>1, <2>2, <2>3
<1> QED
  BY <1>1, <1>2, SaveInvariant, PTL DEF Spec

-----------------------------------------------------------------------------
(* The trainer implements the ledger. *)

\* What a recovery goes back to changes only when the tracker is written.
LEMMA StoredKept ==
  ASSUME KeepCkpt # 1, SaveInd, [Next]_vars, ~ WriteTracker
  PROVE  StoredLedger' = StoredLedger
<1>t. TypeInv /\ WorkerInv /\ TrackerInv /\ SavedInv
  BY DEF SaveInd, QueueInd
<1>1. CASE tracker = 0
  <2>1. tracker' = 0
    <3>1. CASE EnsureCapacity \/ SaveActor
      BY <1>1, <3>1 DEF EnsureCapacity, SaveActor
    <3> QED
      BY <1>t, <1>1, <3>1, SavedSteps
  <2> QED
    BY <1>1, <2>1 DEF StoredLedger, NoLedger
<1>2. CASE tracker # 0
  <2>1. tracker' = tracker /\ disk'[tracker'] = disk[tracker]
    BY <1>t, <1>2, TrackedKept
  <2> QED
    BY <1>2, <2>1 DEF StoredLedger
<1> QED
  BY <1>1, <1>2

\* The pool of the ledger is the set of prompt keys.
LEMMA PoolIsLive ==
  ASSUME Sound(Queue, pos), ~ Loading
  PROVE  Abstract!Pool = Live /\ Abstract!Items = Item
<1>1. \A u \in Item : status[u] # "absent" <=> born[u] # 0
  BY DEF Sound, Queue
<1> QED
  BY <1>1, LiveStatus DEF Abstract!Pool, Abstract!Items, Item

\* Steps that change nothing the ledger sees.
LEMMA LedgerStutter ==
  ASSUME UNCHANGED <<pos, born, trained, gs, taken>>, StoredLedger' = StoredLedger,
         pc \notin {"load", "reissue"}, pc' \notin {"load", "reissue"}
  PROVE  UNCHANGED Abstract!ledgerVars
BY DEF Abstract!ledgerVars, Loading

\* The initial states are initial states of the ledger.
LEMMA LedgerInits == Init => Abstract!LedgerInit
BY DEF Init, Abstract!LedgerInit, Abstract!StartLedger, Abstract!Items, StoredLedger, NoLedger,
   Loading, Item

\* A resume: the groups that were in flight are submitted anew.
LEMMA ReissueResumes ==
  ASSUME SaveInd, ReissueInflight, StoredLedger' = StoredLedger
  PROVE  Abstract!Resume
<1>t. TypeOK /\ Sound(Queue, pos)
  BY DEF SaveInd, QueueInd, QueueInv, TypeInv
<1>1. /\ pc = "reissue" /\ pc' = "warmup" /\ gs' = gs + 1
      /\ UNCHANGED <<pos, taken, trained>>
      /\ born' = [u \in Item |-> IF u \in InflightUids THEN gs + 1 ELSE born[u]]
  BY DEF ReissueInflight
<1>2. InflightUids \subseteq Live
  BY LiveStatus DEF InflightUids, InFlight, Queue
<1>3. InflightUids \in SUBSET Abstract!Pool /\ Abstract!Items = Item
  BY <1>t, <1>1, <1>2, PoolIsLive DEF Loading
<1> QED
  BY <1>1, <1>3 DEF Abstract!Resume, Loading

\* A feed or a refill: the next items of the dataloader enter the pool.
LEMMA FeedFetches ==
  ASSUME SaveInd, Warmup \/ Feed \/ Refill, StoredLedger' = StoredLedger
  PROVE  (\E n \in 1 .. MaxItems : Abstract!Fetch(n)) \/ UNCHANGED Abstract!ledgerVars
<1>t. TypeOK /\ TypeInv
  BY DEF SaveInd, QueueInd, TypeInv
<1>1. /\ UNCHANGED <<taken, trained, gs>>
      /\ pc \notin {"load", "reissue"} /\ pc' \notin {"load", "reissue"}
  BY <1>t, FeedEffect
<1>2. \/ UNCHANGED <<born, pos>>
      \/ \E n \in Nat : AddPrompts(n)
  BY <1>t, TrainBatchNat DEF Warmup, Feed, Refill, tqVars, workerVars, TypeOK
<1>3. CASE UNCHANGED <<born, pos>>
  BY <1>1, <1>3, LedgerStutter
<1>4. ASSUME NEW n \in Nat, AddPrompts(n)
      PROVE  (\E m \in 1 .. MaxItems : Abstract!Fetch(m)) \/ UNCHANGED Abstract!ledgerVars
  <2>1. /\ pos' = pos + n /\ pos + n <= MaxItems /\ pos \in Nat
        /\ born' = [u \in Item |-> IF u \in pos + 1 .. pos + n THEN gs ELSE born[u]]
    BY <1>4, <1>t DEF AddPrompts, Dispatch, Fetched, TypeOK
  <2>2. CASE n = 0
    <3>1. pos' = pos
      BY <2>1, <2>2
    <3>2. pos + 1 .. pos + n = {}
      BY <2>1, <2>2
    <3>3. born' = born
      BY <1>t, <2>1, <3>2 DEF TypeOK
    <3> QED
      BY <1>1, <3>1, <3>3, LedgerStutter
  <2>3. CASE n # 0
    <3>1. n \in 1 .. MaxItems
      BY <2>1, <2>3, ItemsAssumption
    <3>2. Abstract!Fetch(n)
      <4>1. ~ Loading /\ ~ Loading' /\ Abstract!Items = Item
        BY <1>1 DEF Loading, Abstract!Items, Item
      <4>2. /\ (IF Loading THEN StoredLedger.next ELSE pos) = pos
            /\ (IF Loading THEN StoredLedger.step ELSE gs) = gs
            /\ (IF Loading THEN StoredLedger.since ELSE born) = born
            /\ (IF Loading THEN StoredLedger.trained ELSE trained) = trained
            /\ (IF Loading THEN StoredLedger.next ELSE pos)' = pos'
            /\ (IF Loading THEN StoredLedger.step ELSE gs)' = gs'
            /\ (IF Loading THEN StoredLedger.since ELSE born)' = born'
            /\ (IF Loading THEN StoredLedger.trained ELSE trained)' = trained'
        BY <4>1
      <4>3. (pc \in {"load", "reissue"})' = (pc \in {"load", "reissue"})
        BY <1>1
      <4> QED
        BY <1>1, <2>1, <4>1, <4>2, <4>3, Zenon DEF Abstract!Fetch
    <3> QED
      BY <3>1, <3>2
  <2> QED
    BY <2>2, <2>3
<1> QED
  BY <1>2, <1>3, <1>4

\* A drop: only under that strategy, and only groups beyond the threshold.
LEMMA DropDiscards ==
  ASSUME SaveInd, DropStale, StoredLedger' = StoredLedger
  PROVE  \E S \in SUBSET Abstract!Pool : Abstract!Discard(S)
<1>t. /\ TypeOK /\ WorkerInv /\ SnapInv /\ SnapSound /\ Sound(Queue, pos)
  BY DEF SaveInd, QueueInd, QueueInv, TypeInv
<1> DEFINE S == StaleKeys(gs, snap)
<1>1. /\ pc = "decide" /\ pc' = "refill" /\ S # {}
      /\ UNCHANGED <<pos, taken, trained, gs>>
      /\ born' = [u \in Item |-> IF u \in S THEN 0 ELSE born[u]]
  BY DEF DropStale, KvClear
<1>2. S \subseteq Terminal(snap) /\ S \subseteq Live
  BY <1>t, SampleableTerminal, TerminalLive
<1>3. Strategy = "drop"
  BY <1>1 DEF StaleKeys, SampleableTerminalKeys
<1>4. \A u \in S : ~ (Span(gs, snap.born[u]) <= Threshold)
  BY <1>2, <1>3 DEF StaleKeys, SampleableTerminalKeys
<1>5. \A u \in S : gs - born[u] + 1 > Threshold
  <2> SUFFICES ASSUME NEW u \in S PROVE gs - born[u] + 1 > Threshold
    OBVIOUS
  <2>1. born[u] = snap.born[u] /\ u \in Item
    BY <1>t, <1>2, TerminalItems DEF SnapSound
  <2>2. born[u] \in Nat /\ gs \in Nat /\ Threshold \in Nat
    BY <1>t, <2>1, ThresholdAssumption DEF TypeOK
  <2>3. ~ (gs - born[u] + 1 <= Threshold)
    BY <1>4, <2>1 DEF Span
  <2> HIDE DEF S
  <2> QED
    BY <2>2, <2>3
<1>6. S \in SUBSET Abstract!Pool /\ Abstract!Items = Item
  BY <1>t, <1>1, <1>2, PoolIsLive DEF Loading
<1> HIDE DEF S
<1>7. Abstract!Discard(S)
  BY <1>1, <1>3, <1>5, <1>6 DEF Abstract!Discard, Loading
<1> QED
  BY <1>6, <1>7

\* The ledger counts with the same Cardinality.
LEMMA LedgerCardinality == ASSUME NEW S PROVE Abstract!Cardinality(S) = Cardinality(S)
BY DEF Abstract!Cardinality, Cardinality

\* A sampled batch: SampleBatch groups, fresh enough under the drop strategy.
LEMMA SelectTakes ==
  ASSUME SaveInd, SelectBatch, StoredLedger' = StoredLedger
  PROVE  \E S \in SUBSET Abstract!Pool : Abstract!Take(S)
<1>t. /\ TypeOK /\ WorkerInv /\ SnapInv /\ SnapSound /\ Sound(Queue, pos) /\ TakenInv
  BY DEF SaveInd, QueueInd, QueueInv, TypeInv
<1>1. PICK S \in OldestFirst(gs, snap, SampleBatch) : KvClear(S, SampledClears(S)) /\ taken' = S
  BY DEF SelectBatch
<1>2. /\ pc = "decide" /\ pc' = "train" /\ taken = {}
      /\ UNCHANGED <<pos, trained, gs>>
      /\ born' = [u \in Item |-> IF u \in S THEN 0 ELSE born[u]]
  BY <1>t, <1>1 DEF SelectBatch, KvClear, TakenInv
<1>3. S \subseteq SampleableTerminalKeys(gs, snap) /\ Cardinality(S) = SampleBatch
  BY DEF OldestFirst
<1>4. S \subseteq Terminal(snap) /\ S \subseteq Live
  BY <1>t, <1>3, SampleableTerminal, TerminalLive
<1>5. Strategy = "drop" => \A u \in S : gs - born[u] + 1 <= Threshold
  <2>1. \A u \in S : born[u] = snap.born[u]
    BY <1>t, <1>4 DEF SnapSound
  <2>2. Strategy = "drop" => \A u \in S : gs - snap.born[u] + 1 <= Threshold
    BY <1>3 DEF SampleableTerminalKeys, Span
  <2> QED
    BY <2>1, <2>2
<1>6. S \in SUBSET Abstract!Pool /\ Abstract!Items = Item
  BY <1>t, <1>2, <1>4, PoolIsLive DEF Loading
<1>7. Abstract!Take(S)
  BY <1>1, <1>2, <1>3, <1>5, <1>6, LedgerCardinality DEF Abstract!Take, Loading
<1> QED
  BY <1>6, <1>7

\* A completed save: the stored ledger is the ledger, although its parts were written at
\* different instants.
LEMMA TrackerStores ==
  ASSUME TqCheckpoint, SaveInd, IndInv, WriteTracker
  PROVE  Abstract!Store
<1>t. /\ TypeOK /\ StepInv /\ TakenInv /\ DiskSound /\ SaveInv
  BY DEF SaveInd, QueueInd, QueueInv, TypeInv, IndInv
<1>1. /\ pc = "tracker" /\ pc' = "step_end" /\ tracker' = gs
      /\ UNCHANGED <<pos, born, trained, gs, taken, disk>>
  BY DEF WriteTracker, tqVars
<1>2. taken = {} /\ gs # 0
  BY <1>t, <1>1 DEF TakenInv, StepInv
<1>3. disk[gs].pos = pos /\ disk[gs].trained = trained /\ disk[gs].meta.born = born
  BY <1>t, <1>1 DEF SaveInv, DiskSound
<1>4. StoredLedger' = [next |-> pos, since |-> born, trained |-> trained, step |-> gs]
  BY <1>1, <1>2, <1>3 DEF StoredLedger
<1> QED
  BY <1>1, <1>2, <1>4 DEF Abstract!Store, Abstract!Ledger, Loading

\* Loading a checkpoint is invisible: the ledger went back to it when the job died.
LEMMA LoadStutters ==
  ASSUME TqCheckpoint, SaveInd, LoadCheckpoint, StoredLedger' = StoredLedger
  PROVE  UNCHANGED Abstract!ledgerVars
<1>t. TypeOK /\ StartInv
  BY DEF SaveInd, QueueInd, QueueInv, TypeInv
<1>1. pc = "load" /\ pc' = "reissue" /\ gs' = tracker /\ taken' = taken
  BY DEF LoadCheckpoint
<1>2. CASE tracker = 0
  <2>1. UNCHANGED <<pos, born, trained>>
    BY <1>2 DEF LoadCheckpoint, tqVars
  <2>2. born = [u \in Item |-> 0]
    BY <1>t, <1>1 DEF StartInv, TypeOK
  <2>3. pos = 0 /\ trained = {}
    BY <1>t, <1>1 DEF StartInv
  <2>4. /\ StoredLedger.next = pos' /\ StoredLedger.since = born'
        /\ StoredLedger.trained = trained' /\ StoredLedger.step = gs'
    BY <1>1, <1>2, <2>1, <2>2, <2>3 DEF StoredLedger, NoLedger
  <2> QED
    BY <1>1, <2>4 DEF Abstract!ledgerVars, Loading
<1>3. CASE tracker # 0
  <2>1. /\ trained' = disk[tracker].trained /\ pos' = disk[tracker].pos
        /\ born' = disk[tracker].meta.born
    BY <1>3 DEF LoadCheckpoint
  <2>2. /\ StoredLedger.next = pos' /\ StoredLedger.since = born'
        /\ StoredLedger.trained = trained' /\ StoredLedger.step = gs'
    BY <1>1, <1>3, <2>1 DEF StoredLedger
  <2> QED
    BY <1>1, <2>2 DEF Abstract!ledgerVars, Loading
<1> QED
  BY <1>2, <1>3

\* Every step of the trainer, of its workers and of a crash is a step of the ledger.
LEMMA LedgerSteps ==
  ASSUME TqCheckpoint, KeepCkpt # 1, SaveInd, IndInv, [Next]_vars
  PROVE  [Abstract!LedgerNext]_(Abstract!ledgerVars)
<1>t. TypeOK /\ WorkerInv /\ TakenInv /\ ExactlyOnce /\ StartInv
  BY DEF SaveInd, QueueInd, QueueInv, TypeInv, IndInv
<1>1. CASE WriteTracker
  BY <1>1, TrackerStores DEF Abstract!LedgerNext
<1>2. CASE ~ WriteTracker
  <2>0. StoredLedger' = StoredLedger
    BY <1>2, StoredKept
  <2>1. CASE LoadCheckpoint
    BY <2>0, <2>1, LoadStutters
  <2>2. CASE ReissueInflight
    BY <2>0, <2>2, ReissueResumes DEF Abstract!LedgerNext
  <2>3. CASE Warmup \/ Feed \/ Refill
    BY <2>0, <2>3, FeedFetches DEF Abstract!LedgerNext
  <2>4. CASE DropStale
    BY <2>0, <2>4, DropDiscards DEF Abstract!LedgerNext
  <2>5. CASE SelectBatch
    BY <2>0, <2>5, SelectTakes DEF Abstract!LedgerNext
  <2>6. CASE StepEnd
    <3>1. /\ pc = "step_end" /\ pc' \notin {"load", "reissue"} /\ gs' = gs + 1 /\ taken = {}
          /\ UNCHANGED <<pos, trained, taken>>
      BY <1>t, <2>6 DEF StepEnd, TakenInv
    <3>2. born' = born
      BY <1>t, <2>6 DEF StepEnd, KvClear, TypeOK
    <3>3. Abstract!Advance
      BY <2>0, <3>1, <3>2 DEF Abstract!Advance, Loading
    <3> QED
      BY <3>3 DEF Abstract!LedgerNext
  <2>7. CASE UpdateActor
    <3>1. /\ pc = "train" /\ pc' \notin {"load", "reissue"} /\ taken # {}
          /\ trained' = trained \cup taken /\ taken' = {}
          /\ UNCHANGED <<pos, born, gs>>
      BY <2>7 DEF UpdateActor, HasTrajectories, tqVars
    <3>2. taken \cap trained = {}
      BY <1>t DEF ExactlyOnce
    <3>3. Abstract!Train
      BY <2>0, <3>1, <3>2 DEF Abstract!Train, Loading
    <3> QED
      BY <3>3 DEF Abstract!LedgerNext
  <2>8. CASE Crash
    <3>1. pc' = "load" /\ taken' = {}
      BY <2>8 DEF Crash
    <3>2. Abstract!Recover
      BY <2>0, <3>1 DEF Abstract!Recover, Loading
    <3> QED
      BY <3>2 DEF Abstract!LedgerNext
  <2>9. CASE Quiet /\ ~ UpdateActor
    <3>1. UNCHANGED <<pos, born, trained, gs, taken>>
      BY <2>9 DEF Quiet, TrainEnd, SyncMetadata, SleepPoll, BalanceFails, EnsureCapacity,
         SaveActor, SaveDataloader, SaveTransferQueue, WriteTracker, tqVars
    <3>2. pc \notin {"load", "reissue"} /\ pc' \notin {"load", "reissue"}
      BY <2>9 DEF Quiet, TrainEnd, SyncMetadata, SleepPoll, BalanceFails, EnsureCapacity,
         SaveActor, SaveDataloader, SaveTransferQueue, WriteTracker
    <3> QED
      BY <2>0, <3>1, <3>2, LedgerStutter
  <2>10. CASE \E u \in Item : Worker(u)
    <3>1. UNCHANGED <<pos, born, trained, gs, taken, pc>>
      BY <1>t, <2>10, WorkerEffect
    <3> QED
      BY <2>0, <3>1 DEF Abstract!ledgerVars, Loading
  <2>11. CASE UNCHANGED vars
    <3>1. UNCHANGED <<pos, born, trained, gs, taken, pc>>
      BY <2>11 DEF vars, tqVars
    <3> QED
      BY <2>0, <3>1 DEF Abstract!ledgerVars, Loading
  <2> QED
    BY <2>1, <2>2, <2>3, <2>4, <2>5, <2>6, <2>7, <2>8, <2>9, <2>10, <2>11, NextCases
<1> QED
  BY <1>1, <1>2

\* The trainer, its workers, its queue and its checkpoints implement the ledger: whatever
\* the interleaving of workers, sampler and save, an item is pooled until it is taken
\* whole or discarded for its age, is trained once, and a resume goes back to a ledger
\* that existed.  It needs a TransferQueue that can be checkpointed, and room for a
\* second actor checkpoint.
THEOREM TrainerImplementsLedger ==
  ASSUME TqCheckpoint, KeepCkpt # 1
  PROVE  Spec => ImplementsLedger
<1>1. SaveInd /\ IndInv /\ [Next]_vars => [Abstract!LedgerNext]_(Abstract!ledgerVars)
  BY LedgerSteps
<1> QED
  BY <1>1, LedgerInits, SaveInvariant, IndInvariant, PTL
  DEF Spec, ImplementsLedger, Abstract!LedgerSpec
=============================================================================
