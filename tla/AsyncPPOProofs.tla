--------------------------- MODULE AsyncPPOProofs ---------------------------
(***************************************************************************)
(* Proofs about AsyncPPO, for every number of items, sessions, steps,      *)
(* warm-up batches, faults and crashes.                                    *)
(***************************************************************************)
EXTENDS AsyncPPO, FiniteSetTheorems, SequenceTheorems, TLAPS

-----------------------------------------------------------------------------
(* The inductive invariant. *)

\* Inside the training loop the step is one of 1 .. TotalSteps.
StepInv ==
  /\ pc \notin {"load", "reissue"} => gs >= 1
  /\ pc \notin {"load", "reissue", "warmup", "feed", "done"} => gs <= TotalSteps

TypeInv == TypeOK /\ StepInv

\* The task of a prompt exists only while its key is in flight: no worker puts the
\* status of a key that the sampler has cleared.
WorkerInv ==
  \A u \in Item :
    /\ task[u] = "queued" => status[u] = "pending"
    /\ task[u] = "gather" => status[u] = "running"
    /\ pc = "load" => task[u] = "none" /\ status[u] = "absent"

\* What the snapshot of the sampler calls terminal still is: only the trainer clears
\* prompt keys, and workers never touch a terminal one.
SnapInv ==
  /\ pc # "decide" => snap = EmptyMeta
  /\ \A u \in Terminal(snap) : status[u] = snap.status[u]

\* Only an update in progress, or one that raised, holds groups.
TakenInv == pc \notin {"train", "raised"} => taken = {}

\* A folder is never written again once the tracker names it.
TrackerInv ==
  /\ pc \notin {"load", "done"} => tracker <= gs
  /\ pc \notin {"load", "reissue", "step_end", "done"} => tracker < gs

\* The parts of the folder being written agree with the trainer.
SaveInv ==
  /\ pc \in {"data", "tq", "tracker"} =>
       disk[gs].trained = trained /\ disk[gs].dropped = dropped
  /\ pc \in {"tq", "tracker"} => disk[gs].pos = pos
  /\ pc = "tracker" => Prompts(disk[gs].meta) = Live

IndInv == /\ TypeInv /\ WorkerInv /\ SnapInv /\ TakenInv /\ TrackerInv /\ SaveInv
          /\ ExactlyOnce /\ TrackedConsistent

\* A checkpoint without the queue says as much of it as there is to say: where the two meet,
\* the folder's metadata and the queue hold the same prompts.
Carried ==
  TqCheckpoint \/ /\ pc = "data" => Prompts(disk[gs].meta) = Live
                  /\ pc = "load" /\ tracker # 0 => Prompts(disk[tracker].meta) = Live

\* The steps that touch neither the queue nor the workers.
Quiet ==
  \/ TrainEnd \/ SyncMetadata \/ SleepPoll \/ BalanceFails \/ UpdateActor \/ EnsureCapacity
  \/ SaveActor \/ SaveDataloader \/ SaveTransferQueue \/ WriteTracker

-----------------------------------------------------------------------------
(* Facts about the operators. *)

\* The snapshot before the first poll is well typed.
LEMMA EmptyMetaType == EmptyMeta \in Meta
BY DEF EmptyMeta, Meta, Status

\* A folder nothing has been written to is well typed.
LEMMA EmptyFolderType == EmptyFolder \in Folder
BY EmptyMetaType, ItemsAssumption DEF EmptyFolder, Folder

\* The size of a step's batch is a number.
LEMMA TrainBatchNat == TrainBatch \in Nat
BY TrainerAssumption DEF TrainBatch

\* A set of items is finite.
LEMMA ItemFinite == ASSUME NEW S \in SUBSET Item PROVE Cardinality(S) \in Nat
<1>1. IsFiniteSet(Item)
  BY ItemsAssumption, FS_Interval DEF Item
<1>2. IsFiniteSet(S)
  BY <1>1, FS_Subset
<1> QED
  BY <1>2, FS_CardinalityType

\* The sampler only drops or selects groups that are terminal in its snapshot.
LEMMA SampleableTerminal ==
  ASSUME NEW g, NEW m
  PROVE  /\ SampleableTerminalKeys(g, m) \subseteq Terminal(m)
         /\ StaleKeys(g, m) \subseteq Terminal(m)
BY DEF SampleableTerminalKeys, StaleKeys

\* What a snapshot calls terminal are items.
LEMMA TerminalItems == ASSUME NEW m PROVE Terminal(m) \subseteq Item
BY DEF Terminal

\* What is left of a list of paths is a list of paths.
LEMMA SubSeqType ==
  ASSUME NEW S, NEW q \in Seq(S), NEW n \in Nat
  PROVE  SubSeq(q, n + 1, Len(q)) \in Seq(S)
BY SubSeqProperties

\* Evicting actors keeps the type of the disk.
LEMMA RemoveActorType ==
  ASSUME TypeOK, NEW G
  PROVE  RemoveActor(G) \in [1 .. TotalSteps -> Folder]
BY DEF RemoveActor, TypeOK, Folder

\* So does writing one part of a folder.
LEMMA AddPartType ==
  ASSUME TypeOK, NEW f \in Folder
  PROVE  AddActor(f) \in Folder /\ AddData(f) \in Folder /\ AddQueue(f) \in Folder
<1>1. trained \in SUBSET Item /\ dropped \in SUBSET Item /\ pos \in 0 .. MaxItems
  BY DEF TypeOK
<1>2. Queue \in Meta
  BY DEF TypeOK, Queue, Meta
<1> QED
  BY <1>1, <1>2 DEF AddActor, AddData, AddQueue, Folder

-----------------------------------------------------------------------------
(* Types. *)

\* The variables start with values of their types.
LEMMA TypeInit == Init => TypeInv
BY EmptyMetaType, EmptyFolderType, TrainerAssumption, ItemsAssumption
DEF Init, TypeInv, TypeOK, StepInv, EmptyMeta, PC, Status

\* Every action of the trainer, the workers and the environment keeps the types.
LEMMA TypeNext == TypeInv /\ [Next]_vars => TypeInv'
<1> SUFFICES ASSUME TypeInv, [Next]_vars PROVE TypeInv'
  OBVIOUS
<1> USE DEF TypeInv, TypeOK, StepInv, PC, tqVars, workerVars, bufferVars, diskVars, ghostVars
<1>1. CASE LoadCheckpoint
  <2>1. CASE tracker = 0
    BY <1>1, <2>1 DEF LoadCheckpoint
  <2>2. CASE tracker # 0
    <3> DEFINE f == disk[tracker]
    <3>1. f \in Folder
      BY <2>2, TrainerAssumption
    <3>2. /\ f.trained \in SUBSET Item /\ f.dropped \in SUBSET Item
          /\ f.pos \in 0 .. MaxItems /\ f.meta \in Meta
      BY <3>1 DEF Folder
    <3>3. /\ f.meta.status \in [Item -> Status]
          /\ f.meta.born \in [Item -> Nat]
          /\ f.meta.traj \in [Item -> [Session -> Nat]]
      BY <3>2 DEF Meta
    <3>4. /\ trained' = f.trained /\ dropped' = f.dropped
          /\ base' = f.trained \cup f.dropped /\ pos' = f.pos
      BY <1>1, <2>2 DEF LoadCheckpoint
    <3>5. \/ status' = f.meta.status /\ born' = f.meta.born /\ traj' = f.meta.traj
          \/ UNCHANGED tqVars
      BY <1>1, <2>2 DEF LoadCheckpoint
    <3> HIDE DEF f
    <3> QED
      <4>1. pc' = "reissue" /\ gs' = tracker /\ tracker \in Nat
        BY <1>1, TrainerAssumption DEF LoadCheckpoint
      <4>2. UNCHANGED <<workerVars, iter, warm, bufferVars, taken, batch, diskVars, saved,
                        faults, crashes, failed>>
        BY <1>1 DEF LoadCheckpoint
      <4>3. /\ status' \in [Item -> Status] /\ born' \in [Item -> Nat]
            /\ traj' \in [Item -> [Session -> Nat]]
        BY <3>3, <3>5
      <4> QED
        BY <3>2, <3>4, <4>1, <4>2, <4>3
  <2> QED
    BY <2>1, <2>2
<1>2. CASE ReissueInflight
  BY <1>2 DEF ReissueInflight, ClearOldTrajectories, Status
<1>3. CASE Warmup
  <2>1. CASE WarmupLeft
    <3>1. /\ AddPrompts(TrainBatch) /\ warm' = warm + 1 /\ UNCHANGED pc
          /\ UNCHANGED <<gs, iter, bufferVars, taken, batch, trained, dropped, diskVars,
                         saved, ghostVars>>
      BY <1>3, <2>1 DEF Warmup
    <3> QED
      BY <3>1, TrainBatchNat, ItemsAssumption DEF AddPrompts, Dispatch, Fetched, Status
  <2>2. CASE ~ WarmupLeft
    BY <1>3, <2>2 DEF Warmup
  <2> QED
    BY <2>1, <2>2
<1>4. CASE Feed
  BY <1>4, TrainBatchNat, ItemsAssumption DEF Feed, AddPrompts, Dispatch, Fetched, Status
<1>5. CASE TrainEnd
  BY <1>5 DEF TrainEnd
<1>6. CASE SyncMetadata
  BY <1>6 DEF SyncMetadata, Queue, Meta
<1>7. CASE DropStale
  <2>1. StaleKeys(gs, snap) \in SUBSET Item
    BY SampleableTerminal, TerminalItems
  <2>2. refill' \in Nat
    BY <2>1, <1>7, ItemFinite DEF DropStale, NumRefill
  <2> QED
    BY <2>1, <2>2, <1>7, EmptyMetaType DEF DropStale, KvClear, Status
<1>8. CASE Refill
  BY <1>8, ItemsAssumption DEF Refill, AddPrompts, Dispatch, Fetched, Status
<1>9. CASE SelectBatch
  <2>1. PICK S \in OldestFirst(gs, snap, SampleBatch) :
          /\ KvClear(S, SampledClears(S))
          /\ taken' = S
          /\ batch' = batch \cup TrajectoryKeys(snap, S)
    BY <1>9 DEF SelectBatch
  <2>2. S \in SUBSET Item
    BY SampleableTerminal, TerminalItems DEF OldestFirst
  <2>3. TrajectoryKeys(snap, S) \in SUBSET Key
    BY <2>2 DEF TrajectoryKeys, Key
  <2> QED
    BY <2>1, <2>2, <2>3, <1>9, EmptyMetaType DEF SelectBatch, KvClear, Status
<1>10. CASE SleepPoll
  BY <1>10, EmptyMetaType DEF SleepPoll
<1>11. CASE UpdateActor
  BY <1>11 DEF UpdateActor
<1>12. CASE StepEnd
  BY <1>12 DEF StepEnd, KvClear, Status
<1>13. CASE EnsureCapacity
  <2>1. disk' \in [1 .. TotalSteps -> Folder]
    BY <1>13, RemoveActorType DEF EnsureCapacity
  <2>2. saved' \in Seq(1 .. TotalSteps)
    <3>1. CapacityCut(Len(saved)) \in Nat
      BY TrainerAssumption DEF CapacityCut
    <3> QED
      BY <1>13, <3>1, SubSeqType DEF EnsureCapacity
  <2> QED
    BY <2>1, <2>2, <1>13 DEF EnsureCapacity
<1>14. CASE SaveActor
  <2> DEFINE q == Append(saved, gs)
             old == RegisterCut(Len(q))
             D == RemoveActor(PathsOf(SubSeq(q, 1, old)))
  <2>1. gs \in 1 .. TotalSteps
    BY <1>14, TrainerAssumption DEF SaveActor
  <2>2. D \in [1 .. TotalSteps -> Folder]
    BY RemoveActorType
  <2> DEFINE f == AddActor(D[gs])
  <2>3. disk' = [D EXCEPT ![gs] = f]
    BY <1>14 DEF SaveActor
  <2>4. disk' \in [1 .. TotalSteps -> Folder]
    <3> HIDE DEF D
    <3>1. D[gs] \in Folder
      BY <2>1, <2>2
    <3>2. f \in Folder
      BY <3>1, AddPartType
    <3> HIDE DEF f
    <3> QED BY <2>1, <2>2, <2>3, <3>2
  <2>5. saved' \in Seq(1 .. TotalSteps)
    <3>1. /\ q \in Seq(1 .. TotalSteps)
          /\ saved' = SubSeq(q, old + 1, Len(q))
          /\ old \in Nat
      BY <2>1, <1>14, TrainerAssumption DEF SaveActor, RegisterCut
    <3> HIDE DEF q, old
    <3> QED
      BY <3>1, SubSeqType
  <2> QED
    BY <2>4, <2>5, <1>14 DEF SaveActor
<1>15. CASE SaveDataloader
  <2> DEFINE f == AddData(disk[gs])
  <2>1. gs \in 1 .. TotalSteps /\ disk' = [disk EXCEPT ![gs] = f]
    BY <1>15, TrainerAssumption DEF SaveDataloader
  <2>2. f \in Folder
    BY <2>1, AddPartType
  <2> HIDE DEF f
  <2> QED
    BY <1>15, <2>1, <2>2 DEF SaveDataloader
<1>16. CASE SaveTransferQueue
  <2> DEFINE f == AddQueue(disk[gs])
  <2>1. gs \in 1 .. TotalSteps /\ disk' = [disk EXCEPT ![gs] = f]
    BY <1>16, TrainerAssumption DEF SaveTransferQueue
  <2>2. f \in Folder
    BY <2>1, AddPartType
  <2> HIDE DEF f
  <2> QED
    BY <1>16, <2>1, <2>2 DEF SaveTransferQueue
<1>17. CASE WriteTracker
  BY <1>17, TrainerAssumption DEF WriteTracker
<1>18. CASE \E u \in Item : Worker(u)
  <2> PICK u \in Item : Worker(u)
    BY <1>18
  <2>1. CASE StartPrompt(u)
    BY <2>1 DEF StartPrompt, Status
  <2>2. CASE \E s \in Session : SessionEnd(u, s)
    BY <2>2 DEF SessionEnd, Ended
  <2>3. CASE \E s \in Session : SessionEmpty(u, s)
    BY <2>3 DEF SessionEmpty, Ended
  <2>4. CASE \E s \in Session : SessionFail(u, s)
    BY <2>4 DEF SessionFail, Ended
  <2>5. CASE PromptFinished(u)
    BY <2>5 DEF PromptFinished, LeftRunning, Status
  <2>6. CASE PromptFailure(u)
    BY <2>6 DEF PromptFailure, LeftRunning, Status
  <2> QED
    BY <2>1, <2>2, <2>3, <2>4, <2>5, <2>6 DEF Worker
<1>19. CASE Crash
  BY <1>19, EmptyMetaType, ItemsAssumption DEF Crash, EmptyMeta, Status
<1>20. CASE UNCHANGED vars
  BY <1>20 DEF vars
<1>21. CASE BalanceFails
  BY <1>21 DEF BalanceFails
<1> QED
  BY <1>1, <1>2, <1>3, <1>4, <1>5, <1>6, <1>7, <1>8, <1>9, <1>10, <1>11, <1>12, <1>13,
     <1>14, <1>15, <1>16, <1>17, <1>18, <1>19, <1>20, <1>21
  DEF Next, Trainer, Terminated

\* Every variable keeps its type: in particular the folders on disk and the list of
\* saved paths stay well formed through evictions, crashes and resumes.
THEOREM TypeCorrect == Spec => []TypeOK
<1>1. Spec => []TypeInv
  BY TypeInit, TypeNext, PTL DEF Spec
<1>2. TypeInv => TypeOK
  BY DEF TypeInv
<1> QED
  BY <1>1, <1>2, PTL
-----------------------------------------------------------------------------
(* The parts of the inductive invariant. *)

\* The empty snapshot names no terminal group.
LEMMA TerminalEmpty == Terminal(EmptyMeta) = {}
BY DEF Terminal, EmptyMeta

\* The live groups are the prompt keys of the queue.
LEMMA LiveStatus == Live = {u \in Item : status[u] # "absent"}
BY DEF Live, Prompts, Queue

\* The quiet steps leave the queue and the workers alone, and load nothing.
LEMMA QuietStep == Quiet => UNCHANGED <<tqVars, workerVars>> /\ pc # "load" /\ pc' # "load"
BY DEF Quiet, TrainEnd, SyncMetadata, SleepPoll, BalanceFails, UpdateActor, EnsureCapacity, SaveActor,
       SaveDataloader, SaveTransferQueue, WriteTracker

\* Next, with the trainer's steps sorted by what they touch.
LEMMA NextCases ==
  ASSUME [Next]_vars
  PROVE  \/ Quiet \/ LoadCheckpoint \/ ReissueInflight \/ Warmup \/ Feed \/ DropStale
         \/ Refill \/ SelectBatch \/ StepEnd \/ Crash
         \/ \E u \in Item : Worker(u)
         \/ UNCHANGED vars
BY DEF Next, Trainer, Terminated, Quiet

\* A worker step changes the status of at most one key, the one of its own prompt,
\* which is in flight before and in the queue after.
LEMMA WorkerStep ==
  ASSUME TypeOK, WorkerInv, NEW u \in Item, Worker(u)
  PROVE  /\ status' \in [Item -> Status]
         /\ \A v \in Item : v # u => status'[v] = status[v] /\ task'[v] = task[v]
         /\ status'[u] = status[u] \/
              (status[u] \in {"pending", "running"} /\ status'[u] # "absent")
         /\ task'[u] = "queued" => status'[u] = "pending"
         /\ task'[u] = "gather" => status'[u] = "running"
         /\ pc = "load" => task'[u] = "none" /\ status'[u] = "absent"
         /\ UNCHANGED <<born, pc, gs, pos, snap, taken, trained, dropped, disk, tracker>>
<1> USE DEF TypeOK, WorkerInv, tqVars, workerVars, bufferVars, diskVars, ghostVars
<1>1. CASE StartPrompt(u)
  BY <1>1 DEF StartPrompt, Status
<1>2. CASE \E s \in Session : SessionEnd(u, s) \/ SessionEmpty(u, s) \/ SessionFail(u, s)
  BY <1>2 DEF SessionEnd, SessionEmpty, SessionFail
<1>3. CASE PromptFinished(u)
  BY <1>3 DEF PromptFinished, Status
<1>4. CASE PromptFailure(u)
  BY <1>4 DEF PromptFailure, Status
<1> QED
  BY <1>1, <1>2, <1>3, <1>4 DEF Worker

\* A group that the snapshot calls terminal has no task left.
LEMMA TerminalHasNoTask ==
  ASSUME TypeOK, WorkerInv, SnapInv, NEW u \in Terminal(snap)
  PROVE  u \in Item /\ status[u] \in {"finished", "failure"} /\ task[u] = "none"
<1>1. u \in Item /\ snap.status[u] \in {"finished", "failure"}
  BY DEF Terminal
<1>2. status[u] = snap.status[u]
  BY DEF SnapInv
<1> QED
  BY <1>1, <1>2 DEF TypeOK, WorkerInv

\* No step leaves a prompt task whose key is neither pending nor running.
LEMMA WorkerNext ==
  ASSUME TypeInv, WorkerInv, SnapInv, [Next]_vars
  PROVE  WorkerInv'
<1> USE DEF TypeInv, TypeOK, WorkerInv
<1>1. CASE Quiet
  BY <1>1, QuietStep DEF tqVars, workerVars
<1>2. CASE LoadCheckpoint
  BY <1>2 DEF LoadCheckpoint, workerVars
<1>3. CASE ReissueInflight
  BY <1>3 DEF ReissueInflight
<1>4. CASE Warmup \/ Feed \/ Refill
  BY <1>4 DEF Warmup, Feed, Refill, AddPrompts, Dispatch, Fetched, tqVars, workerVars
<1>5. CASE DropStale
  <2>1. \A u \in StaleKeys(gs, snap) : task[u] = "none"
    BY SampleableTerminal, TerminalHasNoTask
  <2> QED
    BY <1>5, <2>1 DEF DropStale, KvClear, workerVars
<1>6. CASE SelectBatch
  <2>1. PICK S \in OldestFirst(gs, snap, SampleBatch) : KvClear(S, SampledClears(S))
    BY <1>6 DEF SelectBatch
  <2>2. \A u \in S : task[u] = "none"
    BY SampleableTerminal, TerminalHasNoTask DEF OldestFirst
  <2> QED
    BY <1>6, <2>1, <2>2 DEF SelectBatch, KvClear, workerVars
<1>7. CASE StepEnd
  BY <1>7 DEF StepEnd, KvClear, workerVars
<1>8. CASE Crash
  BY <1>8 DEF Crash, EmptyMeta
<1>9. CASE \E u \in Item : Worker(u)
  BY <1>9, WorkerStep
<1>10. CASE UNCHANGED vars
  BY <1>10 DEF vars, tqVars, workerVars
<1> QED
  BY <1>1, <1>2, <1>3, <1>4, <1>5, <1>6, <1>7, <1>8, <1>9, <1>10, NextCases

\* What the snapshot calls terminal stays terminal until the trainer removes it.
LEMMA SnapNext ==
  ASSUME TypeInv, WorkerInv, SnapInv, [Next]_vars
  PROVE  SnapInv'
<1>1. CASE SyncMetadata
  BY <1>1 DEF SyncMetadata, SnapInv, Queue, Terminal, tqVars
<1>2. CASE \E u \in Item : Worker(u)
  <2> PICK u \in Item : Worker(u)
    BY <1>2
  <2>1. /\ UNCHANGED <<pc, snap>>
        /\ \A v \in Item : status[v] \in {"finished", "failure"} => status'[v] = status[v]
    BY WorkerStep DEF TypeInv
  <2> QED
    BY <2>1 DEF SnapInv, Terminal
<1>3. CASE UNCHANGED vars
  BY <1>3 DEF vars, tqVars, bufferVars, SnapInv, Terminal
<1>4. CASE ~ SyncMetadata /\ ~ (\E u \in Item : Worker(u)) /\ ~ UNCHANGED vars
  <2>1. pc' # "decide" /\ snap' = EmptyMeta
    BY <1>4 DEF Next, Trainer, Terminated, SnapInv, TrainEnd, SleepPoll, BalanceFails, UpdateActor,
       EnsureCapacity, SaveActor, SaveDataloader, SaveTransferQueue, WriteTracker,
       LoadCheckpoint, ReissueInflight, Warmup, Feed, DropStale, Refill, SelectBatch, StepEnd,
       Crash, bufferVars
  <2>2. Terminal(snap') = {}
    BY <2>1, TerminalEmpty
  <2> QED
    BY <2>1, <2>2 DEF SnapInv
<1> QED
  BY <1>1, <1>2, <1>3, <1>4

\* Only an update in progress holds sampled groups.
LEMMA TakenNext ==
  ASSUME TypeInv, WorkerInv, TakenInv, [Next]_vars
  PROVE  TakenInv'
<1>1. CASE \E u \in Item : Worker(u)
  BY <1>1, WorkerStep DEF TakenInv, TypeInv
<1>2. CASE ~ (\E u \in Item : Worker(u))
  BY <1>2 DEF Next, Trainer, Terminated, TakenInv, TrainEnd, SyncMetadata, SleepPoll,
     BalanceFails, UpdateActor, EnsureCapacity, SaveActor, SaveDataloader, SaveTransferQueue, WriteTracker,
     LoadCheckpoint, ReissueInflight, Warmup, Feed, DropStale, Refill, SelectBatch, StepEnd,
     Crash, vars
<1> QED
  BY <1>1, <1>2

\* The tracker names a folder the current save does not write to.
LEMMA TrackerNext ==
  ASSUME TypeInv, WorkerInv, TrackerInv, [Next]_vars
  PROVE  TrackerInv'
<1>1. CASE \E u \in Item : Worker(u)
  BY <1>1, WorkerStep DEF TrackerInv, TypeInv
<1>2. CASE ~ (\E u \in Item : Worker(u))
  BY <1>2, TrainerAssumption
  DEF Next, Trainer, Terminated, TrackerInv, TypeInv, TypeOK, TrainEnd, SyncMetadata,
     SleepPoll, BalanceFails, UpdateActor, EnsureCapacity, SaveActor, SaveDataloader, SaveTransferQueue,
     WriteTracker, LoadCheckpoint, ReissueInflight, Warmup, Feed, DropStale, Refill,
     SelectBatch, StepEnd, Crash, vars, diskVars
<1> QED
  BY <1>1, <1>2

-----------------------------------------------------------------------------
(* The checkpoint folders. *)

\* A folder keeps its actor only if the eviction spares it.
LEMMA RemoveActorFolder ==
  ASSUME TypeOK, NEW G, NEW g \in 1 .. TotalSteps
  PROVE  RemoveActor(G)[g] = disk[g] \/ "actor" \notin RemoveActor(G)[g].parts
BY DEF RemoveActor, TypeOK, Folder

\* What a part of the save changes in a folder.
LEMMA AddPartFields ==
  ASSUME NEW f \in Folder
  PROVE  /\ AddActor(f).trained = trained /\ AddActor(f).dropped = dropped
         /\ AddData(f).trained = f.trained /\ AddData(f).dropped = f.dropped
         /\ AddData(f).pos = pos /\ AddActor(f).meta = f.meta /\ AddData(f).meta = f.meta
         /\ AddQueue(f).trained = f.trained /\ AddQueue(f).dropped = f.dropped
         /\ AddQueue(f).pos = f.pos /\ AddQueue(f).meta = Queue
BY DEF AddActor, AddData, AddQueue, Folder

\* The steps of the save that change the disk, folder by folder.
LEMMA SaveSteps ==
  ASSUME TypeInv
  PROVE  /\ SaveActor =>
              /\ gs \in 1 .. TotalSteps
              /\ disk'[gs].trained = trained /\ disk'[gs].dropped = dropped
              /\ \A g \in 1 .. TotalSteps :
                   g # gs => disk'[g] = disk[g] \/ "actor" \notin disk'[g].parts
         /\ SaveDataloader =>
              /\ gs \in 1 .. TotalSteps
              /\ disk'[gs].trained = disk[gs].trained /\ disk'[gs].dropped = disk[gs].dropped
              /\ disk'[gs].pos = pos /\ disk'[gs].meta = disk[gs].meta
              /\ \A g \in 1 .. TotalSteps : g # gs => disk'[g] = disk[g]
         /\ SaveTransferQueue =>
              /\ gs \in 1 .. TotalSteps
              /\ disk'[gs].trained = disk[gs].trained /\ disk'[gs].dropped = disk[gs].dropped
              /\ disk'[gs].pos = disk[gs].pos /\ disk'[gs].meta = Queue
              /\ \A g \in 1 .. TotalSteps : g # gs => disk'[g] = disk[g]
<1>1. ASSUME SaveActor
      PROVE  /\ gs \in 1 .. TotalSteps
             /\ disk'[gs].trained = trained /\ disk'[gs].dropped = dropped
             /\ \A g \in 1 .. TotalSteps :
                  g # gs => disk'[g] = disk[g] \/ "actor" \notin disk'[g].parts
  <2> DEFINE q == Append(saved, gs)
             D == RemoveActor(PathsOf(SubSeq(q, 1, RegisterCut(Len(q)))))
             f == AddActor(D[gs])
  <2>1. gs \in 1 .. TotalSteps
    BY <1>1, TrainerAssumption DEF SaveActor, TypeInv, TypeOK, StepInv
  <2>2. D \in [1 .. TotalSteps -> Folder]
    BY RemoveActorType DEF TypeInv
  <2>3. disk' = [D EXCEPT ![gs] = f]
    BY <1>1 DEF SaveActor
  <2>4. \A g \in 1 .. TotalSteps : D[g] = disk[g] \/ "actor" \notin D[g].parts
    BY RemoveActorFolder DEF TypeInv
  <2> HIDE DEF D
  <2>5. f.trained = trained /\ f.dropped = dropped
    BY <2>1, <2>2, AddPartFields
  <2> HIDE DEF f
  <2> QED
    BY <2>1, <2>2, <2>3, <2>4, <2>5
<1>2. ASSUME SaveDataloader
      PROVE  /\ gs \in 1 .. TotalSteps
             /\ disk'[gs].trained = disk[gs].trained /\ disk'[gs].dropped = disk[gs].dropped
             /\ disk'[gs].pos = pos /\ disk'[gs].meta = disk[gs].meta
             /\ \A g \in 1 .. TotalSteps : g # gs => disk'[g] = disk[g]
  <2> DEFINE f == AddData(disk[gs])
  <2>1. gs \in 1 .. TotalSteps /\ disk \in [1 .. TotalSteps -> Folder]
    BY <1>2, TrainerAssumption DEF SaveDataloader, TypeInv, TypeOK, StepInv
  <2>2. disk' = [disk EXCEPT ![gs] = f]
    BY <1>2 DEF SaveDataloader
  <2>3. /\ f.trained = disk[gs].trained /\ f.dropped = disk[gs].dropped /\ f.pos = pos
        /\ f.meta = disk[gs].meta
    BY <2>1, AddPartFields
  <2> HIDE DEF f
  <2> QED
    BY <2>1, <2>2, <2>3
<1>3. ASSUME SaveTransferQueue
      PROVE  /\ gs \in 1 .. TotalSteps
             /\ disk'[gs].trained = disk[gs].trained /\ disk'[gs].dropped = disk[gs].dropped
             /\ disk'[gs].pos = disk[gs].pos /\ disk'[gs].meta = Queue
             /\ \A g \in 1 .. TotalSteps : g # gs => disk'[g] = disk[g]
  <2> DEFINE f == AddQueue(disk[gs])
  <2>1. gs \in 1 .. TotalSteps /\ disk \in [1 .. TotalSteps -> Folder]
    BY <1>3, TrainerAssumption DEF SaveTransferQueue, TypeInv, TypeOK, StepInv
  <2>2. disk' = [disk EXCEPT ![gs] = f]
    BY <1>3 DEF SaveTransferQueue
  <2>3. /\ f.trained = disk[gs].trained /\ f.dropped = disk[gs].dropped
        /\ f.pos = disk[gs].pos /\ f.meta = Queue
    BY <2>1, AddPartFields
  <2> HIDE DEF f
  <2> QED
    BY <2>1, <2>2, <2>3
<1> QED
  BY <1>1, <1>2, <1>3

\* The workers may finish groups while a checkpoint is written, but add or remove none.
LEMMA WorkerLive ==
  ASSUME TypeOK, WorkerInv, \E u \in Item : Worker(u)
  PROVE  Live' = Live
<1> PICK u \in Item : Worker(u)
  OBVIOUS
<1>1. \A v \in Item : status'[v] # "absent" <=> status[v] # "absent"
  BY WorkerStep
<1> QED
  BY <1>1 DEF Live, Prompts, Queue

\* The parts of the folder being written agree with the trainer.
LEMMA SaveNext ==
  ASSUME Carried, TypeInv, WorkerInv, SaveInv, [Next]_vars
  PROVE  SaveInv'
<1>1. CASE \E u \in Item : Worker(u)
  <2>1. Live' = Live
    BY <1>1, WorkerLive DEF TypeInv
  <2>2. UNCHANGED <<pc, gs, pos, trained, dropped, disk>>
    BY <1>1, WorkerStep DEF TypeInv
  <2> QED
    BY <2>1, <2>2 DEF SaveInv, Prompts
<1>2. CASE SaveActor
  <2>1. UNCHANGED <<gs, trained, dropped>> /\ pc' = "data"
    BY <1>2 DEF SaveActor
  <2> QED
    BY <1>2, <2>1, SaveSteps DEF SaveInv
<1>3. CASE SaveDataloader
  <2>1. /\ UNCHANGED <<gs, trained, dropped, pos, status>> /\ pc = "data"
        /\ pc' = "tq" \/ (pc' = "tracker" /\ ~ TqCheckpoint)
    BY <1>3 DEF SaveDataloader, tqVars
  <2>2. /\ disk'[gs].trained = trained /\ disk'[gs].dropped = dropped
        /\ disk'[gs].pos = pos /\ disk'[gs].meta = disk[gs].meta
    BY <1>3, <2>1, SaveSteps DEF SaveInv
  <2>3. Live' = Live
    BY <2>1 DEF Live, Prompts, Queue
  <2>4. pc' = "tracker" => Prompts(disk'[gs].meta) = Live'
    BY <2>1, <2>2, <2>3 DEF Carried
  <2> QED
    BY <2>1, <2>2, <2>4 DEF SaveInv, Prompts
<1>4. CASE SaveTransferQueue
  <2>1. UNCHANGED <<gs, trained, dropped, pos, status>> /\ pc' = "tracker" /\ pc = "tq"
    BY <1>4 DEF SaveTransferQueue, tqVars
  <2>2. disk'[gs].meta = Queue
    BY <1>4, SaveSteps
  <2>3. Prompts(disk'[gs].meta) = Live'
    BY <2>1, <2>2 DEF Live, Prompts, Queue
  <2>4. /\ disk'[gs].trained = trained /\ disk'[gs].dropped = dropped
        /\ disk'[gs].pos = pos
    BY <1>4, <2>1, SaveSteps DEF SaveInv
  <2> QED
    BY <2>1, <2>3, <2>4 DEF SaveInv, Prompts
<1>5. CASE UNCHANGED vars
  BY <1>5 DEF vars, SaveInv, diskVars, tqVars, Live, Prompts, Queue
<1>6. CASE /\ ~ (\E u \in Item : Worker(u)) /\ ~ SaveActor /\ ~ SaveDataloader
           /\ ~ SaveTransferQueue /\ ~ UNCHANGED vars
  <2>1. pc' \notin {"data", "tq", "tracker"}
    BY <1>6 DEF Next, Trainer, Terminated, TrainEnd, SyncMetadata, SleepPoll,
       BalanceFails, UpdateActor, EnsureCapacity, WriteTracker, LoadCheckpoint, ReissueInflight, Warmup,
       Feed, DropStale, Refill, SelectBatch, StepEnd, Crash
  <2> QED
    BY <2>1 DEF SaveInv
<1> QED
  BY <1>1, <1>2, <1>3, <1>4, <1>5, <1>6

\* The folder the tracker names changes only by losing its actor.
LEMMA TrackedFolder ==
  ASSUME TypeInv, TrackerInv, WorkerInv, [Next]_vars, ~ WriteTracker, tracker # 0
  PROVE  /\ tracker' = tracker
         /\ disk'[tracker] = disk[tracker] \/ "actor" \notin disk'[tracker].parts
<1>0. tracker \in 1 .. TotalSteps
  BY TrainerAssumption DEF TypeInv, TypeOK
<1>1. CASE SaveActor \/ SaveDataloader \/ SaveTransferQueue
  <2>1. tracker' = tracker /\ tracker # gs
    BY <1>0, <1>1 DEF SaveActor, SaveDataloader, SaveTransferQueue, TrackerInv, TypeInv, TypeOK
  <2> QED
    BY <1>0, <1>1, <2>1, SaveSteps
<1>2. CASE EnsureCapacity
  BY <1>0, <1>2, RemoveActorFolder DEF EnsureCapacity, TypeInv
<1>3. CASE \E u \in Item : Worker(u)
  BY <1>3, WorkerStep DEF TypeInv
<1>4. CASE /\ ~ (\E u \in Item : Worker(u)) /\ ~ SaveActor /\ ~ SaveDataloader
           /\ ~ SaveTransferQueue /\ ~ EnsureCapacity
  BY <1>4 DEF Next, Trainer, Terminated, TrainEnd, SyncMetadata, SleepPoll,
     BalanceFails, UpdateActor, LoadCheckpoint, ReissueInflight, Warmup, Feed, DropStale, Refill,
     SelectBatch, StepEnd, Crash, vars, diskVars
<1> QED
  BY <1>1, <1>2, <1>3, <1>4

\* The tracked folder stays a consistent cut; the write of the tracker is the only step that
\* changes which folder that is.
LEMMA TrackedNext ==
  ASSUME TypeInv, WorkerInv, TakenInv, TrackerInv, SaveInv, ExactlyOnce, TrackedConsistent,
         [Next]_vars
  PROVE  TrackedConsistent'
<1>1. CASE WriteTracker
  <2>1. tracker' = gs /\ disk' = disk /\ taken = {}
    BY <1>1 DEF WriteTracker, TakenInv
  <2>2. /\ disk[gs].trained = trained /\ disk[gs].dropped = dropped
        /\ disk[gs].pos = pos /\ Prompts(disk[gs].meta) = Live
    BY <1>1 DEF WriteTracker, SaveInv
  <2>3. /\ trained \cap Live = {} /\ dropped \cap Live = {} /\ trained \cap dropped = {}
        /\ trained \cup dropped \cup Live = 1 .. pos
    BY <2>1 DEF ExactlyOnce
  <2>4. disk'[tracker'] = disk[gs]
    BY <2>1
  <2> QED
    BY <2>2, <2>3, <2>4 DEF TrackedConsistent, Prompts
<1>2. CASE ~ WriteTracker /\ tracker # 0
  BY <1>2, TrackedFolder DEF TrackedConsistent, Prompts
<1>3. CASE ~ WriteTracker /\ tracker = 0
  <2>1. tracker' = 0
    <3>1. CASE \E u \in Item : Worker(u)
      BY <1>3, <3>1, WorkerStep DEF TypeInv
    <3>2. CASE ~ (\E u \in Item : Worker(u))
      BY <1>3, <3>2 DEF Next, Trainer, Terminated, TrainEnd, SyncMetadata, SleepPoll,
         BalanceFails, UpdateActor, LoadCheckpoint, ReissueInflight, Warmup, Feed, DropStale, Refill,
         SelectBatch, StepEnd, Crash, vars, diskVars, EnsureCapacity, SaveActor,
         SaveDataloader, SaveTransferQueue
    <3> QED
      BY <3>1, <3>2
  <2> QED
    BY <2>1 DEF TrackedConsistent
<1> QED
  BY <1>1, <1>2, <1>3

-----------------------------------------------------------------------------
(* Every item is in exactly one place. *)

\* Fetching n items adds exactly them to the queue.
LEMMA AddPromptsLive ==
  ASSUME TypeOK, NEW n \in Nat, AddPrompts(n)
  PROVE  /\ Live' = Live \cup (pos + 1 .. pos + n)
         /\ pos' = pos + n
<1>1. pos \in Nat /\ pos + n <= MaxItems /\ pos' = pos + n
  BY DEF AddPrompts, TypeOK
<1>2. pos + 1 .. pos + n \subseteq Item
  BY <1>1, ItemsAssumption DEF Item
<1>3. status' = [u \in Item |-> IF u \in pos + 1 .. pos + n THEN "pending" ELSE status[u]]
  BY DEF AddPrompts, Dispatch, Fetched
<1> QED
  BY <1>1, <1>2, <1>3 DEF Live, Prompts, Queue

\* Clearing prompt keys S removes exactly them.
LEMMA KvClearLive ==
  ASSUME NEW S, NEW K, KvClear(S, K)
  PROVE  Live' = Live \ S
BY DEF KvClear, Live, Prompts, Queue

\* What the snapshot calls terminal is still in the queue.
LEMMA TerminalLive ==
  ASSUME TypeOK, WorkerInv, SnapInv
  PROVE  Terminal(snap) \subseteq Live
BY TerminalHasNoTask, LiveStatus

\* No step loses or duplicates an item, the load of a checkpoint included.
LEMMA ExactlyNext ==
  ASSUME Carried, TypeInv, WorkerInv, SnapInv, TakenInv, ExactlyOnce, TrackedConsistent,
         [Next]_vars
  PROVE  ExactlyOnce'
<1>1. CASE Quiet
  <2>1. Live' = Live
    BY <1>1, QuietStep DEF tqVars, Live, Prompts, Queue
  <2>2. CASE UpdateActor
    <3>1. trained' = trained \cup taken /\ taken' = {} /\ UNCHANGED <<dropped, pos>>
      BY <2>2 DEF UpdateActor
    <3> QED
      BY <2>1, <3>1 DEF ExactlyOnce
  <2>3. CASE ~ UpdateActor
    <3>1. UNCHANGED <<taken, trained, dropped, pos>>
      BY <1>1, <2>3 DEF Quiet, TrainEnd, SyncMetadata, SleepPoll, BalanceFails, EnsureCapacity, SaveActor,
         SaveDataloader, SaveTransferQueue, WriteTracker
    <3> QED
      BY <2>1, <3>1 DEF ExactlyOnce
  <2> QED
    BY <2>2, <2>3
<1>2. CASE LoadCheckpoint
  <2>1. taken = {} /\ taken' = {}
    BY <1>2 DEF LoadCheckpoint, TakenInv
  <2>2. CASE tracker = 0
    <3>1. UNCHANGED <<status, trained, dropped, pos>>
      BY <1>2, <2>2 DEF LoadCheckpoint, tqVars
    <3>2. Live' = Live
      BY <3>1 DEF Live, Prompts, Queue
    <3> QED
      BY <2>1, <3>1, <3>2 DEF ExactlyOnce
  <2>3. CASE tracker # 0
    <3> DEFINE f == disk[tracker]
    <3>1. /\ "actor" \in f.parts /\ trained' = f.trained /\ dropped' = f.dropped
          /\ pos' = f.pos
      BY <1>2, <2>3 DEF LoadCheckpoint
    <3>2. Live' = Prompts(f.meta)
      <4>1. CASE TqCheckpoint
        <5>1. status' = f.meta.status
          BY <1>2, <2>3, <4>1 DEF LoadCheckpoint
        <5> QED
          BY <5>1 DEF Live, Prompts, Queue
      <4>2. CASE ~ TqCheckpoint
        <5>1. status' = status /\ pc = "load"
          BY <1>2, <2>3, <4>2 DEF LoadCheckpoint, tqVars
        <5>2. Live' = Live
          BY <5>1 DEF Live, Prompts, Queue
        <5> QED
          BY <2>3, <4>2, <5>1, <5>2 DEF Carried
      <4> QED
        BY <4>1, <4>2
    <3>3. /\ f.trained \cap Prompts(f.meta) = {} /\ f.dropped \cap Prompts(f.meta) = {}
          /\ f.trained \cap f.dropped = {}
          /\ f.trained \cup f.dropped \cup Prompts(f.meta) = 1 .. f.pos
      BY <2>3, <3>1 DEF TrackedConsistent
    <3> HIDE DEF f
    <3> QED
      BY <2>1, <3>1, <3>2, <3>3 DEF ExactlyOnce
  <2> QED
    BY <2>2, <2>3
<1>3. CASE ReissueInflight
  <2>1. \A u \in Item : status'[u] # "absent" <=> status[u] # "absent"
    BY <1>3 DEF ReissueInflight, InflightUids, InFlight, Queue
  <2>2. Live' = Live
    BY <2>1 DEF Live, Prompts, Queue
  <2>3. UNCHANGED <<taken, trained, dropped, pos>>
    BY <1>3 DEF ReissueInflight
  <2> QED
    BY <2>2, <2>3 DEF ExactlyOnce
<1>4. CASE Warmup \/ Feed \/ Refill
  <2>1. UNCHANGED <<taken, trained, dropped>>
    BY <1>4 DEF Warmup, Feed, Refill
  <2>2. CASE UNCHANGED <<status, pos>>
    <3>1. Live' = Live
      BY <2>2 DEF Live, Prompts, Queue
    <3> QED
      BY <2>1, <2>2, <3>1 DEF ExactlyOnce
  <2>3. CASE \E n \in Nat : AddPrompts(n)
    <3> PICK n \in Nat : AddPrompts(n)
      BY <2>3
    <3>1. Live' = Live \cup (pos + 1 .. pos + n) /\ pos' = pos + n /\ pos \in Nat
      BY AddPromptsLive DEF TypeInv, TypeOK
    <3>2. 1 .. pos' = (1 .. pos) \cup (pos + 1 .. pos + n)
      BY <3>1
    <3>3. (1 .. pos) \cap (pos + 1 .. pos + n) = {}
      BY <3>1
    <3> DEFINE old == 1 .. pos
               new == pos + 1 .. pos + n
    <3>4. /\ Live' = Live \cup new /\ 1 .. pos' = old \cup new /\ old \cap new = {}
          /\ Live \cup taken \cup trained \cup dropped = old
      BY <3>1, <3>2, <3>3 DEF ExactlyOnce
    <3> HIDE DEF old, new
    <3> QED
      BY <2>1, <3>4 DEF ExactlyOnce
  <2>4. UNCHANGED <<status, pos>> \/ \E n \in Nat : AddPrompts(n)
    <3>1. CASE Warmup
      BY <3>1, TrainBatchNat DEF Warmup, tqVars
    <3>2. CASE Feed
      BY <3>2, TrainBatchNat DEF Feed
    <3>3. CASE Refill
      BY <3>3 DEF Refill, TypeInv, TypeOK
    <3> QED
      BY <1>4, <3>1, <3>2, <3>3
  <2> QED
    BY <2>2, <2>3, <2>4
<1>5. CASE DropStale
  <2> DEFINE S == StaleKeys(gs, snap)
  <2>1. S \subseteq Live
    BY SampleableTerminal, TerminalLive DEF TypeInv
  <2>2. Live' = Live \ S /\ dropped' = dropped \cup S /\ UNCHANGED <<taken, trained, pos>>
    BY <1>5, KvClearLive DEF DropStale
  <2> HIDE DEF S
  <2> QED
    BY <2>1, <2>2 DEF ExactlyOnce
<1>6. CASE SelectBatch
  <2>1. PICK S \in OldestFirst(gs, snap, SampleBatch) : KvClear(S, SampledClears(S)) /\ taken' = S
    BY <1>6 DEF SelectBatch
  <2>2. S \subseteq Live
    BY SampleableTerminal, TerminalLive DEF TypeInv, OldestFirst
  <2>3. Live' = Live \ S /\ taken = {} /\ UNCHANGED <<trained, dropped, pos>>
    BY <1>6, <2>1, KvClearLive DEF SelectBatch, TakenInv
  <2> QED
    BY <2>1, <2>2, <2>3 DEF ExactlyOnce
<1>7. CASE StepEnd
  <2>1. Live' = Live \ {}
    BY <1>7, KvClearLive DEF StepEnd
  <2>2. UNCHANGED <<taken, trained, dropped, pos>>
    BY <1>7 DEF StepEnd
  <2> QED
    BY <2>1, <2>2 DEF ExactlyOnce
<1>8. CASE Crash
  <2>1. Live' = {}
    BY <1>8 DEF Crash, EmptyMeta, Live, Prompts, Queue
  <2>2. taken' = {} /\ trained' = {} /\ dropped' = {} /\ pos' = 0
    BY <1>8 DEF Crash
  <2> QED
    BY <2>1, <2>2 DEF ExactlyOnce
<1>9. CASE \E u \in Item : Worker(u)
  <2>1. Live' = Live
    BY <1>9, WorkerLive DEF TypeInv
  <2>2. UNCHANGED <<taken, trained, dropped, pos>>
    BY <1>9, WorkerStep DEF TypeInv
  <2> QED
    BY <2>1, <2>2 DEF ExactlyOnce
<1>10. CASE UNCHANGED vars
  BY <1>10 DEF vars, tqVars, ExactlyOnce, Live, Prompts, Queue
<1> QED
  BY <1>1, <1>2, <1>3, <1>4, <1>5, <1>6, <1>7, <1>8, <1>9, <1>10, NextCases

-----------------------------------------------------------------------------
(* The theorems. *)

\* The inductive invariant holds before the first load.
LEMMA IndInit == Init => IndInv
<1> SUFFICES ASSUME Init PROVE IndInv
  OBVIOUS
<1>1. Live = {}
  BY DEF Init, EmptyMeta, Live, Prompts, Queue
<1>2. TypeInv
  BY TypeInit
<1>3. SnapInv
  BY TerminalEmpty DEF Init, SnapInv
<1>4. WorkerInv /\ TakenInv /\ TrackerInv /\ SaveInv /\ TrackedConsistent
  BY DEF Init, EmptyMeta, WorkerInv, TakenInv, TrackerInv, SaveInv, TrackedConsistent
<1>5. ExactlyOnce
  BY <1>1 DEF Init, ExactlyOnce
<1> QED
  BY <1>2, <1>3, <1>4, <1>5 DEF IndInv

\* Every step keeps the inductive invariant.
LEMMA IndNext == IndInv /\ Carried /\ [Next]_vars => IndInv'
BY TypeNext, WorkerNext, SnapNext, TakenNext, TrackerNext, SaveNext, TrackedNext, ExactlyNext
DEF IndInv

\* The inductive invariant holds in every reachable state.
LEMMA IndInvariant == ASSUME TqCheckpoint PROVE Spec => []IndInv
<1>1. Carried
  BY DEF Carried
<1> QED
  BY <1>1, IndInit, IndNext, PTL DEF Spec

\* With TransferQueue checkpoints, every item the dataloader ever handed out is
\* trained once, dropped once, or still in the queue or in the update in progress:
\* through any interleaving of workers and trainer, any number of failed sessions,
\* drops and refills, and a crash at any instant followed by a resume.
THEOREM ItemsExactlyOnce == ASSUME TqCheckpoint PROVE Spec => []ExactlyOnce
<1>1. IndInv => ExactlyOnce
  BY DEF IndInv
<1> QED
  BY <1>1, IndInvariant, PTL

\* The checkpoint the tracker names is a consistent cut although its parts are
\* written one after the other while the workers go on writing to the queue.
THEOREM CheckpointConsistent == ASSUME TqCheckpoint PROVE Spec => []TrackedConsistent
<1>1. IndInv => TrackedConsistent
  BY DEF IndInv
<1> QED
  BY <1>1, IndInvariant, PTL

\* The step of TerminalIsFinal.
FinalStep ==
  \A u \in Item :
    /\ status[u] \in {"finished", "failure"} => status'[u] \in {status[u], "absent"}
    /\ status[u] = "absent" /\ status'[u] # "absent" => u > pos \/ pc = "load"

\* A terminal group keeps its status or is cleared, and an absent key appears only by a fetch
\* or a load.
LEMMA FinalNext == ASSUME IndInv, [Next]_vars PROVE FinalStep
<1>0. TypeOK /\ WorkerInv /\ SnapInv /\ ExactlyOnce
  BY DEF IndInv, TypeInv
<1>1. CASE UNCHANGED status
  BY <1>1 DEF FinalStep
<1>2. CASE LoadCheckpoint
  BY <1>0, <1>2 DEF LoadCheckpoint, WorkerInv, FinalStep
<1>3. CASE ReissueInflight
  BY <1>3 DEF ReissueInflight, InflightUids, InFlight, Queue, FinalStep
<1>4. CASE \E n \in Nat : AddPrompts(n)
  <2> PICK n \in Nat : AddPrompts(n)
    BY <1>4
  <2>1. pos \in Nat
    BY <1>0 DEF TypeOK
  <2>2. \A u \in Item : u \in pos + 1 .. pos + n => u > pos /\ u \notin 1 .. pos
    BY <2>1 DEF Item
  <2>3. \A u \in Item : status[u] # "absent" => u \in 1 .. pos
    BY <1>0, LiveStatus DEF ExactlyOnce
  <2>4. status' = [u \in Item |-> IF u \in pos + 1 .. pos + n THEN "pending" ELSE status[u]]
    BY DEF AddPrompts, Dispatch, Fetched
  <2> QED
    BY <2>2, <2>3, <2>4 DEF FinalStep
<1>5. CASE \E S, K : KvClear(S, K)
  BY <1>5 DEF KvClear, FinalStep
<1>6. CASE \E u \in Item : Worker(u)
  BY <1>0, <1>6, WorkerStep DEF FinalStep
<1>7. CASE Crash
  BY <1>7 DEF Crash, EmptyMeta, FinalStep
<1>8. CASE Warmup \/ Feed \/ Refill
  BY <1>0, <1>1, <1>4, <1>8, TrainBatchNat DEF Warmup, Feed, Refill, tqVars, TypeOK
<1>9. CASE DropStale \/ SelectBatch \/ StepEnd
  BY <1>5, <1>9 DEF DropStale, SelectBatch, StepEnd
<1>10. CASE Quiet
  BY <1>1, <1>10, QuietStep DEF tqVars
<1>11. CASE UNCHANGED vars
  BY <1>1, <1>11 DEF vars, tqVars
<1> QED
  BY <1>2, <1>3, <1>6, <1>7, <1>8, <1>9, <1>10, <1>11, NextCases

\* A terminal group stays as it is until the sampler clears it, and a key that was
\* cleared never comes back: no late worker reopens a group the trainer consumed.
THEOREM TerminalGroupsFinal == ASSUME TqCheckpoint PROVE Spec => TerminalIsFinal
<1>1. IndInv /\ [Next]_vars => [FinalStep]_vars
  BY FinalNext
<1>2. TerminalIsFinal <=> [][FinalStep]_vars
  BY DEF TerminalIsFinal, FinalStep
<1> QED
  BY <1>1, <1>2, IndInvariant, PTL DEF Spec
=============================================================================
