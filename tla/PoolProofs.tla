----------------------------- MODULE PoolProofs -----------------------------
(***************************************************************************)
(* Counting proofs about AsyncPPO: how many groups are submitted between   *)
(* two steps, how many faults it takes to stop the trainer, and how old    *)
(* the groups get that the wait strategy trains on.                        *)
(***************************************************************************)
EXTENDS QueueProofs

-----------------------------------------------------------------------------
(* The number of submitted groups. *)

PoolLow == WarmupBatches * TrainBatch

\* The groups that the rest of the step takes from the pool.
Due ==
  IF pc \in {"poll", "decide", "refill"} THEN (SyncSteps - iter) * SampleBatch
  ELSE IF pc \in {"train", "raised"} THEN (SyncSteps - iter - 1) * SampleBatch
  ELSE 0

\* The groups that were dropped and not yet replaced.
Owed == IF pc = "refill" THEN refill ELSE 0

\* Every restart adds one warm-up to what it restores.  The rest of the loop takes what
\* it feeds.
PoolInv ==
  /\ warm <= WarmupBatches
  /\ pc \in {"poll", "decide", "refill", "train", "raised"} => iter < SyncSteps
  /\ pc \in {"load", "reissue"} => Cardinality(Live) <= crashes * PoolLow /\ warm = 0
  /\ pc = "warmup" => /\ warm * TrainBatch <= Cardinality(Live)
                      /\ Cardinality(Live) <= crashes * PoolLow + warm * TrainBatch
  /\ pc \notin {"load", "reissue", "warmup"} =>
       /\ PoolLow <= Cardinality(Live) + Owed - Due
       /\ Cardinality(Live) + Owed - Due <= crashes * PoolLow + PoolLow

\* The pool that a checkpoint restores.
StoredPool ==
  TqCheckpoint /\ tracker # 0 =>
    LET n == Cardinality(Prompts(disk[tracker].meta))
    IN  /\ n <= crashes * PoolLow + PoolLow
        /\ pc = "load" => n <= crashes * PoolLow

-----------------------------------------------------------------------------
(* The groups without trajectories. *)

\* Session s of group u is over and left no trajectory.
Lost(u, s) == traj[u][s] = 0 /\ sess[u][s] # "run"

\* Group u lacks a trajectory for good: it has ended, or it will.
Wanting(u) ==
  \/ /\ status[u] \in {"finished", "failure"} \/ u \in taken
     /\ \E s \in Session : traj[u][s] = 0
  \/ /\ task[u] = "gather"
     /\ \E s \in Session : sess[u][s] \in {"ok", "err"} /\ traj[u][s] = 0

Faulty == {u \in Item : Wanting(u)}

\* The groups of metadata m that ended and lack a trajectory.
Incomplete(m) == {u \in Terminal(m) : \E s \in Session : m.traj[u][s] = 0}

\* Sessions start without trajectories, and a failed group lacks the one of the session
\* that failed.
Gap(u) ==
  /\ task[u] = "queued" => \A s \in Session : Lost(u, s)
  /\ \A s \in Session :
       /\ sess[u][s] = "err" => task[u] = "gather" /\ traj[u][s] = 0
       /\ sess[u][s] = "run" /\ task[u] = "gather" => traj[u][s] = 0
  /\ status[u] = "failure" => \E s \in Session : Lost(u, s)
  /\ status[u] = "finished" => \A s \in Session : sess[u][s] # "run"

GapInv == \A u \in Item : Gap(u)

\* No more groups of metadata m lack a trajectory than there were faults, and every failed
\* one does.
Counted(m) ==
  /\ Cardinality(Incomplete(m)) <= faults
  /\ \A u \in Item : m.status[u] = "failure" => \E s \in Session : m.traj[u][s] = 0

\* The folder being written and the one the tracker names.
DiskGap ==
  TqCheckpoint => /\ pc = "tracker" => Counted(disk[gs].meta)
                  /\ tracker # 0 => Counted(disk[tracker].meta)

\* A terminal group with no trajectory in the snapshot lacks one for good.
SnapGap ==
  \A u \in Terminal(snap) :
    (\A s \in Session : snap.traj[u][s] = 0) => \E s \in Session : Lost(u, s)

\* So does a group of the update with no trajectory in the batch.
TakenGap ==
  /\ pc \in {"train", "raised"} => Cardinality(taken) = SampleBatch
  /\ \A u \in taken :
       /\ status[u] = "absent"
       /\ (\A s \in Session : <<u, s>> \notin batch) => \E s \in Session : Lost(u, s)

FaultInv == GapInv /\ DiskGap /\ SnapGap /\ TakenGap /\ Cardinality(Faulty) <= faults

-----------------------------------------------------------------------------
(* Counting. *)

\* Sets of items are finite.
LEMMA ItemsFinite == ASSUME NEW S \in SUBSET Item PROVE IsFiniteSet(S) /\ Cardinality(S) \in Nat
<1>1. IsFiniteSet(Item)
  BY ItemsAssumption, FS_Interval DEF Item
<1>2. IsFiniteSet(S)
  BY <1>1, FS_Subset
<1> QED
  BY <1>2, FS_CardinalityType

\* A subset has at most as many elements.
LEMMA ItemsMonotone ==
  ASSUME NEW S \in SUBSET Item, NEW T \in SUBSET S
  PROVE  Cardinality(T) <= Cardinality(S)
BY ItemsFinite, FS_Subset

\* The pool and its parts are sets of items.
LEMMA LiveItems == Live \in SUBSET Item
BY LiveStatus

\* The next n items are n.
LEMMA CountFetched ==
  ASSUME NEW p \in Nat, NEW n \in Nat
  PROVE  IsFiniteSet(p + 1 .. p + n) /\ Cardinality(p + 1 .. p + n) = n
<1> DEFINE a == p + 1
           b == p + n
<1>1. a \in Int /\ b \in Int
  OBVIOUS
<1>2. (a > b => n = 0) /\ (~ (a > b) => b - a + 1 = n)
  OBVIOUS
<1> HIDE DEF a, b
<1>3. IsFiniteSet(a .. b) /\ Cardinality(a .. b) = IF a > b THEN 0 ELSE b - a + 1
  BY <1>1, FS_Interval
<1>4. IsFiniteSet(a .. b) /\ Cardinality(a .. b) = n
  BY <1>2, <1>3
<1> QED
  BY <1>4 DEF a, b

\* Fetching n items adds n groups.
LEMMA PoolAdd ==
  ASSUME TypeOK, Sound(Queue, pos), NEW n \in Nat, AddPrompts(n)
  PROVE  Cardinality(Live') = Cardinality(Live) + n
<1> DEFINE new == pos + 1 .. pos + n
<1>1. Live' = Live \cup new /\ pos \in Nat
  BY AddPromptsLive DEF TypeOK
<1>2. Live \cap new = {}
  BY <1>1, LiveStatus DEF Sound, Queue, Item
<1>3. IsFiniteSet(new) /\ Cardinality(new) = n
  BY <1>1, CountFetched
<1>4. IsFiniteSet(Live) /\ Cardinality(Live) \in Nat
  BY LiveItems, ItemsFinite
<1> HIDE DEF new
<1>5. Cardinality(Live \cup new) = Cardinality(Live) + Cardinality(new) - Cardinality({})
  BY <1>2, <1>3, <1>4, FS_Union
<1>6. Cardinality({}) = 0
  BY FS_EmptySet
<1> QED
  BY <1>1, <1>3, <1>4, <1>5, <1>6

\* Clearing prompt keys of the pool removes that many groups.
LEMMA PoolRemove ==
  ASSUME NEW S \in SUBSET Live, NEW K, KvClear(S, K)
  PROVE  Cardinality(Live') = Cardinality(Live) - Cardinality(S)
<1>1. Live' = Live \ S
  BY KvClearLive
<1>2. IsFiniteSet(Live)
  BY LiveItems, ItemsFinite
<1>3. Live \cap S = S
  OBVIOUS
<1> QED
  BY <1>1, <1>2, <1>3, FS_Difference

\* The products that the bounds are made of.
LEMMA Products ==
  ASSUME NEW i \in Nat, NEW c \in Nat
  PROVE  /\ PoolLow \in Nat /\ TrainBatch \in Nat /\ c * PoolLow \in Nat
         /\ i * TrainBatch \in Nat
         /\ (i + 1) * TrainBatch = i * TrainBatch + TrainBatch
         /\ (c + 1) * PoolLow = c * PoolLow + PoolLow
         /\ (c + 1) * WarmupBatches * TrainBatch = c * PoolLow + PoolLow
         /\ (SyncSteps - 0) * SampleBatch = TrainBatch
         /\ (SyncSteps - i) * SampleBatch \in Int
         /\ (SyncSteps - i - 1) * SampleBatch = (SyncSteps - i) * SampleBatch - SampleBatch
         /\ (SyncSteps - (i + 1)) * SampleBatch = (SyncSteps - i) * SampleBatch - SampleBatch
         /\ i + 1 = SyncSteps => (SyncSteps - i) * SampleBatch = SampleBatch
<1>1. SampleBatch \in Nat /\ SyncSteps \in Nat /\ WarmupBatches \in Nat
  BY TrainerAssumption
<1>2. TrainBatch \in Nat /\ TrainBatch = SampleBatch * SyncSteps
  BY <1>1 DEF TrainBatch
<1>3. PoolLow \in Nat /\ PoolLow = WarmupBatches * TrainBatch
  BY <1>1, <1>2 DEF PoolLow
<1>4. (c + 1) * WarmupBatches * TrainBatch = (c + 1) * PoolLow
  <2>1. \A a, b, d \in Nat : (a * b) * d = a * (b * d)
    OBVIOUS
  <2> QED
    BY <1>1, <1>2, <1>3, <2>1
<1>5. (i + 1) * TrainBatch = i * TrainBatch + TrainBatch /\ i * TrainBatch \in Nat
  BY <1>2
<1>6. (c + 1) * PoolLow = c * PoolLow + PoolLow /\ c * PoolLow \in Nat
  BY <1>3
<1>7. /\ (SyncSteps - 0) * SampleBatch = TrainBatch
      /\ (SyncSteps - i) * SampleBatch \in Int
  BY <1>1, <1>2
<1>8. /\ (SyncSteps - i - 1) * SampleBatch = (SyncSteps - i) * SampleBatch - SampleBatch
      /\ (SyncSteps - (i + 1)) * SampleBatch = (SyncSteps - i) * SampleBatch - SampleBatch
  BY <1>1
<1>9. i + 1 = SyncSteps => (SyncSteps - i) * SampleBatch = SampleBatch
  BY <1>1
<1> QED
  BY <1>2, <1>3, <1>4, <1>5, <1>6, <1>7, <1>8, <1>9

-----------------------------------------------------------------------------
(* The pool between two steps. *)

\* Steps that neither add nor remove a prompt key.
LEMMA SamePool ==
  ASSUME TypeInv, WorkerInv, [Next]_vars,
         Quiet \/ ReissueInflight \/ StepEnd \/ UNCHANGED vars \/ \E u \in Item : Worker(u)
  PROVE  Live' = Live
<1>1. CASE Quiet \/ UNCHANGED vars
  BY <1>1, QuietStep DEF tqVars, vars, Live, Prompts, Queue
<1>2. CASE ReissueInflight
  <2>1. \A u \in Item : status'[u] # "absent" <=> status[u] # "absent"
    BY <1>2 DEF ReissueInflight, InflightUids, InFlight, Queue
  <2> QED
    BY <2>1 DEF Live, Prompts, Queue
<1>3. CASE StepEnd
  BY <1>3, KvClearLive DEF StepEnd
<1>4. CASE \E u \in Item : Worker(u)
  BY <1>4, WorkerLive DEF TypeInv
<1> QED
  BY <1>1, <1>2, <1>3, <1>4

\* What a worker leaves alone, for the counts.
LEMMA WorkerCounts ==
  ASSUME TypeOK, NEW u \in Item, Worker(u)
  PROVE  UNCHANGED <<iter, warm, refill, crashes>>
BY DEF Worker, StartPrompt, SessionEnd, SessionEmpty, SessionFail, PromptFinished, PromptFailure,
   bufferVars, ghostVars

\* The pool that a save stores is the pool of the loop at the end of an update.
LEMMA StoredPoolNext ==
  ASSUME QueueInd, TqCheckpoint => IndInv, PoolInv, StoredPool, [Next]_vars
  PROVE  StoredPool'
<1> SUFFICES ASSUME TqCheckpoint, tracker' # 0
             PROVE  /\ Cardinality(Prompts(disk'[tracker'].meta)) <= crashes' * PoolLow + PoolLow
                    /\ pc' = "load" =>
                         Cardinality(Prompts(disk'[tracker'].meta)) <= crashes' * PoolLow
  BY DEF StoredPool, Prompts
<1>t. TypeInv /\ TypeOK /\ WorkerInv /\ TrackerInv /\ SaveInv
  BY DEF QueueInd, IndInv, TypeInv
<1>c. crashes \in Nat /\ Cardinality(Live) \in Nat
  BY <1>t, LiveItems, ItemsFinite DEF TypeOK
<1>1. CASE WriteTracker
  <2>1. /\ pc = "tracker" /\ pc' = "step_end" /\ tracker' = gs /\ UNCHANGED <<disk, crashes>>
    BY <1>1 DEF WriteTracker, ghostVars
  <2>2. Prompts(disk'[tracker'].meta) = Live
    BY <1>t, <2>1 DEF SaveInv
  <2>3. Cardinality(Live) + 0 - 0 <= crashes * PoolLow + PoolLow
    BY <2>1 DEF PoolInv, Owed, Due
  <2> QED
    BY <1>c, <2>1, <2>2, <2>3
<1>2. CASE ~ WriteTracker
  <2>0. tracker' = tracker
    <3>1. CASE (\E u \in Item : Worker(u)) \/ UNCHANGED vars
      BY <1>t, <3>1, WorkerEffect DEF vars, diskVars
    <3> QED
      BY <1>2, <1>t, <3>1, SavePc
  <2>1. tracker \in 1 .. TotalSteps /\ (tracker = gs => ~ SaveDataloader /\ ~ SaveTransferQueue)
    BY <1>t, <2>0, TrainerAssumption DEF SaveDataloader, SaveTransferQueue, TrackerInv, TypeOK
  <2>2. disk'[tracker'].meta = disk[tracker].meta
    BY <1>t, <2>0, <2>1, FolderKept
  <2> DEFINE n == Cardinality(Prompts(disk[tracker].meta))
  <2>3. n \in Nat
    BY ItemsFinite DEF Prompts
  <2>4. n <= crashes * PoolLow + PoolLow /\ (pc = "load" => n <= crashes * PoolLow)
    BY <2>0 DEF StoredPool
  <2>5. Cardinality(Prompts(disk'[tracker'].meta)) = n
    BY <2>2
  <2> HIDE DEF n
  <2>6. CASE Crash
    <3>1. crashes' = crashes + 1
      BY <2>6 DEF Crash
    <3>2. crashes' * PoolLow = crashes * PoolLow + PoolLow /\ crashes * PoolLow \in Nat
          /\ PoolLow \in Nat
      BY <1>c, <3>1, Products
    <3> QED
      BY <2>3, <2>4, <2>5, <3>2
  <2>7. CASE ~ Crash
    <3>1. crashes' = crashes /\ (pc' = "load" => pc = "load")
      <4>1. CASE \E u \in Item : Worker(u)
        BY <1>t, <4>1, WorkerEffect, WorkerCounts
      <4>2. CASE ~ \E u \in Item : Worker(u)
        BY <2>7, <4>2 DEF Next, Trainer, Terminated, TrainEnd, SyncMetadata, SleepPoll,
           BalanceFails, UpdateActor, EnsureCapacity, SaveActor, SaveDataloader,
           SaveTransferQueue, WriteTracker, LoadCheckpoint, ReissueInflight, Warmup, Feed,
           DropStale, Refill, SelectBatch, StepEnd, vars, ghostVars
      <4> QED
        BY <4>1, <4>2
    <3> QED
      BY <2>4, <2>5, <3>1
  <2> QED
    BY <2>6, <2>7
<1> QED
  BY <1>1, <1>2

\* Each step changes the pool by what it owes or takes.
LEMMA PoolNext ==
  ASSUME QueueInd, PoolInv, StoredPool, [Next]_vars
  PROVE  PoolInv'
<1>t. /\ TypeInv /\ TypeOK /\ WorkerInv /\ SnapInv /\ StartInv /\ Sound(Queue, pos)
  BY DEF QueueInd, QueueInv, TypeInv
<1> DEFINE L == Cardinality(Live)
           C == crashes * PoolLow
           D == (SyncSteps - iter) * SampleBatch
           T == TrainBatch
           V == warm * TrainBatch
<1>c. /\ crashes \in Nat /\ iter \in Nat /\ warm \in Nat /\ refill \in Nat /\ L \in Nat
      /\ SampleBatch \in Nat \ {0} /\ SyncSteps \in Nat \ {0} /\ WarmupBatches \in Nat
  BY <1>t, LiveItems, ItemsFinite, TrainerAssumption DEF TypeOK
<1>p. /\ PoolLow \in Nat /\ T \in Nat /\ C \in Nat /\ V \in Nat /\ D \in Int
      /\ (warm + 1) * TrainBatch = V + T
      /\ (crashes + 1) * PoolLow = C + PoolLow
      /\ (SyncSteps - 0) * SampleBatch = T
      /\ (SyncSteps - iter - 1) * SampleBatch = D - SampleBatch
      /\ (SyncSteps - (iter + 1)) * SampleBatch = D - SampleBatch
      /\ iter + 1 = SyncSteps => D = SampleBatch
      /\ WarmupBatches * TrainBatch = PoolLow
  BY <1>c, Products DEF PoolLow
<1>1. CASE LoadCheckpoint
  <2>1. pc = "load" /\ pc' = "reissue" /\ UNCHANGED <<crashes, warm>>
    BY <1>1 DEF LoadCheckpoint
  <2>2. CASE tracker # 0 /\ TqCheckpoint
    <3>1. status' = disk[tracker].meta.status
      BY <1>1, <2>2 DEF LoadCheckpoint
    <3>2. Live' = Prompts(disk[tracker].meta)
      BY <3>1 DEF Live, Prompts, Queue
    <3>3. Cardinality(Live') <= crashes * PoolLow
      BY <2>1, <2>2, <3>2 DEF StoredPool
    <3> QED
      BY <2>1, <3>3 DEF PoolInv
  <2>3. CASE tracker = 0 \/ ~ TqCheckpoint
    <3>1. status' = status
      BY <1>1, <2>3 DEF LoadCheckpoint, tqVars
    <3>2. Live' = Live
      BY <3>1 DEF Live, Prompts, Queue
    <3> QED
      BY <2>1, <3>2 DEF PoolInv
  <2> QED
    BY <2>2, <2>3
<1>2. CASE ReissueInflight
  <2>1. pc = "reissue" /\ pc' = "warmup" /\ UNCHANGED <<crashes, warm>> /\ Live' = Live
    BY <1>2, <1>t, SamePool DEF ReissueInflight, ghostVars
  <2>2. L <= C /\ warm = 0
    BY <2>1 DEF PoolInv
  <2>3. 0 * TrainBatch = 0
    BY <1>p
  <2> QED
    BY <1>c, <1>p, <2>1, <2>2, <2>3 DEF PoolInv
<1>3. CASE Warmup
  <2>0. pc = "warmup" /\ UNCHANGED <<crashes, iter>>
    BY <1>3 DEF Warmup, ghostVars
  <2>1. V <= L /\ L <= C + V /\ warm <= WarmupBatches
    BY <2>0 DEF PoolInv
  <2>2. CASE WarmupLeft
    <3>1. AddPrompts(TrainBatch) /\ warm' = warm + 1 /\ pc' = "warmup"
      BY <1>3, <2>2 DEF Warmup
    <3>2. Cardinality(Live') = L + T
      BY <1>t, <1>p, <3>1, PoolAdd
    <3>3. warm' <= WarmupBatches
      BY <1>c, <2>2, <3>1 DEF WarmupLeft
    <3>4. warm' * TrainBatch = V + T /\ crashes' * PoolLow = C
      BY <1>p, <2>0, <3>1
    <3> HIDE DEF L, C, V, T
    <3>5. warm' * TrainBatch <= Cardinality(Live')
      BY <1>c, <1>p, <2>1, <3>2, <3>4
    <3>6. Cardinality(Live') <= crashes' * PoolLow + warm' * TrainBatch
      BY <1>c, <1>p, <2>1, <3>2, <3>4
    <3> QED
      BY <3>1, <3>3, <3>5, <3>6 DEF PoolInv
  <2>3. CASE ~ WarmupLeft
    <3>1. UNCHANGED <<status, warm>> /\ pc' = "feed"
      BY <1>3, <2>3 DEF Warmup, tqVars
    <3>2. Live' = Live
      BY <3>1 DEF Live, Prompts, Queue
    <3>3. warm = WarmupBatches
      BY <1>c, <2>1, <2>3 DEF WarmupLeft
    <3>4. V = PoolLow
      BY <3>3 DEF PoolLow
    <3>5. Owed' = 0 /\ Due' = 0
      BY <3>1 DEF Owed, Due
    <3>6. PoolLow <= L + 0 - 0 /\ L + 0 - 0 <= C + PoolLow
      BY <1>c, <1>p, <2>1, <3>4
    <3> QED
      BY <2>0, <2>1, <3>1, <3>2, <3>5, <3>6 DEF PoolInv
  <2> QED
    BY <2>2, <2>3
<1>4. CASE Feed
  <2>0. /\ pc = "feed" /\ pc' = "poll" /\ iter' = 0 /\ UNCHANGED <<crashes, warm>>
        /\ AddPrompts(TrainBatch)
    BY <1>4 DEF Feed, ghostVars
  <2>1. Owed = 0 /\ Due = 0 /\ Owed' = 0 /\ Due' = T
    BY <1>p, <2>0 DEF Owed, Due
  <2>2. PoolLow <= L + 0 - 0 /\ L + 0 - 0 <= C + PoolLow /\ warm <= WarmupBatches
    BY <2>0, <2>1 DEF PoolInv
  <2>3. Cardinality(Live') = L + T
    BY <1>t, <1>p, <2>0, PoolAdd
  <2>4. /\ PoolLow <= Cardinality(Live') + Owed' - Due'
        /\ Cardinality(Live') + Owed' - Due' <= C + PoolLow
    <3> HIDE DEF L, C, T
    <3> QED
      BY <1>c, <1>p, <2>1, <2>2, <2>3
  <2>5. iter' < SyncSteps
    BY <1>c, <2>0
  <2> QED
    BY <2>0, <2>2, <2>4, <2>5 DEF PoolInv
<1>5. CASE Refill
  <2>0. /\ pc = "refill" /\ pc' = "poll" /\ UNCHANGED <<crashes, warm, iter>>
        /\ AddPrompts(refill)
    BY <1>5 DEF Refill, ghostVars
  <2>1. Owed = refill /\ Due = D /\ Owed' = 0 /\ Due' = D
    BY <2>0 DEF Owed, Due
  <2>2. PoolLow <= L + refill - D /\ L + refill - D <= C + PoolLow /\ warm <= WarmupBatches
        /\ iter < SyncSteps
    BY <2>0, <2>1 DEF PoolInv
  <2>3. Cardinality(Live') = L + refill
    BY <1>t, <1>c, <2>0, PoolAdd
  <2>4. /\ PoolLow <= Cardinality(Live') + Owed' - Due'
        /\ Cardinality(Live') + Owed' - Due' <= C + PoolLow
    <3> HIDE DEF L, C, D
    <3> QED
      BY <1>c, <1>p, <2>1, <2>2, <2>3
  <2> QED
    BY <2>0, <2>2, <2>4 DEF PoolInv
<1>6. CASE DropStale
  <2> DEFINE S == StaleKeys(gs, snap)
  <2>0. /\ pc = "decide" /\ pc' = "refill" /\ UNCHANGED <<crashes, warm, iter>>
        /\ refill' = Cardinality(S) /\ KvClear(S, DroppedKeys(S))
    BY <1>6 DEF DropStale, ghostVars, NumRefill
  <2>1. S \in SUBSET Live
    BY <1>t, SampleableTerminal, TerminalLive
  <2>2. Cardinality(S) \in Nat
    BY <2>1, LiveItems, ItemsFinite
  <2>3. Cardinality(Live') = L - Cardinality(S)
    BY <2>0, <2>1, PoolRemove
  <2>4. Owed = 0 /\ Due = D /\ Owed' = Cardinality(S) /\ Due' = D
    BY <2>0 DEF Owed, Due
  <2>5. PoolLow <= L + 0 - D /\ L + 0 - D <= C + PoolLow /\ warm <= WarmupBatches
        /\ iter < SyncSteps
    BY <2>0, <2>4 DEF PoolInv
  <2>6. /\ PoolLow <= Cardinality(Live') + Owed' - Due'
        /\ Cardinality(Live') + Owed' - Due' <= C + PoolLow
    <3> HIDE DEF L, C, D, S
    <3> QED
      BY <1>c, <1>p, <2>2, <2>3, <2>4, <2>5
  <2> QED
    BY <2>0, <2>5, <2>6 DEF PoolInv
<1>7. CASE SelectBatch
  <2>1. PICK S \in OldestFirst(gs, snap, SampleBatch) : KvClear(S, SampledClears(S))
    BY <1>7 DEF SelectBatch
  <2>2. S \in SUBSET Live /\ Cardinality(S) = SampleBatch
    BY <1>t, SampleableTerminal, TerminalLive DEF OldestFirst
  <2>3. Cardinality(Live') = L - SampleBatch
    BY <2>1, <2>2, PoolRemove
  <2>4. pc = "decide" /\ pc' = "train" /\ UNCHANGED <<crashes, warm, iter>>
    BY <1>7 DEF SelectBatch, ghostVars
  <2>5. Owed = 0 /\ Due = D /\ Owed' = 0 /\ Due' = D - SampleBatch
    BY <1>p, <2>4 DEF Owed, Due
  <2>6. PoolLow <= L + 0 - D /\ L + 0 - D <= C + PoolLow /\ warm <= WarmupBatches
        /\ iter < SyncSteps
    BY <2>4, <2>5 DEF PoolInv
  <2>7. /\ PoolLow <= Cardinality(Live') + Owed' - Due'
        /\ Cardinality(Live') + Owed' - Due' <= C + PoolLow
    <3> HIDE DEF L, C, D
    <3> QED
      BY <1>c, <1>p, <2>3, <2>5, <2>6
  <2> QED
    BY <2>4, <2>6, <2>7 DEF PoolInv
<1>8. CASE Crash
  <2>1. pc' = "load" /\ warm' = 0 /\ crashes' = crashes + 1
    BY <1>8 DEF Crash
  <2>2. Live' = {}
    BY <1>8 DEF Crash, EmptyMeta, Live, Prompts, Queue
  <2>3. Cardinality(Live') = 0
    BY <2>2, FS_EmptySet
  <2>4. 0 <= crashes' * PoolLow
    BY <1>p, <2>1
  <2> QED
    BY <1>c, <2>1, <2>3, <2>4 DEF PoolInv
<1>9. CASE UpdateActor
  <2>1. /\ pc = "train" /\ iter' = iter + 1 /\ UNCHANGED <<crashes, warm>>
        /\ pc' \in {"poll", "capacity", "step_end"}
        /\ (pc' = "poll" <=> iter + 1 < SyncSteps)
    BY <1>9 DEF UpdateActor, ghostVars
  <2>2. Live' = Live
    BY <1>9, <1>t, SamePool DEF Quiet
  <2>3. iter < SyncSteps /\ warm <= WarmupBatches
    BY <2>1 DEF PoolInv
  <2>4. Owed = 0 /\ Due = D - SampleBatch /\ Owed' = 0
    BY <1>p, <2>1 DEF Owed, Due
  <2>5. Due' = D - SampleBatch
    <3>1. CASE pc' = "poll"
      BY <1>p, <2>1, <3>1 DEF Due
    <3>2. CASE pc' # "poll"
      <4>1. iter + 1 = SyncSteps
        BY <1>c, <2>1, <2>3, <3>2
      <4>2. Due' = 0 /\ D = SampleBatch
        BY <1>p, <2>1, <3>2, <4>1 DEF Due
      <4> QED
        BY <1>c, <4>2
    <3> QED
      BY <3>1, <3>2
  <2>6. PoolLow <= L + Owed - Due /\ L + Owed - Due <= C + PoolLow
    BY <2>1 DEF PoolInv
  <2>7. /\ PoolLow <= Cardinality(Live') + Owed' - Due'
        /\ Cardinality(Live') + Owed' - Due' <= C + PoolLow
    BY <2>2, <2>4, <2>5, <2>6
  <2> QED
    BY <2>1, <2>3, <2>7 DEF PoolInv
<1>10. CASE (Quiet /\ ~ UpdateActor) \/ StepEnd \/ UNCHANGED vars \/ \E u \in Item : Worker(u)
  <2>1. Live' = Live
    BY <1>10, <1>t, SamePool
  <2>2. UNCHANGED <<crashes, warm, iter>>
    <3>1. CASE \E u \in Item : Worker(u)
      BY <1>t, <3>1, WorkerCounts
    <3>2. CASE ~ \E u \in Item : Worker(u)
      BY <1>10, <3>2 DEF Quiet, TrainEnd, SyncMetadata, SleepPoll, BalanceFails, EnsureCapacity,
         SaveActor, SaveDataloader, SaveTransferQueue, WriteTracker, StepEnd, vars, ghostVars
    <3> QED
      BY <3>1, <3>2
  <2>3. \/ pc' = pc /\ refill' = refill
        \/ /\ {pc, pc'} \subseteq {"poll", "decide"}
        \/ /\ pc = "train" /\ pc' = "raised"
        \/ /\ pc \in {"feed", "capacity", "actor", "data", "tq", "tracker", "step_end"}
           /\ pc' \in {"feed", "capacity", "actor", "data", "tq", "tracker", "step_end", "done"}
    <3>1. CASE \E u \in Item : Worker(u)
      BY <1>t, <3>1, WorkerCounts, WorkerEffect
    <3>2. CASE ~ \E u \in Item : Worker(u)
      BY <1>10, <3>2 DEF Quiet, TrainEnd, SyncMetadata, SleepPoll, BalanceFails, EnsureCapacity,
         SaveActor, SaveDataloader, SaveTransferQueue, WriteTracker, StepEnd, vars, bufferVars
    <3> QED
      BY <3>1, <3>2
  <2>4. pc \notin {"load", "reissue", "warmup"} => Owed' = Owed /\ Due' = Due
    BY <2>2, <2>3 DEF Owed, Due
  <2>5. /\ pc' \in {"load", "reissue", "warmup"} <=> pc \in {"load", "reissue", "warmup"}
        /\ pc \in {"load", "reissue", "warmup"} => pc' = pc
        /\ pc' \in {"poll", "decide", "refill", "train", "raised"} =>
             pc \in {"poll", "decide", "refill", "train", "raised"}
    BY <2>3
  <2> QED
    BY <2>1, <2>2, <2>4, <2>5 DEF PoolInv
<1> QED
  BY <1>1, <1>2, <1>3, <1>4, <1>5, <1>6, <1>7, <1>8, <1>9, <1>10, NextCases

\* The pool starts empty, and there is no checkpoint.
LEMMA PoolInit == Init => PoolInv /\ StoredPool
<1> SUFFICES ASSUME Init PROVE PoolInv /\ StoredPool
  OBVIOUS
<1>1. Live = {} /\ pc = "load" /\ warm = 0 /\ crashes = 0 /\ tracker = 0
  BY DEF Init, EmptyMeta, Live, Prompts, Queue
<1>2. Cardinality(Live) = 0 /\ 0 * PoolLow = 0
  BY <1>1, FS_EmptySet, Products
<1> QED
  BY <1>1, <1>2, TrainerAssumption DEF PoolInv, StoredPool

\* The pool and the one that a checkpoint restores are bounded in every reachable state.
LEMMA PoolInvariant == Spec => [](PoolInv /\ StoredPool)
<1>1. Init => PoolInv /\ StoredPool
  BY PoolInit
<1>2. ASSUME QueueInd, TqCheckpoint => IndInv, PoolInv, StoredPool, [Next]_vars
      PROVE  PoolInv' /\ StoredPool'
  BY <1>2, PoolNext, StoredPoolNext
<1>3. CASE TqCheckpoint
  BY <1>1, <1>2, <1>3, QueueInvariant, IndInvariant, PTL DEF Spec
<1>4. CASE ~ TqCheckpoint
  <2>1. QueueInd /\ PoolInv /\ StoredPool /\ [Next]_vars => PoolInv' /\ StoredPool'
    BY <1>2, <1>4
  <2> QED
    BY <1>1, <2>1, QueueInvariant, PTL DEF Spec
<1> QED
  BY <1>3, <1>4

\* Between two steps the pool of submitted groups is the warm-up, and at most one more
\* for every resume: feeding, dropping, refilling and sampling balance, for every batch
\* size, number of updates per step and number of warm-up batches.
THEOREM PoolIsBounded == Spec => []PoolBounds
<1>1. ASSUME QueueInd, PoolInv, pc = "feed"
      PROVE  /\ Cardinality(Live) >= WarmupBatches * TrainBatch
             /\ Cardinality(Live) <= (crashes + 1) * WarmupBatches * TrainBatch
  <2>1. Owed = 0 /\ Due = 0
    BY <1>1 DEF Owed, Due
  <2>2. /\ PoolLow <= Cardinality(Live) + 0 - 0
        /\ Cardinality(Live) + 0 - 0 <= crashes * PoolLow + PoolLow
    BY <1>1, <2>1 DEF PoolInv
  <2>3. crashes \in Nat /\ Cardinality(Live) \in Nat
    BY <1>1, LiveItems, ItemsFinite DEF QueueInd, TypeInv, TypeOK
  <2>4. /\ (crashes + 1) * WarmupBatches * TrainBatch = crashes * PoolLow + PoolLow
        /\ PoolLow \in Nat /\ WarmupBatches * TrainBatch = PoolLow
    BY <2>3, Products DEF PoolLow
  <2> QED
    BY <2>2, <2>3, <2>4
<1>2. QueueInd /\ PoolInv => PoolBounds
  BY <1>1 DEF PoolBounds
<1> QED
  BY <1>2, PoolInvariant, QueueInvariant, PTL

-----------------------------------------------------------------------------
(* The faults behind an empty batch. *)

\* A worker makes a group want a trajectory only by a fault.
LEMMA WorkerFault ==
  ASSUME TypeOK, WorkerInv, SessInv, GapInv, NEW u \in Item, Worker(u)
  PROVE  /\ Gap(u)'
         /\ faults' \in Nat /\ faults <= faults'
         /\ Wanting(u)' => Wanting(u) \/ faults' = faults + 1
         /\ \A s \in Session : Lost(u, s) /\ status[u] # "pending" => Lost(u, s)'
<1>g. Gap(u) /\ (task[u] = "queued" => status[u] = "pending")
  BY DEF GapInv, WorkerInv
<1>j. \A s \in Session : sess[u][s] = "run" => job[u] # 0
  BY DEF SessInv
<1>n. faults \in Nat
  BY DEF TypeOK
<1>w. task[u] \in {"queued", "gather"} => status[u] \notin {"finished", "failure"}
  BY DEF WorkerInv
<1> USE DEF TypeOK
<1>1. CASE StartPrompt(u)
  <2>1. /\ task[u] = "queued" /\ status'[u] = "running" /\ task'[u] = "gather"
        /\ \A s \in Session : sess'[u][s] = "run"
        /\ traj' = traj /\ faults' = faults /\ taken' = taken
    BY <1>1 DEF StartPrompt, ghostVars
  <2>2. Gap(u)'
    BY <1>g, <2>1 DEF Gap, Lost
  <2>3. Wanting(u)' => Wanting(u)
    BY <2>1 DEF Wanting
  <2> QED
    BY <1>g, <1>n, <2>1, <2>2, <2>3
<1>2. ASSUME NEW s \in Session, SessionEnd(u, s)
      PROVE  /\ Gap(u)' /\ faults' = faults
             /\ Wanting(u)' => Wanting(u)
             /\ \A r \in Session : Lost(u, r) => Lost(u, r)'
  <2>1. /\ sess[u][s] = "run" /\ traj'[u][s] = job[u] /\ UNCHANGED <<status, task, faults, taken>>
        /\ sess'[u][s] = IF task[u] = "gather" THEN "ok" ELSE "idle"
        /\ \A r \in Session : r # s => sess'[u][r] = sess[u][r] /\ traj'[u][r] = traj[u][r]
    BY <1>2 DEF SessionEnd, Ended, ghostVars
  <2>2. job[u] # 0
    BY <1>j, <2>1
  <2>3. \A r \in Session : Lost(u, r) => Lost(u, r)'
    BY <2>1 DEF Lost
  <2>4. Wanting(u)' => Wanting(u)
    BY <2>1, <2>2 DEF Wanting
  <2>6. Gap(u)'
    BY <1>g, <2>1, <2>2, <2>3 DEF Gap, Lost
  <2> QED
    BY <2>1, <2>3, <2>4, <2>6
<1>3. ASSUME NEW s \in Session, SessionEmpty(u, s) \/ SessionFail(u, s)
      PROVE  /\ Gap(u)' /\ faults' = faults + 1
             /\ \A r \in Session : Lost(u, r) => Lost(u, r)'
  <2>1. /\ sess[u][s] = "run" /\ UNCHANGED <<status, traj, task, taken>>
        /\ sess'[u][s] \in {"ok", "err", "idle"}
        /\ sess'[u][s] = "err" => task[u] = "gather"
        /\ \A r \in Session : r # s => sess'[u][r] = sess[u][r]
        /\ faults' = faults + 1
    BY <1>3 DEF SessionEmpty, SessionFail, Ended, tqVars
  <2>2. \A r \in Session : Lost(u, r) => Lost(u, r)'
    BY <2>1 DEF Lost
  <2>3. Gap(u)'
    BY <1>g, <2>1, <2>2 DEF Gap
  <2> QED
    BY <2>1, <2>2, <2>3
<1>4. CASE PromptFinished(u) \/ PromptFailure(u)
  <2>1. /\ task[u] = "gather" /\ task'[u] = "none" /\ UNCHANGED <<traj, taken, faults>>
        /\ \A s \in Session : sess'[u][s] = IF sess[u][s] = "run" THEN "run" ELSE "idle"
        /\ \/ status'[u] = "finished" /\ \A s \in Session : sess[u][s] = "ok"
           \/ status'[u] = "failure" /\ \E s \in Session : sess[u][s] = "err"
    BY <1>4 DEF PromptFinished, PromptFailure, GatherReturns, GatherRaises, LeftRunning, ghostVars
  <2>2. \A s \in Session : Lost(u, s) => Lost(u, s)'
    BY <2>1 DEF Lost
  <2>3. \A s \in Session : sess[u][s] = "err" => traj[u][s] = 0 /\ Lost(u, s)
    BY <1>g DEF Gap, Lost
  <2>4. Gap(u)'
    BY <2>1, <2>2, <2>3 DEF Gap
  <2>5. Wanting(u)' => Wanting(u)
    BY <2>1, <2>3 DEF Wanting
  <2> QED
    BY <1>n, <2>1, <2>2, <2>4, <2>5
<1> QED
  BY <1>n, <1>1, <1>2, <1>3, <1>4 DEF Worker

\* What a step of the trainer may do to a group.
Same(u) ==
  /\ status'[u] = status[u] /\ task'[u] = task[u]
  /\ \A s \in Session : sess'[u][s] = sess[u][s] /\ traj'[u][s] = traj[u][s]

Queued(u) ==
  /\ status'[u] = "pending" /\ task'[u] = "queued" /\ task[u] = "none" /\ u \notin taken'
  /\ \A s \in Session : traj'[u][s] = 0 /\ sess'[u][s] = sess[u][s] /\ sess[u][s] # "run"

Cleared(u) ==
  /\ status'[u] = "absent" /\ task'[u] = "none" /\ task[u] = "none" /\ u \notin taken'
  /\ \A s \in Session : sess'[u][s] = sess[u][s]

\* None of it makes a group want a trajectory.
LEMMA TrainerFault ==
  ASSUME NEW u, Gap(u), Same(u) \/ Queued(u) \/ Cleared(u), u \in taken' => u \in taken
  PROVE  Gap(u)' /\ (Wanting(u)' => Wanting(u))
<1>1. CASE Same(u)
  BY <1>1 DEF Same, Gap, Lost, Wanting
<1>2. CASE Queued(u)
  BY <1>2 DEF Queued, Gap, Lost, Wanting
<1>3. CASE Cleared(u)
  BY <1>3 DEF Cleared, Gap, Lost, Wanting
<1> QED
  BY <1>1, <1>2, <1>3

\* Between the load and a crash, the trainer does nothing else, except that it takes
\* the groups it samples.
LEMMA TrainerEffect ==
  ASSUME QueueInd, [Next]_vars, ~ LoadCheckpoint, ~ Crash, ~ SelectBatch,
         ~ \E u \in Item : Worker(u), NEW u \in Item
  PROVE  /\ Same(u) \/ Queued(u) \/ Cleared(u)
         /\ u \in taken' => u \in taken
         /\ faults' = faults
<1>t. /\ TypeOK /\ TypeInv /\ WorkerInv /\ SnapInv /\ TakenInv /\ StartInv /\ SessInv /\ JobInv
      /\ BatchInv /\ Sound(Queue, pos)
  BY DEF QueueInd, QueueInv, TypeInv
<1>1. CASE Quiet \/ UNCHANGED vars
  <2>1. UNCHANGED <<tqVars, workerVars>>
    BY <1>1, QuietStep DEF vars
  <2>2. Same(u)
    BY <2>1 DEF tqVars, workerVars, Same
  <2>3. faults' = faults /\ (u \in taken' => u \in taken)
    BY <1>1 DEF Quiet, TrainEnd, SyncMetadata, SleepPoll, BalanceFails, UpdateActor,
       EnsureCapacity, SaveActor, SaveDataloader, SaveTransferQueue, WriteTracker, vars, ghostVars
  <2> QED
    BY <2>2, <2>3
<1>2. CASE ReissueInflight
  <2>1. /\ pc = "reissue" /\ UNCHANGED <<sess, taken, faults>>
        /\ \/ /\ status'[u] = "pending" /\ task'[u] = "queued"
              /\ \A s \in Session : traj'[u][s] = 0
           \/ /\ status'[u] = status[u] /\ task'[u] = task[u]
              /\ \A s \in Session : traj'[u][s] = traj[u][s]
    BY <1>2 DEF ReissueInflight, ClearOldTrajectories, ghostVars
  <2>2. task[u] = "none" /\ taken = {} /\ \A s \in Session : sess[u][s] = "idle"
    BY <1>t, <2>1 DEF StartInv, TakenInv
  <2> QED
    BY <2>1, <2>2 DEF Same, Queued
<1>3. CASE Warmup \/ Feed \/ Refill
  <2>1. /\ UNCHANGED <<traj, sess, taken>>
        /\ \/ status'[u] = status[u] /\ task'[u] = task[u]
           \/ pos < u /\ status'[u] = "pending" /\ task'[u] = "queued"
    BY <1>t, <1>3, FeedEffect
  <2>2. faults' = faults /\ pc \in {"warmup", "feed", "refill"} /\ pos \in Nat /\ u \in Nat
    BY <1>t, <1>3 DEF Warmup, Feed, Refill, ghostVars, TypeOK, Item
  <2>3. taken = {}
    BY <1>t, <2>2 DEF TakenInv
  <2>4. CASE status'[u] = status[u] /\ task'[u] = task[u]
    BY <2>1, <2>2, <2>4 DEF Same
  <2>5. CASE pos < u /\ status'[u] = "pending" /\ task'[u] = "queued"
    <3>1. job[u] = 0
      BY <1>t, <2>2, <2>5 DEF JobInv
    <3>2. /\ task[u] = "none" /\ \A s \in Session : sess[u][s] # "run"
      BY <1>t, <3>1 DEF SessInv
    <3>3. \A s \in Session : traj[u][s] = 0
      BY <1>t, <2>2, <2>5 DEF Sound, Queue
    <3> QED
      BY <2>1, <2>2, <2>3, <2>5, <3>2, <3>3 DEF Queued
  <2> QED
    BY <2>1, <2>4, <2>5
<1>4. CASE DropStale
  <2> DEFINE S == StaleKeys(gs, snap)
  <2>1. /\ pc = "decide" /\ KvClear(S, DroppedKeys(S))
        /\ UNCHANGED <<task, sess, taken, faults>>
    BY <1>4 DEF DropStale, workerVars, ghostVars
  <2>2. taken = {}
    BY <1>t, <2>1 DEF TakenInv
  <2>3. CASE u \in S
    <3>1. task[u] = "none"
      BY <1>t, <2>3, SampleableTerminal, TerminalHasNoTask
    <3> QED
      BY <2>1, <2>2, <2>3, <3>1 DEF KvClear, Cleared
  <2>4. CASE u \notin S
    <3>1. \A s \in Session : <<u, s>> \notin DroppedKeys(S)
      BY <2>4 DEF DroppedKeys, TrajectoryKeys
    <3> HIDE DEF S
    <3> QED
      BY <2>1, <2>4, <3>1 DEF KvClear, Same
  <2> QED
    BY <2>1, <2>3, <2>4
<1>5. CASE StepEnd
  <2>1. pc = "step_end" /\ KvClear({}, batch) /\ UNCHANGED <<task, sess, taken, faults>>
    BY <1>5 DEF StepEnd, workerVars, ghostVars
  <2>2. taken = {}
    BY <1>t, <2>1 DEF TakenInv
  <2>3. CASE \E s \in Session : <<u, s>> \in batch
    <3>1. status[u] = "absent"
      BY <1>t, <2>3 DEF BatchInv
    <3>2. task[u] = "none"
      BY <1>t, <3>1 DEF WorkerInv, TypeOK
    <3> QED
      BY <2>1, <2>2, <3>1, <3>2 DEF KvClear, Cleared
  <2>4. CASE \A s \in Session : <<u, s>> \notin batch
    BY <2>1, <2>4 DEF KvClear, Same
  <2> QED
    BY <2>1, <2>3, <2>4
<1> QED
  BY <1>1, <1>2, <1>3, <1>4, <1>5, NextCases

\* A session that is over stays over until its group is dispatched again.
LEMMA LostKept ==
  ASSUME TypeOK, WorkerInv, SessInv, GapInv, \E u \in Item : Worker(u),
         NEW v \in Item, status[v] # "pending", NEW s \in Session, Lost(v, s)
  PROVE  Lost(v, s)'
<1> PICK u \in Item : Worker(u)
  OBVIOUS
<1>1. CASE u = v
  BY <1>1, WorkerFault
<1>2. CASE u # v
  <2>1. sess'[v] = sess[v] /\ traj'[v] = traj[v]
    BY <1>2, WorkerEffect
  <2> QED
    BY <2>1 DEF Lost
<1> QED
  BY <1>1, <1>2

\* Every step keeps the gaps of the groups, and their number within that of the faults.
LEMMA GapNext ==
  ASSUME QueueInd, FaultInv, [Next]_vars
  PROVE  GapInv' /\ Cardinality(Faulty') <= faults' /\ faults <= faults' /\ faults' \in Nat
<1>t. /\ TypeOK /\ TypeInv /\ WorkerInv /\ SnapInv /\ TakenInv /\ StartInv /\ SessInv /\ GapInv
      /\ DiskGap /\ Cardinality(Faulty) <= faults
  BY DEF QueueInd, QueueInv, TypeInv, FaultInv
<1>n. /\ faults \in Nat
      /\ Faulty \in SUBSET Item /\ Faulty' \in SUBSET Item
      /\ IsFiniteSet(Faulty) /\ Cardinality(Faulty) \in Nat /\ Cardinality(Faulty') \in Nat
  <2>1. Faulty \in SUBSET Item /\ Faulty' \in SUBSET Item
    BY DEF Faulty
  <2> QED
    BY <1>t, <2>1, ItemsFinite DEF TypeOK
<1>m. ASSUME Faulty' \subseteq Faulty, faults' = faults
      PROVE  Cardinality(Faulty') <= faults' /\ faults <= faults' /\ faults' \in Nat
  <2>1. Cardinality(Faulty') <= Cardinality(Faulty)
    BY <1>m, <1>n, ItemsMonotone
  <2> QED
    BY <1>m, <1>n, <1>t, <2>1
<1>1. CASE \E u \in Item : Worker(u)
  <2> PICK u \in Item : Worker(u)
    BY <1>1
  <2>1. /\ Gap(u)' /\ faults' \in Nat /\ faults <= faults'
        /\ Wanting(u)' => Wanting(u) \/ faults' = faults + 1
    BY <1>t, WorkerFault
  <2>2. ASSUME NEW v \in Item, v # u PROVE Gap(v)' /\ (Wanting(v)' => Wanting(v))
    <3>1. Same(v) /\ taken' = taken
      BY <1>t, <2>2, WorkerEffect DEF Same
    <3> QED
      BY <1>t, <3>1, TrainerFault DEF GapInv
  <2>3. GapInv'
    BY <2>1, <2>2 DEF GapInv
  <2>4. CASE faults' = faults + 1
    <3>1. Faulty' \subseteq Faulty \cup {u}
      BY <2>2 DEF Faulty
    <3>2. Faulty \cup {u} \in SUBSET Item
      BY <1>n
    <3>3. Cardinality(Faulty') <= Cardinality(Faulty \cup {u})
      BY <3>1, <3>2, ItemsMonotone
    <3>4. Cardinality(Faulty \cup {u}) \in {Cardinality(Faulty), Cardinality(Faulty) + 1}
      BY <1>n, FS_AddElement
    <3>5. Cardinality(Faulty \cup {u}) \in Nat
      BY <3>2, ItemsFinite
    <3> QED
      BY <1>n, <1>t, <2>1, <2>3, <2>4, <3>3, <3>4, <3>5
  <2>5. CASE faults' # faults + 1
    <3>1. Faulty' \subseteq Faulty
      BY <2>1, <2>2, <2>5 DEF Faulty
    <3>2. Cardinality(Faulty') <= Cardinality(Faulty)
      BY <3>1, <1>n, ItemsMonotone
    <3> QED
      BY <1>n, <1>t, <2>1, <2>3, <3>2
  <2> QED
    BY <2>4, <2>5
<1>2. CASE Crash
  <2>1. /\ \A u \in Item : /\ status'[u] = "absent" /\ task'[u] = "none"
                           /\ \A s \in Session : sess'[u][s] = "idle" /\ traj'[u][s] = 0
        /\ taken' = {} /\ faults' = faults
    BY <1>2 DEF Crash, EmptyMeta
  <2>2. GapInv'
    BY <2>1 DEF GapInv, Gap
  <2>3. Faulty' \subseteq Faulty
    BY <2>1 DEF Faulty, Wanting
  <2> QED
    BY <1>m, <2>1, <2>2, <2>3
<1>3. CASE LoadCheckpoint
  <2>1. /\ pc = "load" /\ UNCHANGED <<task, sess, taken, faults>>
    BY <1>3 DEF LoadCheckpoint, workerVars
  <2>2. /\ taken = {}
        /\ \A u \in Item : task[u] = "none" /\ \A s \in Session : sess[u][s] = "idle"
    BY <1>t, <2>1 DEF TakenInv, StartInv
  <2>3. CASE tracker = 0 \/ ~ TqCheckpoint
    <3>1. UNCHANGED <<status, traj>>
      BY <1>3, <2>3 DEF LoadCheckpoint, tqVars
    <3>2. GapInv'
      BY <1>t, <2>1, <3>1 DEF GapInv, Gap, Lost
    <3>3. Faulty' \subseteq Faulty
      BY <2>1, <3>1 DEF Faulty, Wanting
    <3> QED
      BY <1>m, <2>1, <3>2, <3>3
  <2>4. CASE tracker # 0 /\ TqCheckpoint
    <3> DEFINE m == disk[tracker].meta
    <3>1. status' = m.status /\ traj' = m.traj
      BY <1>3, <2>4 DEF LoadCheckpoint
    <3>2. /\ Cardinality(Incomplete(m)) <= faults
          /\ \A u \in Item : m.status[u] = "failure" => \E s \in Session : m.traj[u][s] = 0
      BY <1>t, <2>4 DEF DiskGap, Counted
    <3> HIDE DEF m
    <3>3. GapInv'
      BY <2>1, <2>2, <3>1, <3>2 DEF GapInv, Gap, Lost
    <3>4. Faulty' \subseteq Incomplete(m)
      BY <2>1, <2>2, <3>1 DEF Faulty, Wanting, Incomplete, Terminal
    <3>5. Incomplete(m) \in SUBSET Item
      BY DEF Incomplete, Terminal
    <3>6. Cardinality(Faulty') <= Cardinality(Incomplete(m)) /\ Cardinality(Incomplete(m)) \in Nat
      BY <3>4, <3>5, ItemsMonotone, ItemsFinite
    <3> QED
      BY <1>n, <2>1, <3>2, <3>3, <3>6
  <2> QED
    BY <2>3, <2>4
<1>4. CASE SelectBatch
  <2>1. /\ pc = "decide" /\ UNCHANGED <<task, sess, faults>>
        /\ \E S \in OldestFirst(gs, snap, SampleBatch) : KvClear(S, {}) /\ taken' = S
    BY <1>4 DEF SelectBatch, SampledClears, workerVars, ghostVars
  <2> PICK S \in OldestFirst(gs, snap, SampleBatch) : KvClear(S, {}) /\ taken' = S
    BY <2>1
  <2>2. S \subseteq Terminal(snap)
    BY SampleableTerminal DEF OldestFirst
  <2>3. \A u \in S : u \in Item /\ status[u] \in {"finished", "failure"} /\ task[u] = "none"
    BY <1>t, <2>2, TerminalHasNoTask
  <2>4. ASSUME NEW u \in Item
        PROVE  /\ status'[u] = IF u \in S THEN "absent" ELSE status[u]
               /\ task'[u] = task[u]
               /\ \A s \in Session : sess'[u][s] = sess[u][s] /\ traj'[u][s] = traj[u][s]
    BY <2>1, <2>4 DEF KvClear
  <2>5. GapInv'
    BY <1>t, <2>3, <2>4 DEF GapInv, Gap, Lost
  <2>6. Faulty' \subseteq Faulty
    BY <2>3, <2>4 DEF Faulty, Wanting
  <2> QED
    BY <1>m, <2>1, <2>5, <2>6
<1>5. CASE ~ (\E u \in Item : Worker(u)) /\ ~ Crash /\ ~ LoadCheckpoint /\ ~ SelectBatch
  <2>1. ASSUME NEW u \in Item PROVE Gap(u)' /\ (Wanting(u)' => Wanting(u))
    BY <1>5, <1>t, TrainerEffect, TrainerFault DEF GapInv
  <2>2. faults' = faults
    BY <1>5 DEF Next, Trainer, Terminated, TrainEnd, SyncMetadata, SleepPoll,
       BalanceFails, UpdateActor, EnsureCapacity, SaveActor, SaveDataloader,
       SaveTransferQueue, WriteTracker, ReissueInflight, Warmup, Feed,
       DropStale, Refill, StepEnd, vars, ghostVars
  <2>3. GapInv' /\ Faulty' \subseteq Faulty
    BY <2>1 DEF GapInv, Faulty
  <2> QED
    BY <1>m, <2>2, <2>3
<1> QED
  BY <1>1, <1>2, <1>3, <1>4, <1>5

\* Metadata that was written with enough faults stays counted.
LEMMA CountedKept ==
  ASSUME NEW m, Counted(m), faults \in Nat, faults' \in Nat, faults <= faults'
  PROVE  /\ Cardinality(Incomplete(m)) <= faults'
         /\ \A u \in Item : m.status[u] = "failure" => \E s \in Session : m.traj[u][s] = 0
<1>1. Cardinality(Incomplete(m)) \in Nat
  <2>1. Incomplete(m) \in SUBSET Item
    BY DEF Incomplete, Terminal
  <2> QED
    BY <2>1, ItemsFinite
<1> QED
  BY <1>1 DEF Counted

\* So a checkpoint never restores more wanting groups than there were faults.
LEMMA DiskGapNext ==
  ASSUME QueueInd, FaultInv, [Next]_vars
  PROVE  DiskGap'
<1> SUFFICES ASSUME TqCheckpoint
             PROVE  /\ pc' = "tracker" => Counted(disk[gs].meta)'
                    /\ tracker' # 0 => Counted(disk[tracker].meta)'
  BY DEF DiskGap
<1>t. /\ TypeOK /\ TypeInv /\ WorkerInv /\ TrackerInv /\ GapInv /\ DiskGap
      /\ Cardinality(Faulty) <= faults /\ tracker \in 0 .. TotalSteps
  BY DEF QueueInd, TypeInv, FaultInv, TypeOK
<1>f. faults \in Nat /\ faults' \in Nat /\ faults <= faults'
  BY <1>t, GapNext DEF TypeOK
<1>k. ASSUME NEW m, NEW n, Counted(m), n = m
      PROVE  /\ Cardinality(Incomplete(n)) <= faults'
             /\ \A u \in Item : n.status[u] = "failure" => \E s \in Session : n.traj[u][s] = 0
  BY <1>f, <1>k, CountedKept
<1>n. /\ \A m : Counted(m) /\ disk'[gs'].meta = m => Counted(disk[gs].meta)'
      /\ \A m : Counted(m) /\ disk'[tracker'].meta = m => Counted(disk[tracker].meta)'
  <2>1. ASSUME NEW m, Counted(m), disk'[gs'].meta = m
        PROVE  Counted(disk[gs].meta)'
    <3> DEFINE n == disk'[gs'].meta
    <3>1. /\ Cardinality(Incomplete(n)) <= faults'
          /\ \A u \in Item : n.status[u] = "failure" => \E s \in Session : n.traj[u][s] = 0
      BY <1>k, <2>1
    <3> QED
      BY <3>1 DEF Counted, Incomplete, Terminal
  <2>2. ASSUME NEW m, Counted(m), disk'[tracker'].meta = m
        PROVE  Counted(disk[tracker].meta)'
    <3> DEFINE n == disk'[tracker'].meta
    <3>1. /\ Cardinality(Incomplete(n)) <= faults'
          /\ \A u \in Item : n.status[u] = "failure" => \E s \in Session : n.traj[u][s] = 0
      BY <1>k, <2>2
    <3> QED
      BY <3>1 DEF Counted, Incomplete, Terminal
  <2> QED
    BY <2>1, <2>2
<1>1. ASSUME tracker # 0, tracker' = tracker
      PROVE  Counted(disk[tracker].meta)'
  <2>1. tracker \in 1 .. TotalSteps
    BY <1>1, <1>t, TrainerAssumption
  <2>2. tracker = gs => ~ SaveDataloader /\ ~ SaveTransferQueue
    BY <1>t DEF SaveDataloader, SaveTransferQueue, TrackerInv, TypeOK
  <2>3. disk'[tracker'].meta = disk[tracker].meta
    BY <1>1, <1>t, <2>1, <2>2, FolderKept
  <2>4. Counted(disk[tracker].meta)
    BY <1>1, <1>t DEF DiskGap
  <2> QED
    BY <1>n, <2>3, <2>4
<1>2. CASE (\E u \in Item : Worker(u)) \/ UNCHANGED vars
  <2>1. UNCHANGED <<pc, gs, disk, tracker>>
    BY <1>2, <1>t, WorkerEffect DEF vars, diskVars
  <2>2. pc' = "tracker" => Counted(disk[gs].meta)'
    <3> SUFFICES ASSUME pc = "tracker" PROVE Counted(disk[gs].meta)'
      BY <2>1
    <3>1. disk'[gs'].meta = disk[gs].meta /\ Counted(disk[gs].meta)
      BY <1>t, <2>1 DEF DiskGap
    <3> QED
      BY <1>n, <3>1
  <2> QED
    BY <1>1, <2>1, <2>2
<1>3. CASE SaveTransferQueue
  <2>1. disk'[gs'].meta = Queue /\ UNCHANGED <<tracker, faults>>
    BY <1>3, <1>t, SaveSteps DEF SaveTransferQueue, ghostVars
  <2>2. Incomplete(Queue) \subseteq Faulty
    BY DEF Incomplete, Terminal, Queue, Faulty, Wanting
  <2>3. Faulty \in SUBSET Item
    BY DEF Faulty
  <2>4. Cardinality(Incomplete(Queue)) <= Cardinality(Faulty) /\ Cardinality(Faulty) \in Nat
        /\ Cardinality(Incomplete(Queue)) \in Nat
    <3>1. Incomplete(Queue) \in SUBSET Item
      BY <2>2, <2>3
    <3> QED
      BY <2>2, <2>3, <3>1, ItemsMonotone, ItemsFinite
  <2>5. Counted(Queue)
    <3>1. \A u \in Item : status[u] = "failure" => \E s \in Session : traj[u][s] = 0
      BY <1>t DEF GapInv, Gap, Lost
    <3>2. Queue.status = status /\ Queue.traj = traj
      BY DEF Queue
    <3>3. Cardinality(Incomplete(Queue)) <= faults
      BY <1>t, <1>f, <2>4
    <3> QED
      BY <3>1, <3>2, <3>3 DEF Counted
  <2>6. Counted(disk[gs].meta)'
    BY <1>n, <2>1, <2>5
  <2> QED
    BY <1>1, <2>1, <2>6
<1>4. CASE WriteTracker
  <2>1. pc = "tracker" /\ pc' = "step_end" /\ tracker' = gs /\ disk' = disk
    BY <1>4 DEF WriteTracker
  <2>2. Counted(disk[gs].meta)
    BY <1>t, <2>1 DEF DiskGap
  <2>3. disk'[tracker'].meta = disk[gs].meta
    BY <2>1
  <2> QED
    BY <1>n, <2>1, <2>2, <2>3
<1>5. CASE /\ ~ (\E u \in Item : Worker(u)) /\ ~ UNCHANGED vars
           /\ ~ SaveTransferQueue /\ ~ WriteTracker
  <2>1. pc' # "tracker" /\ tracker' = tracker
    BY <1>5, <1>t, SavePc
  <2> QED
    BY <1>1, <2>1
<1> QED
  BY <1>2, <1>3, <1>4, <1>5

\* Between the snapshot and the decision only workers act.
LEMMA SnapGapNext ==
  ASSUME QueueInd, FaultInv, [Next]_vars
  PROVE  SnapGap'
<1>t. /\ TypeOK /\ TypeInv /\ WorkerInv /\ SnapInv /\ SessInv /\ GapInv /\ SnapGap
  BY DEF QueueInd, QueueInv, TypeInv, FaultInv
<1>1. CASE SyncMetadata
  <2>1. snap' = Queue /\ UNCHANGED <<traj, status, sess>>
    BY <1>1 DEF SyncMetadata, tqVars, workerVars
  <2>2. ASSUME NEW u \in Item, status[u] \in {"finished", "failure"},
               \A s \in Session : traj[u][s] = 0
        PROVE  \E s \in Session : Lost(u, s)
    BY <1>t, <2>2, SessionAssumption DEF GapInv, Gap, Lost
  <2>3. Queue.status = status /\ Queue.traj = traj
    BY DEF Queue
  <2> QED
    BY <2>1, <2>2, <2>3 DEF SnapGap, Terminal, Lost
<1>2. CASE \E u \in Item : Worker(u)
  <2>1. snap' = snap
    BY <1>2, <1>t, WorkerEffect
  <2>2. ASSUME NEW v \in Terminal(snap), NEW s \in Session, Lost(v, s)
        PROVE  Lost(v, s)'
    <3>1. v \in Item /\ status[v] # "pending"
      BY <1>t, TerminalHasNoTask
    <3> QED
      BY <1>t, <1>2, <2>2, <3>1, LostKept
  <2>3. Terminal(snap') = Terminal(snap)
    BY <2>1 DEF Terminal
  <2> QED
    BY <1>t, <2>1, <2>2, <2>3 DEF SnapGap, Terminal
<1>3. CASE UNCHANGED vars
  BY <1>3, <1>t DEF vars, tqVars, workerVars, bufferVars, SnapGap, Terminal, Lost
<1>4. CASE ~ SyncMetadata /\ ~ (\E u \in Item : Worker(u)) /\ ~ UNCHANGED vars
  <2>1. pc' # "decide"
    BY <1>4 DEF Next, Trainer, Terminated, TrainEnd, SleepPoll, BalanceFails, UpdateActor,
       EnsureCapacity, SaveActor, SaveDataloader, SaveTransferQueue, WriteTracker,
       LoadCheckpoint, ReissueInflight, Warmup, Feed, DropStale, Refill, SelectBatch, StepEnd,
       Crash
  <2>2. snap' = EmptyMeta
    BY <1>t, <2>1, SnapNext DEF SnapInv
  <2>3. Terminal(snap') = {}
    BY <2>2, TerminalEmpty
  <2> QED
    BY <2>3 DEF SnapGap, Terminal
<1> QED
  BY <1>1, <1>2, <1>3, <1>4

\* The groups of an update were terminal in the snapshot.
LEMMA TakenGapNext ==
  ASSUME QueueInd, FaultInv, [Next]_vars
  PROVE  TakenGap'
<1>t. /\ TypeOK /\ TypeInv /\ WorkerInv /\ SnapInv /\ TakenInv /\ SessInv /\ GapInv /\ SnapGap
      /\ TakenGap
  BY DEF QueueInd, QueueInv, TypeInv, FaultInv
<1>1. CASE SelectBatch
  <2>1. /\ pc' = "train" /\ sess' = sess
        /\ \E S \in OldestFirst(gs, snap, SampleBatch) :
             KvClear(S, {}) /\ taken' = S /\ batch' = batch \cup TrajectoryKeys(snap, S)
    BY <1>1 DEF SelectBatch, SampledClears, workerVars
  <2> PICK S \in OldestFirst(gs, snap, SampleBatch) :
             KvClear(S, {}) /\ taken' = S /\ batch' = batch \cup TrajectoryKeys(snap, S)
    BY <2>1
  <2>2. S \subseteq Terminal(snap) /\ Cardinality(S) = SampleBatch
    BY SampleableTerminal DEF OldestFirst
  <2>3. ASSUME NEW u \in S, \A s \in Session : <<u, s>> \notin batch'
        PROVE  \E s \in Session : Lost(u, s)
    <3>1. \A s \in Session : snap.traj[u][s] = 0
      BY <2>3 DEF TrajectoryKeys
    <3> QED
      BY <1>t, <2>2, <3>1 DEF SnapGap
  <2>4. ASSUME NEW u \in Item PROVE \A s \in Session : Lost(u, s) => Lost(u, s)'
    BY <2>1 DEF KvClear, Lost
  <2>5. ASSUME NEW u \in S PROVE u \in Item /\ status'[u] = "absent"
    BY <2>2, TerminalItems DEF KvClear
  <2> QED
    BY <2>2, <2>3, <2>4, <2>5 DEF TakenGap
<1>2. CASE \E u \in Item : Worker(u)
  <2>1. UNCHANGED <<pc, taken, batch>>
    BY <1>2, <1>t, WorkerEffect
  <2>2. ASSUME NEW v \in taken PROVE v \in Item /\ status[v] = "absent" /\ status'[v] = "absent"
    BY <1>2, <1>t, WorkerStep DEF TakenGap, TypeOK
  <2>3. ASSUME NEW v \in taken, NEW s \in Session, Lost(v, s)
        PROVE  Lost(v, s)'
    BY <1>t, <1>2, <2>2, <2>3, LostKept
  <2> QED
    BY <1>t, <2>1, <2>2, <2>3 DEF TakenGap
<1>3. CASE UNCHANGED vars \/ BalanceFails
  BY <1>3, <1>t DEF BalanceFails, vars, tqVars, workerVars, TakenGap, Lost
<1>4. CASE ~ SelectBatch /\ ~ (\E u \in Item : Worker(u)) /\ ~ UNCHANGED vars /\ ~ BalanceFails
  <2>1. pc' \notin {"train", "raised"}
    BY <1>4 DEF Next, Trainer, Terminated, TrainEnd, SleepPoll, SyncMetadata, UpdateActor,
       EnsureCapacity, SaveActor, SaveDataloader, SaveTransferQueue, WriteTracker,
       LoadCheckpoint, ReissueInflight, Warmup, Feed, DropStale, Refill, StepEnd, Crash
  <2>2. taken' = {}
    BY <1>t, <2>1, TakenNext DEF TakenInv
  <2> QED
    BY <2>1, <2>2 DEF TakenGap
<1> QED
  BY <1>1, <1>2, <1>3, <1>4

\* A batch without trajectories needs a fault in every one of its groups.
LEMMA EmptyNext ==
  ASSUME QueueInd, FaultInv, EmptyBatchNeedsFaults, [Next]_vars
  PROVE  EmptyBatchNeedsFaults'
<1>f. /\ faults \in Nat /\ faults' \in Nat /\ faults <= faults' /\ SampleBatch \in Nat /\ TypeOK
  BY GapNext, TrainerAssumption DEF QueueInd, TypeInv, TypeOK
<1>1. CASE BalanceFails
  <2>1. pc = "train" /\ ~ \E k \in batch : k[1] \in taken
    BY <1>1 DEF BalanceFails, HasTrajectories
  <2>2. ASSUME NEW u \in taken PROVE u \in Faulty
    <3>1. u \in Item
      BY <1>f DEF TypeOK
    <3>2. \A s \in Session : <<u, s>> \notin batch
      BY <2>1
    <3>3. \E s \in Session : traj[u][s] = 0
      BY <3>2 DEF FaultInv, TakenGap, Lost
    <3> QED
      BY <3>1, <3>3 DEF Faulty, Wanting
  <2>3. /\ Faulty \in SUBSET Item /\ taken \in SUBSET Faulty
    BY <2>2 DEF Faulty
  <2>4. /\ Cardinality(taken) <= Cardinality(Faulty) /\ Cardinality(Faulty) \in Nat
    BY <2>3, ItemsMonotone, ItemsFinite
  <2>5. Cardinality(taken) = SampleBatch /\ Cardinality(Faulty) <= faults
    BY <2>1 DEF FaultInv, TakenGap
  <2>6. SampleBatch <= faults'
    BY <1>f, <2>4, <2>5
  <2> QED
    BY <1>f, <2>6 DEF EmptyBatchNeedsFaults
<1>2. CASE ~ BalanceFails
  <2>1. pc' = "raised" => pc = "raised"
    <3>1. CASE \E u \in Item : Worker(u)
      BY <3>1, <1>f, WorkerEffect
    <3>2. CASE ~ \E u \in Item : Worker(u)
      BY <1>2, <3>2 DEF Next, Trainer, Terminated, TrainEnd, SleepPoll, SyncMetadata, UpdateActor,
         EnsureCapacity, SaveActor, SaveDataloader, SaveTransferQueue, WriteTracker,
         LoadCheckpoint, ReissueInflight, Warmup, Feed, DropStale, Refill, SelectBatch, StepEnd,
         Crash, vars
    <3> QED
      BY <3>1, <3>2
  <2> QED
    BY <1>f, <2>1 DEF EmptyBatchNeedsFaults
<1> QED
  BY <1>1, <1>2

\* The trainer stops on an empty batch only after as many faults as the batch has groups,
\* counted over all restarts: neither a late sibling of a failed session, nor a snapshot
\* taken before it wrote, nor a checkpoint that stored a gap makes one fault count for
\* two groups.
THEOREM EmptyBatchesNeedFaults == Spec => []EmptyBatchNeedsFaults
<1>1. Init => FaultInv /\ EmptyBatchNeedsFaults
  <2> SUFFICES ASSUME Init PROVE FaultInv /\ EmptyBatchNeedsFaults
    OBVIOUS
  <2>1. /\ \A u \in Item : /\ status[u] = "absent" /\ task[u] = "none"
                           /\ \A s \in Session : sess[u][s] = "idle" /\ traj[u][s] = 0
        /\ pc = "load" /\ taken = {} /\ tracker = 0 /\ faults = 0 /\ snap = EmptyMeta
    BY DEF Init, EmptyMeta
  <2>2. GapInv /\ DiskGap /\ TakenGap /\ EmptyBatchNeedsFaults
    BY <2>1 DEF GapInv, Gap, DiskGap, TakenGap, EmptyBatchNeedsFaults
  <2>3. SnapGap
    BY <2>1, TerminalEmpty DEF SnapGap
  <2>4. Faulty = {}
    BY <2>1 DEF Faulty, Wanting
  <2>5. Cardinality(Faulty) <= faults
    BY <2>1, <2>4, FS_EmptySet
  <2> QED
    BY <2>2, <2>3, <2>5 DEF FaultInv
<1>2. QueueInd /\ FaultInv /\ EmptyBatchNeedsFaults /\ [Next]_vars
        => FaultInv' /\ EmptyBatchNeedsFaults'
  BY GapNext, DiskGapNext, SnapGapNext, TakenGapNext, EmptyNext DEF FaultInv
<1> QED
  BY <1>1, <1>2, QueueInvariant, PTL DEF Spec

-----------------------------------------------------------------------------
(* The age of what the wait strategy trains on. *)

\* The sampler waits for every group that was submitted Lag - 1 steps before, and for
\* those of the step itself when the threshold is 1.
Lag == IF Threshold = 1 THEN 2 ELSE Threshold

\* The groups of metadata m that were submitted by step b.
Older(m, b) == {u \in Item : m.status[u] # "absent" /\ m.born[u] <= b}

\* The step of the next feed.
NextStep == IF pc \in {"warmup", "feed", "done"} THEN gs ELSE gs + 1

\* How many groups of step b or before may be left when step g is fed: at most the whole
\* pool when the sampler starts to wait for them, and one batch less in every step after.
Room(b, g) == crashes * PoolLow + PoolLow + (b + Lag - 1 - g) * TrainBatch

AtMost(S, n) == S = {} \/ Cardinality(S) <= n

\* The groups that the sampler waits for are taken first, oldest first.
AgeInv ==
  Strategy = "wait" =>
    \A b \in 0 .. NextStep - Lag : AtMost(Older(Queue, b), Room(b, NextStep) + Due)

\* So it was when the tracked checkpoint was written.
StoredAge ==
  Strategy = "wait" /\ TqCheckpoint /\ tracker # 0 =>
    \A b \in 0 .. tracker + 1 - Lag : AtMost(Older(disk[tracker].meta, b), Room(b, tracker + 1))

\* Nothing is submitted while the sampler decides.
SnapWhole ==
  pc = "decide" =>
    \A u \in Item : status[u] # "absent" => snap.status[u] # "absent" /\ snap.born[u] = born[u]

\* The numbers the bound is made of.
LEMMA AgeNumbers ==
  ASSUME TypeOK
  PROVE  /\ Lag \in Nat /\ Lag >= 2 /\ Lag >= Threshold /\ Threshold \in Nat \ {0}
         /\ gs \in Nat /\ NextStep \in Nat /\ tracker \in Nat /\ crashes \in Nat
         /\ TrainBatch \in Nat /\ PoolLow \in Nat /\ crashes * PoolLow \in Nat
         /\ Due \in Int /\ SampleBatch \in Nat \ {0}
         /\ \A b, g \in Int : Room(b, g) \in Int
<1>1. Threshold \in Nat \ {0} /\ SampleBatch \in Nat \ {0}
  BY ThresholdAssumption, TrainerAssumption
<1>2. gs \in Nat /\ tracker \in Nat /\ crashes \in Nat /\ iter \in Nat
  BY TrainerAssumption DEF TypeOK
<1>3. /\ TrainBatch \in Nat /\ PoolLow \in Nat /\ crashes * PoolLow \in Nat
      /\ (SyncSteps - iter) * SampleBatch \in Int
      /\ (SyncSteps - iter - 1) * SampleBatch = (SyncSteps - iter) * SampleBatch - SampleBatch
  BY <1>2, Products
<1>4. Due \in Int
  BY <1>1, <1>3 DEF Due
<1>5. Lag \in Nat /\ Lag >= 2 /\ Lag >= Threshold
  BY <1>1 DEF Lag
<1>6. ASSUME NEW b \in Int, NEW g \in Int PROVE Room(b, g) \in Int
  <2> DEFINE x == b + Lag - 1 - g
  <2>1. x \in Int
    BY <1>5
  <2>2. x * TrainBatch \in Int
    <3> HIDE DEF x
    <3> QED
      BY <1>3, <2>1
  <2> HIDE DEF x
  <2>3. crashes * PoolLow + PoolLow + x * TrainBatch \in Int
    BY <1>3, <2>2
  <2> QED
    BY <2>3 DEF Room, x
<1>7. NextStep \in Nat
  BY <1>2 DEF NextStep
<1> QED
  BY <1>1, <1>2, <1>3, <1>4, <1>5, <1>6, <1>7

\* Every step that is fed leaves room for one batch less.
LEMMA RoomNext ==
  ASSUME TypeOK, NEW b \in Int, NEW g \in Int
  PROVE  /\ Room(b, g + 1) = Room(b, g) - TrainBatch
         /\ b + Lag - 1 = g => Room(b, g) = crashes * PoolLow + PoolLow
<1>1. Lag \in Nat /\ TrainBatch \in Nat /\ crashes * PoolLow \in Nat /\ PoolLow \in Nat
  BY AgeNumbers
<1> DEFINE x == b + Lag - 1 - g
           y == b + Lag - 1 - (g + 1)
<1>2. x \in Int /\ y \in Int /\ y = x - 1 /\ (b + Lag - 1 = g => x = 0)
  BY <1>1
<1>3. Room(b, g) = crashes * PoolLow + PoolLow + x * TrainBatch
      /\ Room(b, g + 1) = crashes * PoolLow + PoolLow + y * TrainBatch
  BY DEF Room
<1> HIDE DEF x, y
<1>4. y * TrainBatch = x * TrainBatch - TrainBatch /\ x * TrainBatch \in Int
      /\ (x = 0 => x * TrainBatch = 0)
  BY <1>1, <1>2
<1> QED
  BY <1>1, <1>2, <1>3, <1>4

\* Fewer groups, and more room.
LEMMA AtMostLess ==
  ASSUME NEW S \in SUBSET Item, NEW T \in SUBSET S, NEW n \in Int, NEW m \in Int, n <= m,
         AtMost(S, n)
  PROVE  AtMost(T, m)
<1>1. CASE S = {}
  BY <1>1 DEF AtMost
<1>2. CASE S # {}
  <2>1. Cardinality(S) <= n
    BY <1>2 DEF AtMost
  <2>2. Cardinality(T) <= Cardinality(S) /\ Cardinality(T) \in Nat /\ Cardinality(S) \in Nat
    BY ItemsMonotone, ItemsFinite
  <2>3. Cardinality(T) <= m
    BY <2>1, <2>2
  <2> QED
    BY <2>3 DEF AtMost
<1> QED
  BY <1>1, <1>2

\* Steps that add only groups of the current step, and take none.
LEMMA AgeKept ==
  ASSUME TypeOK, AgeInv, NextStep' = NextStep, Due' = Due, crashes' = crashes,
         \A u \in Item : status'[u] # "absent" =>
           (status[u] # "absent" /\ born'[u] = born[u]) \/ (born'[u] \in Nat /\ born'[u] >= NextStep - 1)
  PROVE  AgeInv'
<1>n. Lag \in Nat /\ Lag >= 2 /\ NextStep \in Nat /\ Due \in Int /\ \A b, g \in Int : Room(b, g) \in Int
  BY AgeNumbers
<1> SUFFICES ASSUME Strategy = "wait", NEW b \in 0 .. NextStep - Lag
             PROVE  AtMost(Older(Queue, b)', Room(b, NextStep) + Due)
  BY DEF AgeInv, Room, AtMost, Older
<1>1. b \in Int /\ b < NextStep - 1
  BY <1>n
<1>2. Older(Queue, b) \in SUBSET Item
  BY DEF Older
<1>3. Older(Queue, b)' \in SUBSET Older(Queue, b)
  <2>1. \A u \in Item : born'[u] \in Nat /\ born'[u] >= NextStep - 1 => ~ (born'[u] <= b)
    BY <1>n, <1>1
  <2> QED
    BY <2>1 DEF Older, Queue
<1>4. AtMost(Older(Queue, b), Room(b, NextStep) + Due)
  BY DEF AgeInv
<1>5. Room(b, NextStep) + Due \in Int
  BY <1>n, <1>1
<1>6. Room(b, NextStep) + Due <= Room(b, NextStep) + Due
  BY <1>5
<1> QED
  BY <1>2, <1>3, <1>4, <1>5, <1>6, AtMostLess

\* The invariant of the next state, when no crash happens.
LEMMA AgePrimed ==
  ASSUME crashes' = crashes,
         Strategy = "wait" =>
           \A b \in 0 .. NextStep' - Lag : AtMost(Older(Queue, b)', Room(b, NextStep') + Due')
  PROVE  AgeInv'
<1> SUFFICES ASSUME Strategy = "wait", NEW b \in 0 .. NextStep' - Lag
             PROVE  AtMost(Older(Queue, b)', Room(b, NextStep)' + Due')
  BY DEF AgeInv, AtMost
<1>1. Room(b, NextStep)' = Room(b, NextStep')
  BY DEF Room, PoolLow
<1>2. AtMost(Older(Queue, b)', Room(b, NextStep') + Due')
  OBVIOUS
<1> QED
  BY <1>1, <1>2

\* The steps that neither begin a step, nor sample, nor belong to a restart.
LEMMA AgeFrame ==
  ASSUME TypeInv, PoolInv, [Next]_vars, ~ LoadCheckpoint, ~ Feed, ~ SelectBatch, ~ Crash
  PROVE  NextStep' = NextStep /\ Due' = Due /\ crashes' = crashes
<1>t. TypeOK
  BY DEF TypeInv
<1>1. CASE \E u \in Item : Worker(u)
  <2>1. UNCHANGED <<pc, gs, iter, crashes>>
    BY <1>t, <1>1, WorkerEffect, WorkerCounts
  <2> QED
    BY <2>1 DEF NextStep, Due
<1>2. CASE UpdateActor
  <2>1. /\ pc = "train" /\ iter' = iter + 1 /\ UNCHANGED <<crashes, gs>>
        /\ pc' \in {"poll", "capacity", "step_end"}
        /\ (pc' = "poll" <=> iter + 1 < SyncSteps)
    BY <1>2 DEF UpdateActor, ghostVars
  <2>2. iter < SyncSteps /\ iter \in Nat /\ SyncSteps \in Nat /\ SampleBatch \in Nat
    BY <1>t, <2>1, TrainerAssumption DEF PoolInv, TypeOK
  <2>3. /\ (SyncSteps - iter) * SampleBatch \in Int
        /\ (SyncSteps - iter - 1) * SampleBatch = (SyncSteps - iter) * SampleBatch - SampleBatch
        /\ (SyncSteps - (iter + 1)) * SampleBatch = (SyncSteps - iter) * SampleBatch - SampleBatch
        /\ iter + 1 = SyncSteps => (SyncSteps - iter) * SampleBatch = SampleBatch
    BY <2>2, Products
  <2>4. pc' # "poll" => iter + 1 = SyncSteps
    BY <2>1, <2>2
  <2>5. Due = (SyncSteps - iter) * SampleBatch - SampleBatch
    BY <2>1, <2>3 DEF Due
  <2>6. pc' = "poll" => Due' = (SyncSteps - iter) * SampleBatch - SampleBatch
    BY <2>1, <2>3 DEF Due
  <2>7. pc' # "poll" => Due' = 0 /\ (SyncSteps - iter) * SampleBatch - SampleBatch = 0
    BY <2>1, <2>2, <2>3, <2>4 DEF Due
  <2>8. Due' = Due
    BY <2>5, <2>6, <2>7
  <2> QED
    BY <2>1, <2>8 DEF NextStep
<1>3. CASE ~ UpdateActor /\ ~ \E u \in Item : Worker(u)
  <2>1. /\ crashes' = crashes
        /\ \/ UNCHANGED <<pc, gs, iter>>
           \/ /\ {pc, pc'} \subseteq {"poll", "decide", "refill"} /\ UNCHANGED <<gs, iter>>
           \/ /\ pc = "train" /\ pc' = "raised" /\ UNCHANGED <<gs, iter>>
           \/ /\ {pc, pc'} \subseteq {"warmup", "feed", "done"} /\ UNCHANGED gs
           \/ /\ {pc, pc'} \subseteq {"capacity", "actor", "data", "tq", "tracker", "step_end"}
              /\ UNCHANGED gs
           \/ /\ pc = "reissue" /\ pc' = "warmup" /\ gs' = gs + 1
           \/ /\ pc = "step_end" /\ pc' \in {"feed", "done"} /\ gs' = gs + 1
    BY <1>3 DEF Next, Trainer, Terminated, TrainEnd, SyncMetadata, SleepPoll,
       BalanceFails, EnsureCapacity, SaveActor, SaveDataloader,
       SaveTransferQueue, WriteTracker, ReissueInflight, Warmup,
       DropStale, Refill, StepEnd, vars, ghostVars
  <2> QED
    BY <2>1 DEF NextStep, Due
<1> QED
  BY <1>1, <1>2, <1>3

\* A new step leaves the groups of the steps before for later, and counts its own only
\* when the sampler waits for them.
LEMMA AgeFeed ==
  ASSUME TypeInv, PoolInv, AgeInv, Feed
  PROVE  AgeInv'
<1>t. TypeOK
  BY DEF TypeInv
<1>1. /\ pc = "feed" /\ pc' = "poll" /\ iter' = 0 /\ UNCHANGED <<gs, crashes>>
  BY DEF Feed, ghostVars
<1>n. /\ Lag \in Nat /\ Lag >= 2 /\ gs \in Nat /\ crashes * PoolLow + PoolLow \in Int
      /\ TrainBatch \in Nat /\ \A b, g \in Int : Room(b, g) \in Int
  BY <1>t, AgeNumbers
<1>2. NextStep = gs /\ NextStep' = gs + 1 /\ Due = 0 /\ Due' = TrainBatch /\ Owed = 0
  BY <1>1, <1>t, Products DEF NextStep, Due, Owed, TypeOK
<1> SUFFICES ASSUME Strategy = "wait", NEW b \in 0 .. NextStep' - Lag
             PROVE  AtMost(Older(Queue, b)', Room(b, NextStep') + Due')
  BY <1>1, AgePrimed
<1>b. b \in 0 .. gs + 1 - Lag /\ Room(b, NextStep') + Due' = Room(b, gs + 1) + TrainBatch
  <2>1. b \in 0 .. gs + 1 - Lag
    BY <1>n, <1>2
  <2>2. Room(b, NextStep') = Room(b, gs + 1)
    BY <1>2
  <2> QED
    BY <1>2, <2>1, <2>2
<1>3. b \in Int /\ gs \in Int /\ b < gs
  BY <1>n, <1>b
<1>4. Older(Queue, b) \in SUBSET Item /\ Older(Queue, b) \in SUBSET Live
  BY LiveStatus DEF Older, Queue
<1>5. Older(Queue, b)' \in SUBSET Older(Queue, b)
  <2>1. \A u \in Item : (status'[u] = status[u] /\ born'[u] = born[u]) \/ born'[u] = gs
    BY FeedEffect
  <2>2. ~ (gs <= b)
    BY <1>n, <1>3
  <2> QED
    BY <2>1, <2>2 DEF Older, Queue
<1>6. Room(b, gs + 1) = Room(b, gs) - TrainBatch
      /\ (b + Lag - 1 = gs => Room(b, gs) = crashes * PoolLow + PoolLow)
  BY <1>t, <1>3, RoomNext
<1>7. Room(b, gs) \in Int /\ Room(b, gs + 1) + TrainBatch = Room(b, gs)
  BY <1>n, <1>3, <1>6
<1>8. AtMost(Older(Queue, b), Room(b, gs))
  <2>1. CASE b <= gs - Lag
    <3>1. b \in 0 .. NextStep - Lag
      BY <1>2, <1>n, <1>b, <2>1
    <3>2. AtMost(Older(Queue, b), Room(b, NextStep) + Due)
      BY <3>1 DEF AgeInv
    <3>3. Room(b, NextStep) + Due = Room(b, gs)
      BY <1>2, <1>7
    <3> QED
      BY <3>2, <3>3
  <2>2. CASE ~ (b <= gs - Lag)
    <3>1. b + Lag - 1 = gs
      BY <1>n, <1>b, <2>2
    <3>2. Cardinality(Live) + 0 - 0 <= crashes * PoolLow + PoolLow
      BY <1>1, <1>2 DEF PoolInv
    <3>3. Cardinality(Older(Queue, b)) <= Cardinality(Live)
          /\ Cardinality(Older(Queue, b)) \in Nat /\ Cardinality(Live) \in Nat
      BY <1>4, LiveItems, ItemsMonotone, ItemsFinite
    <3>4. Cardinality(Older(Queue, b)) <= Room(b, gs)
      BY <1>n, <1>6, <3>1, <3>2, <3>3
    <3> QED
      BY <3>4 DEF AtMost
  <2> QED
    BY <2>1, <2>2
<1>9. Room(b, gs) <= Room(b, gs)
  BY <1>7
<1> QED
  BY <1>b, <1>4, <1>5, <1>7, <1>8, <1>9, AtMostLess

\* A group of a step that the sampler waits for is not in flight when it goes on.
LEMMA LateGroup ==
  ASSUME NEW g \in Nat, NEW b \in Int, NEW n \in Nat, b <= g + 1 - Lag, n <= b
  PROVE  ~ (Span(g, n) < Threshold)
BY ThresholdAssumption DEF Span, Lag

\* The sampler takes a batch of the groups it waited for, or what is left of them.
LEMMA AgeSelect ==
  ASSUME TypeInv, WorkerInv, SnapInv, SnapWhole, AgeInv, SelectBatch
  PROVE  AgeInv'
<1>t. TypeOK
  BY DEF TypeInv
<1>1. /\ pc = "decide" /\ pc' = "train" /\ UNCHANGED <<gs, iter, crashes>>
      /\ HasEnoughSamples(gs, snap, SampleBatch)
  BY DEF SelectBatch, ghostVars
<1>n. /\ Lag \in Nat /\ Lag >= 2 /\ Lag >= Threshold /\ Threshold \in Nat \ {0}
      /\ gs \in Nat /\ SampleBatch \in Nat \ {0} /\ Due \in Int
      /\ \A b, g \in Int : Room(b, g) \in Int
  BY <1>t, AgeNumbers
<1>2. NextStep = gs + 1 /\ NextStep' = gs + 1
  BY <1>1 DEF NextStep
<1>3. Due' = Due - SampleBatch
  BY <1>1, <1>t, Products DEF Due, TypeOK
<1>4. PICK S \in OldestFirst(gs, snap, SampleBatch) : KvClear(S, SampledClears(S))
  BY DEF SelectBatch
<1> SUFFICES ASSUME Strategy = "wait", NEW b \in 0 .. NextStep' - Lag
             PROVE  AtMost(Older(Queue, b)', Room(b, NextStep') + Due')
  BY <1>1, AgePrimed
<1>b. b \in Int /\ b \in 0 .. gs + 1 - Lag /\ b <= gs + 1 - Lag /\ gs + 1 \in Int
  BY <1>n, <1>2
<1> DEFINE O == Older(Queue, b)
           R == Room(b, gs + 1)
<1>5. O \in SUBSET Item /\ R \in Int /\ AtMost(O, R + Due)
  <2>1. b \in 0 .. NextStep - Lag
    BY <1>2, <1>b
  <2>2. AtMost(Older(Queue, b), Room(b, NextStep) + Due)
    BY <2>1 DEF AgeInv
  <2> QED
    BY <1>2, <1>b, <1>n, <2>2 DEF Older
<1>6. SampleableTerminalKeys(gs, snap) = Terminal(snap)
  BY DEF SampleableTerminalKeys
<1>7. S \in SUBSET Terminal(snap) /\ S \in SUBSET Live /\ Cardinality(S) = SampleBatch
  BY <1>t, <1>6, TerminalLive DEF OldestFirst
<1>8. \A u \in S, v \in Terminal(snap) \ S : snap.born[u] <= snap.born[v]
  BY <1>6 DEF OldestFirst
<1>9. \A u \in Live : u \in Item /\ snap.status[u] # "absent" /\ snap.born[u] = born[u]
  BY <1>1, LiveStatus DEF SnapWhole
<1>10. \A u \in O : u \in Live /\ u \in Terminal(snap) /\ snap.born[u] = born[u] /\ born[u] <= b
  <2> SUFFICES ASSUME NEW u \in O
               PROVE  u \in Live /\ u \in Terminal(snap) /\ snap.born[u] = born[u] /\ born[u] <= b
    OBVIOUS
  <2>1. u \in Item /\ u \in Live /\ born[u] <= b
    BY LiveStatus DEF Older, Queue
  <2>2. snap.status[u] # "absent" /\ snap.born[u] = born[u]
    BY <1>9, <2>1
  <2>3. born[u] \in Nat /\ snap.status[u] \in Status
    BY <1>t, <2>1 DEF TypeOK, Meta
  <2>4. ~ (Span(gs, born[u]) < Threshold)
    BY <1>n, <1>b, <2>1, <2>3, LateGroup
  <2>5. u \notin InFlight(snap)
    BY <1>1, <2>2, <2>4 DEF HasEnoughSamples
  <2>6. u \in Terminal(snap)
    BY <2>1, <2>2, <2>3, <2>5 DEF InFlight, Terminal, Status
  <2> QED
    BY <2>1, <2>2, <2>6
<1>11. Older(Queue, b)' = O \ S
  BY <1>4 DEF KvClear, Older, Queue
<1>12. CASE O \subseteq S
  BY <1>11, <1>12 DEF AtMost
<1>13. CASE ~ (O \subseteq S)
  <2>1. PICK v \in O : v \notin S
    BY <1>13
  <2>2. S \subseteq O
    <3> SUFFICES ASSUME NEW u \in S PROVE u \in O
      OBVIOUS
    <3>1. v \in Terminal(snap) \ S /\ snap.born[v] = born[v] /\ born[v] <= b /\ v \in Item
      BY <1>10, <2>1 DEF Terminal
    <3>2. u \in Live /\ u \in Item /\ snap.born[u] = born[u]
      BY <1>7, <1>9
    <3>3. born[u] <= born[v]
      BY <1>8, <3>1, <3>2
    <3>4. born[u] \in Nat /\ born[v] \in Nat
      BY <1>t, <3>1, <3>2 DEF TypeOK
    <3>5. born[u] <= b
      BY <1>b, <3>1, <3>3, <3>4
    <3> QED
      BY <3>2, <3>5, LiveStatus DEF Older, Queue
  <2>3. IsFiniteSet(O) /\ Cardinality(O) \in Nat /\ O \cap S = S
    BY <1>5, <2>2, ItemsFinite
  <2>4. Cardinality(O \ S) = Cardinality(O) - Cardinality(O \cap S)
    BY <2>3, FS_Difference
  <2>5. Cardinality(O) <= R + Due
    BY <1>5, <2>1 DEF AtMost
  <2> HIDE DEF O, R
  <2>6. Cardinality(O \ S) = Cardinality(O) - SampleBatch
    BY <1>7, <2>3, <2>4
  <2>7. Cardinality(O \ S) <= R + Due'
    BY <1>3, <1>5, <1>n, <2>3, <2>5, <2>6
  <2> QED
    BY <1>2, <1>11, <2>7 DEF AtMost, R
<1> QED
  BY <1>12, <1>13

\* A restart finds the groups that the checkpoint has; without one it finds none.
LEMMA AgeRestart ==
  ASSUME TypeInv, WorkerInv, StoredAge, LoadCheckpoint \/ Crash
  PROVE  AgeInv'
<1>t. TypeOK
  BY DEF TypeInv
<1>1. CASE \A u \in Item : status'[u] = "absent"
  <2>1. \A b : Older(Queue, b)' = {}
    BY <1>1 DEF Older, Queue
  <2> QED
    BY <2>1 DEF AgeInv, AtMost
<1>2. CASE Crash
  <2>1. \A u \in Item : status'[u] = "absent"
    BY <1>2 DEF Crash, EmptyMeta
  <2> QED
    BY <1>1, <2>1
<1>3. CASE LoadCheckpoint /\ ~ (tracker # 0 /\ TqCheckpoint)
  <2>1. status' = status /\ pc = "load"
    BY <1>3 DEF LoadCheckpoint, tqVars
  <2>2. \A u \in Item : status'[u] = "absent"
    BY <2>1 DEF WorkerInv
  <2> QED
    BY <1>1, <2>2
<1>4. CASE LoadCheckpoint /\ tracker # 0 /\ TqCheckpoint
  <2>1. /\ pc' = "reissue" /\ gs' = tracker /\ UNCHANGED <<crashes, tracker>>
        /\ status' = disk[tracker].meta.status /\ born' = disk[tracker].meta.born
    BY <1>4 DEF LoadCheckpoint, diskVars
  <2>2. NextStep' = tracker + 1 /\ Due' = 0
    BY <2>1 DEF NextStep, Due
  <2>3. tracker \in Nat /\ Lag \in Nat /\ \A b, g \in Int : Room(b, g) \in Int
    BY <1>t, AgeNumbers
  <2> SUFFICES ASSUME Strategy = "wait", NEW b \in 0 .. NextStep' - Lag
               PROVE  AtMost(Older(Queue, b)', Room(b, NextStep') + Due')
    BY <2>1, AgePrimed
  <2>4. b \in 0 .. tracker + 1 - Lag /\ b \in Int /\ tracker + 1 \in Int
    BY <2>2, <2>3
  <2>5. AtMost(Older(disk[tracker].meta, b), Room(b, tracker + 1))
    BY <1>4, <2>4 DEF StoredAge
  <2>6. Older(Queue, b)' = Older(disk[tracker].meta, b)
    BY <2>1 DEF Older, Queue
  <2>7. Room(b, NextStep') = Room(b, tracker + 1)
    BY <2>2
  <2>8. Room(b, tracker + 1) + Due' = Room(b, tracker + 1)
    BY <2>2, <2>3, <2>4
  <2> QED
    BY <2>5, <2>6, <2>7, <2>8
<1> QED
  BY <1>2, <1>3, <1>4

\* Every other step adds only groups that the sampler does not yet wait for.
LEMMA AgeNext ==
  ASSUME QueueInd, PoolInv, AgeInv, StoredAge, SnapWhole, [Next]_vars
  PROVE  AgeInv'
<1>t. TypeInv /\ TypeOK /\ WorkerInv /\ SnapInv
  BY DEF QueueInd, TypeInv
<1>1. CASE LoadCheckpoint \/ Crash \/ Feed \/ SelectBatch
  BY <1>1, <1>t, AgeRestart, AgeFeed, AgeSelect
<1>2. CASE ~ LoadCheckpoint /\ ~ Crash /\ ~ Feed /\ ~ SelectBatch
  <2>1. NextStep' = NextStep /\ Due' = Due /\ crashes' = crashes
    BY <1>2, <1>t, AgeFrame
  <2>2. gs \in Nat /\ NextStep \in {gs, gs + 1}
    BY <1>t DEF TypeOK, NextStep
  <2> DEFINE Kept == \A u \in Item : status'[u] # "absent" =>
               \/ status[u] # "absent" /\ born'[u] = born[u]
               \/ born'[u] \in Nat /\ born'[u] >= NextStep - 1
  <2>3. CASE \E u \in Item : Worker(u)
    <3> PICK v \in Item : Worker(v)
      BY <2>3
    <3>1. Kept
      BY <1>t, WorkerStep
    <3> QED
      BY <1>t, <2>1, <3>1, AgeKept
  <2>4. CASE Quiet \/ UNCHANGED vars
    <3>1. Kept
      BY <2>4, QuietStep DEF vars, tqVars
    <3> QED
      BY <1>t, <2>1, <3>1, AgeKept
  <2>5. CASE DropStale \/ StepEnd
    <3>1. \A u \in Item : status'[u] \in {"absent", status[u]} /\ born'[u] \in {0, born[u]}
                          /\ (status'[u] # "absent" => born'[u] = born[u])
      BY <2>5 DEF DropStale, StepEnd, KvClear
    <3>2. Kept
      BY <3>1
    <3> QED
      BY <1>t, <2>1, <3>2, AgeKept
  <2>6. CASE Warmup \/ Refill
    <3>1. \A u \in Item : (status'[u] = status[u] /\ born'[u] = born[u]) \/ born'[u] = gs
      BY <2>6, <1>t, FeedEffect
    <3>2. Kept
      BY <2>2, <3>1
    <3> QED
      BY <1>t, <2>1, <3>2, AgeKept
  <2>7. CASE ReissueInflight
    <3>1. \A u \in Item : \/ status'[u] = status[u] /\ born'[u] = born[u]
                          \/ born'[u] = gs + 1
      BY <2>7 DEF ReissueInflight
    <3>2. Kept
      BY <2>2, <3>1
    <3> QED
      BY <1>t, <2>1, <3>2, AgeKept
  <2> QED
    BY <1>2, <2>3, <2>4, <2>5, <2>6, <2>7, NextCases
<1> QED
  BY <1>1, <1>2

\* The sampler's snapshot knows every group of the pool.
LEMMA SnapWholeNext ==
  ASSUME QueueInd, SnapWhole, [Next]_vars
  PROVE  SnapWhole'
<1>t. TypeInv /\ TypeOK /\ WorkerInv
  BY DEF QueueInd, TypeInv
<1>1. CASE SyncMetadata
  BY <1>1 DEF SyncMetadata, Queue, SnapWhole, tqVars
<1>2. CASE \E u \in Item : Worker(u)
  <2> PICK v \in Item : Worker(v)
    BY <1>2
  <2>1. /\ UNCHANGED <<pc, snap, born>>
        /\ \A u \in Item : status'[u] # "absent" => status[u] # "absent"
    BY <1>t, WorkerStep
  <2> QED
    BY <2>1 DEF SnapWhole
<1>3. CASE UNCHANGED vars
  BY <1>3 DEF vars, tqVars, bufferVars, SnapWhole
<1>4. CASE ~ SyncMetadata /\ ~ (\E u \in Item : Worker(u)) /\ ~ UNCHANGED vars
  <2>1. pc' # "decide"
    BY <1>4 DEF Next, Trainer, Terminated, TrainEnd, SleepPoll, BalanceFails,
       UpdateActor, EnsureCapacity, SaveActor, SaveDataloader, SaveTransferQueue, WriteTracker,
       LoadCheckpoint, ReissueInflight, Warmup, Feed, DropStale, Refill, SelectBatch, StepEnd, Crash
  <2> QED
    BY <2>1 DEF SnapWhole
<1> QED
  BY <1>1, <1>2, <1>3, <1>4

\* A crash leaves more room.
LEMMA RoomGrows ==
  ASSUME TypeOK, crashes' \in {crashes, crashes + 1}, NEW b \in Int, NEW g \in Int
  PROVE  Room(b, g) \in Int /\ Room(b, g)' \in Int /\ Room(b, g) <= Room(b, g)'
<1>1. /\ crashes \in Nat /\ PoolLow \in Nat /\ crashes * PoolLow \in Nat /\ Lag \in Nat
      /\ TrainBatch \in Nat
  BY AgeNumbers
<1>2. (crashes + 1) * PoolLow = crashes * PoolLow + PoolLow
  BY <1>1
<1> DEFINE x == (b + Lag - 1 - g) * TrainBatch
<1>3. x \in Int
  <2> DEFINE y == b + Lag - 1 - g
  <2>1. y \in Int
    BY <1>1
  <2> HIDE DEF y
  <2>2. y * TrainBatch \in Int
    BY <1>1, <2>1
  <2> QED
    BY <2>2 DEF y
<1>4. Room(b, g) = crashes * PoolLow + PoolLow + x /\ Room(b, g)' = crashes' * PoolLow + PoolLow + x
  BY DEF Room, PoolLow
<1> DEFINE c == crashes * PoolLow
           d == crashes' * PoolLow
<1>5. d = c \/ d = c + PoolLow
  BY <1>2
<1>6. c \in Nat /\ Room(b, g) = c + PoolLow + x /\ Room(b, g)' = d + PoolLow + x
  BY <1>1, <1>4
<1> HIDE DEF x, c, d
<1>7. d \in Nat /\ c <= d
  BY <1>1, <1>5, <1>6
<1> QED
  BY <1>1, <1>3, <1>6, <1>7

\* The tracker is written at the end of a step, when the groups the sampler waited for
\* are a batch fewer.
LEMMA StoredAgeNext ==
  ASSUME QueueInd, TqCheckpoint => IndInv, AgeInv, StoredAge, [Next]_vars
  PROVE  StoredAge'
<1>t. TypeInv /\ TypeOK /\ WorkerInv /\ TrackerInv /\ DiskSound
  BY DEF QueueInd, QueueInv, TypeInv
<1>n. /\ Lag \in Nat /\ gs \in Nat /\ tracker \in Nat /\ \A b, g \in Int : Room(b, g) \in Int
  BY <1>t, AgeNumbers
<1> SUFFICES ASSUME Strategy = "wait", TqCheckpoint, tracker' # 0,
                    NEW b \in 0 .. tracker' + 1 - Lag
             PROVE  AtMost(Older(disk'[tracker'].meta, b), Room(b, tracker + 1)')
  BY DEF StoredAge, AtMost, Older
<1>1. CASE WriteTracker
  <2>1. pc = "tracker" /\ tracker' = gs /\ UNCHANGED <<disk, crashes>>
    BY <1>1 DEF WriteTracker, ghostVars
  <2>2. NextStep = gs + 1 /\ Due = 0
    BY <2>1 DEF NextStep, Due
  <2>3. b \in 0 .. NextStep - Lag /\ b \in Int /\ gs + 1 \in Int
    BY <1>n, <2>1, <2>2
  <2>4. AtMost(Older(Queue, b), Room(b, NextStep) + Due)
    BY <2>3 DEF AgeInv
  <2>5. disk[gs].meta.born = born /\ Prompts(disk[gs].meta) = Live
    BY <1>t, <2>1 DEF DiskSound, IndInv, SaveInv
  <2>6. Older(disk'[tracker'].meta, b) = Older(Queue, b)
    <3>1. \A u \in Item : disk[gs].meta.status[u] # "absent" <=> status[u] # "absent"
      BY <2>5, LiveStatus DEF Prompts
    <3> QED
      BY <2>1, <2>5, <3>1 DEF Older, Queue
  <2>7. Room(b, tracker + 1)' = Room(b, gs + 1)
    BY <2>1 DEF Room, PoolLow
  <2>8. Room(b, NextStep) + Due = Room(b, gs + 1)
    <3>1. Room(b, NextStep) = Room(b, gs + 1) /\ Room(b, gs + 1) \in Int
      BY <1>n, <2>2, <2>3
    <3> QED
      BY <2>2, <3>1
  <2> QED
    BY <2>4, <2>6, <2>7, <2>8
<1>2. CASE ~ WriteTracker
  <2>0. tracker' = tracker
    <3>1. CASE (\E u \in Item : Worker(u)) \/ UNCHANGED vars
      BY <1>t, <3>1, WorkerEffect DEF vars, diskVars
    <3> QED
      BY <1>2, <1>t, <3>1, SavePc
  <2>1. tracker \in 1 .. TotalSteps /\ (tracker = gs => ~ SaveDataloader /\ ~ SaveTransferQueue)
    BY <1>t, <2>0, TrainerAssumption DEF SaveDataloader, SaveTransferQueue, TrackerInv, TypeOK
  <2>2. disk'[tracker'].meta = disk[tracker].meta
    BY <1>t, <2>0, <2>1, FolderKept
  <2>3. crashes' \in {crashes, crashes + 1}
    <3>1. CASE \E u \in Item : Worker(u)
      BY <1>t, <3>1, WorkerCounts
    <3>2. CASE ~ \E u \in Item : Worker(u)
      BY <3>2 DEF Next, Trainer, Terminated, TrainEnd, SyncMetadata, SleepPoll,
         BalanceFails, UpdateActor, EnsureCapacity, SaveActor, SaveDataloader,
         SaveTransferQueue, WriteTracker, LoadCheckpoint, ReissueInflight, Warmup, Feed,
         DropStale, Refill, SelectBatch, StepEnd, Crash, vars, ghostVars
    <3> QED
      BY <3>1, <3>2
  <2>4. b \in 0 .. tracker + 1 - Lag /\ b \in Int /\ tracker + 1 \in Int
    BY <1>n, <2>0
  <2>5. AtMost(Older(disk[tracker].meta, b), Room(b, tracker + 1))
    BY <2>0, <2>4 DEF StoredAge
  <2>6. /\ Room(b, tracker + 1) \in Int /\ Room(b, tracker + 1)' \in Int
        /\ Room(b, tracker + 1) <= Room(b, tracker + 1)'
    <3>1. Room(b, tracker + 1)' = crashes' * PoolLow + PoolLow + (b + Lag - 1 - (tracker + 1)) * TrainBatch
      BY <2>0 DEF Room, PoolLow
    <3> QED
      BY <1>t, <2>0, <2>3, <2>4, <3>1, RoomGrows DEF Room, PoolLow
  <2>7. Older(disk[tracker].meta, b) \in SUBSET Item
    BY DEF Older
  <2>8. Older(disk[tracker].meta, b) \in SUBSET Older(disk[tracker].meta, b)
    OBVIOUS
  <2> QED
    BY <2>2, <2>5, <2>6, <2>7, <2>8, AtMostLess
<1> QED
  BY <1>1, <1>2

\* A group that the sampler may select is not older than the bound: all of those are gone.
LEMMA SelectedAge ==
  ASSUME TypeOK, AgeInv, Strategy = "wait", pc = "decide",
         NEW u \in Item, status[u] # "absent"
  PROVE  Span(gs, born[u]) <= Lag + (crashes + 1) * WarmupBatches - 1
<1>n. /\ Lag \in Nat /\ Lag >= 2 /\ gs \in Nat /\ crashes \in Nat /\ TrainBatch \in Nat
      /\ PoolLow \in Nat /\ crashes * PoolLow \in Nat /\ SampleBatch \in Nat
      /\ born[u] \in Nat /\ iter \in Nat /\ SyncSteps \in Nat /\ WarmupBatches \in Nat
  BY AgeNumbers, TrainerAssumption DEF TypeOK
<1>r. \A b, g \in Int : Room(b, g) \in Int
  BY AgeNumbers
<1> DEFINE b == born[u]
           w == (crashes + 1) * WarmupBatches
           x == b + Lag - 1 - gs
<1>1. w \in Nat /\ w * TrainBatch = crashes * PoolLow + PoolLow
  BY <1>n, Products
<1>2. x \in Int /\ b \in Int /\ gs + 1 \in Int
  BY <1>n
<1>3. Due <= TrainBatch /\ Due \in Int
  <2>1. Due = (SyncSteps - iter) * SampleBatch
    BY DEF Due
  <2>2. /\ (SyncSteps - iter) * SampleBatch = SyncSteps * SampleBatch - iter * SampleBatch
        /\ iter * SampleBatch \in Nat /\ SyncSteps * SampleBatch = TrainBatch
    BY <1>n DEF TrainBatch
  <2> QED
    BY <1>n, <2>1, <2>2
<1>4. Room(b, gs + 1) = Room(b, gs) - TrainBatch /\ Room(b, gs) \in Int
  <2>1. b \in Int /\ gs \in Int
    BY <1>n
  <2> HIDE DEF b
  <2> QED
    BY <1>r, <2>1, RoomNext
<1>5. Room(b, gs) = crashes * PoolLow + PoolLow + x * TrainBatch
  BY DEF Room
<1> SUFFICES ASSUME ~ (Span(gs, b) <= Lag + w - 1) PROVE FALSE
  OBVIOUS
<1>6. x + w <= 0
  BY <1>n, <1>1 DEF Span
<1>7. b \in 0 .. NextStep - Lag /\ NextStep = gs + 1
  <2>1. NextStep = gs + 1
    BY DEF NextStep
  <2>2. b <= gs + 1 - Lag
    BY <1>n, <1>1, <1>6
  <2> QED
    BY <1>n, <2>1, <2>2
<1>8. AtMost(Older(Queue, b), Room(b, NextStep) + Due)
  BY <1>7 DEF AgeInv
<1>9. u \in Older(Queue, b)
  BY <1>n DEF Older, Queue
<1>10. Cardinality(Older(Queue, b)) <= Room(b, gs + 1) + Due
  BY <1>7, <1>8, <1>9 DEF AtMost
<1>11. Cardinality(Older(Queue, b)) \in Nat /\ Cardinality(Older(Queue, b)) # 0
  <2>1. Older(Queue, b) \in SUBSET Item
    BY DEF Older
  <2> QED
    BY <1>9, <2>1, ItemsFinite, FS_EmptySet
<1>12. Room(b, gs) <= 0
  <2> HIDE DEF x, w
  <2>1. (x + w) * TrainBatch = x * TrainBatch + w * TrainBatch /\ x * TrainBatch \in Int
    BY <1>n, <1>1, <1>2
  <2>2. (x + w) * TrainBatch <= 0
    BY <1>n, <1>1, <1>2, <1>6
  <2> QED
    BY <1>n, <1>1, <1>5, <2>1, <2>2
<1> DEFINE n == Cardinality(Older(Queue, b))
           p == Room(b, gs + 1)
           q == Room(b, gs)
<1>13. /\ n \in Nat /\ n # 0 /\ n <= p + Due /\ p = q - TrainBatch /\ q \in Int /\ q <= 0
  BY <1>4, <1>10, <1>11, <1>12
<1> HIDE DEF b, n, p, q
<1> QED
  BY <1>n, <1>3, <1>13

\* An update is given groups of that age, and late writers do not change their tags.
LEMMA WaitNext ==
  ASSUME QueueInd, AgeInv, WaitSpanBound, [Next]_vars
  PROVE  WaitSpanBound'
<1> SUFFICES ASSUME pc' = "train", Strategy = "wait",
                    NEW k \in batch', k[1] \in taken'
             PROVE  Span(gs', traj'[k[1]][k[2]]) <= Lag + (crashes' + 1) * WarmupBatches - 1
  BY DEF WaitSpanBound, Lag
<1>t. /\ TypeOK /\ TypeInv /\ WorkerInv /\ SnapInv /\ SessInv /\ JobInv /\ Sound(Queue, pos)
      /\ SnapSound /\ BatchInv
  BY DEF QueueInd, QueueInv, TypeInv
<1>1. CASE SelectBatch
  <2>1. PICK S \in OldestFirst(gs, snap, SampleBatch) :
          /\ KvClear(S, {}) /\ taken' = S
          /\ batch' = batch \cup TrajectoryKeys(snap, S)
    BY <1>1 DEF SelectBatch, SampledClears
  <2>2. pc = "decide" /\ gs' = gs /\ crashes' = crashes
    BY <1>1 DEF SelectBatch, ghostVars
  <2>3. k[1] \in S /\ k[1] \in Terminal(snap)
    BY <2>1, SampleableTerminal DEF OldestFirst
  <2>4. k[1] \in Item /\ status[k[1]] # "absent"
    BY <1>t, <2>3, TerminalHasNoTask
  <2>5. k \in TrajectoryKeys(snap, S)
    BY <1>t, <2>1, <2>4 DEF BatchInv
  <2>6. k[2] \in Session /\ snap.traj[k[1]][k[2]] # 0
    BY <2>5 DEF TrajectoryKeys
  <2>7. traj[k[1]][k[2]] # 0
    BY <1>t, <2>3, <2>6 DEF SnapSound
  <2>8. traj[k[1]][k[2]] = born[k[1]]
    BY <1>t, <2>4, <2>6, <2>7 DEF Sound, Queue
  <2>9. traj'[k[1]][k[2]] = born[k[1]]
    BY <2>1, <2>4, <2>6, <2>8 DEF KvClear
  <2>10. Span(gs, born[k[1]]) <= Lag + (crashes + 1) * WarmupBatches - 1
    BY <1>t, <2>2, <2>4, SelectedAge
  <2> QED
    BY <2>2, <2>9, <2>10
<1>2. CASE \E u \in Item : Worker(u)
  <2> PICK u \in Item : Worker(u)
    BY <1>2
  <2>1. UNCHANGED <<pc, gs, taken, batch, job, crashes>>
    BY <1>t, WorkerEffect, WorkerCounts
  <2>2. k[1] \in Item /\ k[2] \in Session /\ traj[k[1]][k[2]] # 0
    BY <1>t, <2>1 DEF BatchInv, TypeOK, Key
  <2>3. \/ traj'[k[1]][k[2]] = traj[k[1]][k[2]]
        \/ /\ traj'[k[1]][k[2]] = job[k[1]] /\ sess[k[1]][k[2]] = "run"
    BY <1>t, <2>2, WorkerEffect
  <2>4. traj'[k[1]][k[2]] = traj[k[1]][k[2]]
    BY <1>t, <2>2, <2>3 DEF SessInv, JobInv
  <2> QED
    BY <2>1, <2>4 DEF WaitSpanBound, Lag
<1>3. CASE UNCHANGED vars
  BY <1>3 DEF vars, tqVars, ghostVars, WaitSpanBound, Lag
<1>4. CASE ~ SelectBatch /\ ~ (\E u \in Item : Worker(u)) /\ ~ UNCHANGED vars
  <2>1. pc' # "train"
    BY <1>4 DEF Next, Trainer, Terminated, TrainEnd, SyncMetadata, SleepPoll, BalanceFails,
       UpdateActor, EnsureCapacity, SaveActor, SaveDataloader, SaveTransferQueue, WriteTracker,
       LoadCheckpoint, ReissueInflight, Warmup, Feed, DropStale, Refill, StepEnd, Crash
  <2> QED
    BY <2>1
<1> QED
  BY <1>1, <1>2, <1>3, <1>4

\* Under "wait" the age of a trained trajectory is bounded by the threshold and the warm-up
\* depth, once more for every restart: waiting, oldest-first sampling, checkpoints and
\* reissued groups together keep the queue from holding a group back longer, for every
\* batch size and number of updates per step.
THEOREM WaitingBoundsAge == Spec => []WaitSpanBound
<1> DEFINE J == PoolInv /\ StoredPool /\ AgeInv /\ StoredAge /\ SnapWhole /\ WaitSpanBound
<1>1. Init => J
  <2> SUFFICES ASSUME Init PROVE J
    OBVIOUS
  <2>1. PoolInv /\ StoredPool
    BY PoolInit
  <2>2. /\ \A u \in Item : status[u] = "absent"
        /\ pc = "load" /\ tracker = 0
    BY DEF Init, EmptyMeta
  <2>3. \A b : Older(Queue, b) = {}
    BY <2>2 DEF Older, Queue
  <2> QED
    BY <2>1, <2>2, <2>3 DEF AgeInv, StoredAge, SnapWhole, WaitSpanBound, AtMost
<1>2. ASSUME QueueInd, TqCheckpoint => IndInv, J, [Next]_vars PROVE J'
  BY <1>2, PoolNext, StoredPoolNext, AgeNext, StoredAgeNext, SnapWholeNext, WaitNext
<1>3. J => WaitSpanBound
  OBVIOUS
<1> HIDE DEF J
<1>4. CASE TqCheckpoint
  BY <1>1, <1>2, <1>3, <1>4, QueueInvariant, IndInvariant, PTL DEF Spec
<1>5. CASE ~ TqCheckpoint
  <2>1. QueueInd /\ J /\ [Next]_vars => J'
    BY <1>2, <1>5
  <2> QED
    BY <1>1, <1>3, <2>1, QueueInvariant, PTL DEF Spec
<1> QED
  BY <1>4, <1>5

-----------------------------------------------------------------------------
(* The synchronous mode: no warm-up, and checkpoints without the queue. *)

\* No folder has prompts.
NoMeta ==
  /\ pc # "tq"
  /\ \A g \in 1 .. TotalSteps : Prompts(disk[g].meta) = {}

\* Removing actors leaves the metadata alone.
LEMMA RemoveActorMeta ==
  ASSUME TypeOK, NEW G, NEW g \in 1 .. TotalSteps
  PROVE  RemoveActor(G)[g].meta = disk[g].meta
BY DEF RemoveActor, TypeOK, Folder

\* Only the save of the queue writes metadata.
LEMMA MetaKept ==
  ASSUME TypeInv, WorkerInv, [Next]_vars, ~ SaveTransferQueue, NEW g \in 1 .. TotalSteps
  PROVE  disk'[g].meta = disk[g].meta
<1>t. TypeOK /\ disk \in [1 .. TotalSteps -> Folder]
  BY DEF TypeInv, TypeOK
<1>1. CASE SaveActor
  <2> DEFINE q == Append(saved, gs)
             D == RemoveActor(PathsOf(SubSeq(q, 1, RegisterCut(Len(q)))))
             f == AddActor(D[gs])
  <2>1. gs \in 1 .. TotalSteps
    BY <1>1, TrainerAssumption DEF SaveActor, TypeInv, TypeOK, StepInv
  <2>2. D \in [1 .. TotalSteps -> Folder] /\ D[g].meta = disk[g].meta
    BY <1>t, RemoveActorType, RemoveActorMeta
  <2>3. disk' = [D EXCEPT ![gs] = f]
    BY <1>1 DEF SaveActor
  <2> HIDE DEF D
  <2>4. f.meta = D[gs].meta
    BY <2>1, <2>2, AddPartFields
  <2> HIDE DEF f
  <2> QED
    BY <2>1, <2>2, <2>3, <2>4
<1>2. CASE SaveDataloader
  BY <1>2, SaveSteps
<1>3. CASE EnsureCapacity
  BY <1>t, <1>3, RemoveActorMeta DEF EnsureCapacity
<1>4. CASE \E u \in Item : Worker(u)
  BY <1>t, <1>4, WorkerStep
<1>5. CASE /\ ~ (\E u \in Item : Worker(u)) /\ ~ SaveActor /\ ~ SaveDataloader
           /\ ~ EnsureCapacity
  BY <1>5 DEF Next, Trainer, Terminated, TrainEnd, SyncMetadata, SleepPoll,
     BalanceFails, UpdateActor, WriteTracker, LoadCheckpoint, ReissueInflight, Warmup, Feed,
     DropStale, Refill, SelectBatch, StepEnd, Crash, vars, diskVars
<1> QED
  BY <1>1, <1>2, <1>3, <1>4, <1>5

\* Without TransferQueue checkpoints the folders never get prompts.
LEMMA NoMetaNext ==
  ASSUME ~ TqCheckpoint, TypeInv, WorkerInv, NoMeta, [Next]_vars
  PROVE  NoMeta'
<1>1. ~ SaveTransferQueue
  BY DEF NoMeta, SaveTransferQueue
<1>2. \A g \in 1 .. TotalSteps : Prompts(disk[g].meta)' = {}
  <2> TAKE g \in 1 .. TotalSteps
  <2>1. disk'[g].meta = disk[g].meta
    BY <1>1, MetaKept
  <2> QED
    BY <2>1 DEF NoMeta, Prompts
<1>3. pc' # "tq"
  <2>1. CASE \E u \in Item : Worker(u)
    BY <2>1, WorkerStep DEF TypeInv, NoMeta
  <2>2. CASE ~ (\E u \in Item : Worker(u))
    BY <1>1, <2>2 DEF NoMeta, Next, Trainer, Terminated, TrainEnd, SyncMetadata, SleepPoll,
       BalanceFails, UpdateActor, WriteTracker, LoadCheckpoint, ReissueInflight, Warmup, Feed,
       DropStale, Refill, SelectBatch, StepEnd, Crash, vars, EnsureCapacity, SaveActor,
       SaveDataloader
  <2> QED
    BY <2>1, <2>2
<1> QED
  BY <1>2, <1>3 DEF NoMeta

\* Without warm-up a step leaves no group behind: when a checkpoint is saved or loaded the
\* queue is as empty as the folder says.
LEMMA EmptyPoolCarried ==
  ASSUME WarmupBatches = 0, QueueInd, PoolInv, NoMeta
  PROVE  Carried
<1>1. PoolLow = 0 /\ crashes * PoolLow = 0
  <2>1. crashes \in Nat
    BY DEF QueueInd, TypeInv, TypeOK
  <2>2. PoolLow = 0
    BY TrainBatchNat DEF PoolLow
  <2> QED
    BY <2>1, <2>2
<1>2. IsFiniteSet(Live) /\ Cardinality(Live) \in Nat
  BY LiveItems, ItemsFinite
<1>3. ASSUME pc \in {"data", "load"} PROVE Live = {}
  <2>1. Owed = 0 /\ Due = 0
    BY <1>3 DEF Owed, Due
  <2>2. Cardinality(Live) <= 0
    BY <1>1, <1>2, <1>3, <2>1 DEF PoolInv
  <2>3. Cardinality(Live) = 0
    BY <1>2, <2>2
  <2> QED
    BY <1>2, <2>3, FS_EmptySet
<1>4. /\ pc = "data" => gs \in 1 .. TotalSteps
      /\ tracker # 0 => tracker \in 1 .. TotalSteps
  BY TrainerAssumption DEF QueueInd, TypeInv, TypeOK, StepInv
<1> QED
  BY <1>3, <1>4 DEF Carried, NoMeta

\* The inductive invariant of the exactly-once proof holds in the synchronous mode too.
LEMMA SyncIndInvariant ==
  ASSUME ~ TqCheckpoint, WarmupBatches = 0
  PROVE  Spec => []IndInv
<1>1. Init => NoMeta
  BY DEF Init, NoMeta, EmptyFolder, EmptyMeta, Prompts
<1>2. QueueInd /\ NoMeta /\ [Next]_vars => NoMeta'
  BY NoMetaNext DEF QueueInd
<1>3. QueueInd /\ PoolInv /\ NoMeta => Carried
  BY EmptyPoolCarried
<1> QED
  BY <1>1, <1>2, <1>3, IndInit, IndNext, PoolInvariant, QueueInvariant, PTL DEF Spec

\* In the synchronous mode, whose checkpoints leave the queue out, every item is still trained
\* once, dropped once or on its way: a save finds the queue without prompts, so that a crash at
\* any instant loses only work that the dataloader hands out again.
THEOREM SyncItemsExactlyOnce ==
  ASSUME ~ TqCheckpoint, WarmupBatches = 0
  PROVE  Spec => []ExactlyOnce
<1>1. IndInv => ExactlyOnce
  BY DEF IndInv
<1> QED
  BY <1>1, SyncIndInvariant, PTL

\* The same checkpoints are consistent cuts.
THEOREM SyncCheckpointConsistent ==
  ASSUME ~ TqCheckpoint, WarmupBatches = 0
  PROVE  Spec => []TrackedConsistent
<1>1. IndInv => TrackedConsistent
  BY DEF IndInv
<1> QED
  BY <1>1, SyncIndInvariant, PTL
=============================================================================
