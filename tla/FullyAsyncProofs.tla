-------------------------- MODULE FullyAsyncProofs --------------------------
(***************************************************************************)
(* Safety of the fully asynchronous trainer, for every queue size, number  *)
(* of concurrent samples, batch size and synchronisation interval, and for *)
(* any number of failed tasks and restarts: what a restart loses, and how  *)
(* far the rollouter runs ahead of the trainer.                            *)
(***************************************************************************)
EXTENDS FullyAsync, FiniteSetTheorems, SequenceTheorems, TLAPS

-----------------------------------------------------------------------------
(* The inductive invariant. *)

\* What is in the queue, None included.
Entries == {queue[i] : i \in 1..Len(queue)}

\* The last sample the processor took; it may have taken None after it.
Reached == IF taken <= last THEN taken ELSE last

\* Samples are what the processor took, and a checkpoint's dataloader is as far as its
\* weights.
PlaceInv ==
  /\ running \subseteq 1..Reached /\ ended \subseteq 1..Reached /\ failed \subseteq 1..Reached
  /\ got \subseteq 1..Reached /\ model \subseteq 1..Reached
  /\ Queued \subseteq 1..Reached /\ dropped \subseteq 0..Reached
  /\ pp = "slot" => taken \in 1..last
  /\ disk.model \subseteq 1..disk.fed
  /\ base <= last

\* A batch is complete when it is trained, and gone afterwards.
BatchInv ==
  /\ tp = "get" => Cardinality(got) < RequiredSamples
  /\ tp \notin {"get", "train"} => got = {}

\* The processor holds the lock only to wait for one of its tasks, and reaps tasks that
\* nobody else removes.
LockInv ==
  /\ lock = "processor" => pp \in {"slot", "end"} /\ Active # {}
  /\ reaping # {} => pp = "reap"

TypeInv == TypeOK /\ PlaceInv /\ BatchInv /\ LockInv

\* The entries of the queue are all different.
AllDifferent == \A i, j \in 1..Len(queue) : queue[i] = queue[j] => i = j

\* A sample is in one place.
DistinctInv ==
  /\ AllDifferent
  /\ running \cap Queued = {} /\ failed \cap (running \cup Queued) = {}
  /\ got \cap (running \cup Queued) = {} /\ model \cap (got \cup running \cup Queued) = {}
  /\ pp = "slot" => taken \notin running \cup ended \cup failed \cup Queued \cup got \cup model

\* None is the last thing the rollouter puts.
EndInv == EndMarker \in Entries => pp = "finished"

SampleInv == TypeInv /\ DistinctInv /\ EndInv

-----------------------------------------------------------------------------
(* Facts about the operators. *)

\* The smaller and the larger of two numbers.
LEMMA MinPair ==
  ASSUME NEW a \in Int, NEW b \in Int
  PROVE  Min({a, b}) = IF a <= b THEN a ELSE b
<1>1. \E x \in {a, b} : \A y \in {a, b} : x <= y
  OBVIOUS
<1>2. Min({a, b}) \in {a, b} /\ \A y \in {a, b} : Min({a, b}) <= y
  BY <1>1 DEF Min
<1> QED
  BY <1>2

\* The maximum of two numbers.
LEMMA MaxPair ==
  ASSUME NEW a \in Int, NEW b \in Int
  PROVE  Max({a, b}) = IF a >= b THEN a ELSE b
<1>1. \E x \in {a, b} : \A y \in {a, b} : x >= y
  OBVIOUS
<1>2. Max({a, b}) \in {a, b} /\ \A y \in {a, b} : Max({a, b}) >= y
  BY <1>1 DEF Max
<1> QED
  BY <1>2

\* Bounded sets of numbers are finite.
LEMMA BoundedFinite ==
  ASSUME NEW n \in Nat, NEW S \in SUBSET (0..n)
  PROVE  IsFiniteSet(S) /\ Cardinality(S) \in Nat
<1>1. 0 \in Int /\ n \in Int
  OBVIOUS
<1>2. IsFiniteSet(0..n)
  BY <1>1, FS_Interval, Zenon
<1>3. IsFiniteSet(S)
  BY <1>2, FS_Subset
<1> QED
  BY <1>3, FS_CardinalityType

\* The samples in the queue are its entries without None.
LEMMA QueuedEntries ==
  ASSUME queue \in Seq(Nat)
  PROVE  Queued = Entries \ {EndMarker} /\ DOMAIN queue = 1..Len(queue) /\ Len(queue) \in Nat
         /\ Entries \subseteq Nat
BY DEF Queued, Entries

\* put_sample adds one entry at the end; a full queue moves up.
LEMMA PutEffect ==
  ASSUME MqTypeOK, NEW x \in Nat, PutSample(x)
  PROVE  /\ queue' \in Seq(Nat) /\ Len(queue') <= MaxQueueSize
         /\ \/ /\ Len(queue) < MaxQueueSize /\ Len(queue') = Len(queue) + 1
               /\ \A i \in 1..Len(queue) : queue'[i] = queue[i]
               /\ queue'[Len(queue')] = x /\ dropped' = dropped
            \/ /\ Len(queue) = MaxQueueSize /\ Len(queue') = Len(queue)
               /\ \A i \in 1..(Len(queue) - 1) : queue'[i] = queue[i + 1]
               /\ queue'[Len(queue')] = x /\ dropped' = dropped \cup {queue[1]}
<1>1. /\ queue \in Seq(Nat) /\ Len(queue) \in Nat /\ Len(queue) <= MaxQueueSize
      /\ MaxQueueSize \in Nat \ {0}
  BY QueueAssumption DEF MqTypeOK
<1>2. CASE Len(queue) < MaxQueueSize
  <2>1. queue' = Append(queue, x) /\ dropped' = dropped
    BY <1>1, <1>2 DEF PutSample
  <2>2. /\ Append(queue, x) \in Seq(Nat) /\ Len(Append(queue, x)) = Len(queue) + 1
        /\ \A i \in 1..Len(queue) : Append(queue, x)[i] = queue[i]
        /\ Append(queue, x)[Len(queue) + 1] = x
    BY <1>1, AppendProperties
  <2> QED
    BY <1>1, <1>2, <2>1, <2>2
<1>3. CASE Len(queue) = MaxQueueSize
  <2>1. queue' = Append(Tail(queue), x) /\ dropped' = dropped \cup {Head(queue)}
    BY <1>1, <1>3 DEF PutSample
  <2>2. queue # <<>>
    BY <1>1, <1>3
  <2>3. /\ Head(queue) = queue[1] /\ Tail(queue) \in Seq(Nat) /\ Len(Tail(queue)) = Len(queue) - 1
        /\ \A i \in 1..(Len(queue) - 1) : Tail(queue)[i] = queue[i + 1]
    BY <1>1, <2>2, HeadTailProperties
  <2> DEFINE q == Tail(queue)
  <2>4. /\ Append(q, x) \in Seq(Nat) /\ Len(Append(q, x)) = Len(q) + 1
        /\ \A i \in 1..Len(q) : Append(q, x)[i] = q[i]
        /\ Append(q, x)[Len(q) + 1] = x
    BY <2>3, AppendProperties
  <2> HIDE DEF q
  <2>5. /\ Append(q, x) \in Seq(Nat) /\ Len(Append(q, x)) = Len(queue)
        /\ \A i \in 1..(Len(queue) - 1) : Append(q, x)[i] = queue[i + 1]
        /\ Append(q, x)[Len(queue)] = x
    BY <1>1, <2>3, <2>4 DEF q
  <2> QED
    BY <1>1, <1>3, <2>1, <2>3, <2>5 DEF q
<1> QED
  BY <1>1, <1>2, <1>3

\* get_sample takes the first entry.
LEMMA GetEffect ==
  ASSUME MqTypeOK, GetSample
  PROVE  /\ queue' \in Seq(Nat) /\ Len(queue) \in Nat /\ Len(queue) > 0
         /\ Len(queue') = Len(queue) - 1 /\ Head(queue) = queue[1] /\ queue[1] \in Nat
         /\ \A i \in 1..Len(queue') : queue'[i] = queue[i + 1]
         /\ dropped' = dropped
<1>1. queue \in Seq(Nat) /\ queue # <<>> /\ queue' = Tail(queue) /\ dropped' = dropped
  BY DEF GetSample, MqTypeOK
<1> QED
  BY <1>1, HeadTailProperties

\* What is in the queue after a put.
LEMMA PutEntries ==
  ASSUME MqTypeOK, NEW x \in Nat, PutSample(x), AllDifferent, x \notin Entries
  PROVE  /\ AllDifferent'
         /\ \/ Entries' = Entries \cup {x} /\ dropped' = dropped
            \/ /\ Entries' = (Entries \ {queue[1]}) \cup {x} /\ dropped' = dropped \cup {queue[1]}
               /\ Len(queue) = MaxQueueSize /\ queue[1] \in Entries
<1>1. queue \in Seq(Nat) /\ Len(queue) \in Nat /\ queue' \in Seq(Nat) /\ Len(queue') \in Nat
      /\ MaxQueueSize \in Nat \ {0}
  BY PutEffect, QueueAssumption DEF MqTypeOK
<1>2. CASE /\ Len(queue') = Len(queue) + 1 /\ dropped' = dropped
           /\ \A i \in 1..Len(queue) : queue'[i] = queue[i]
           /\ queue'[Len(queue')] = x
  <2>0. /\ \A i \in 1..Len(queue) : i \in 1..Len(queue') /\ queue[i] # x
        /\ \A i \in 1..Len(queue') : i \in 1..Len(queue) \/ i = Len(queue')
        /\ Len(queue') \in 1..Len(queue')
    BY <1>1, <1>2 DEF Entries
  <2>1. AllDifferent'
    <3>1. ASSUME NEW i \in 1..Len(queue'), NEW j \in 1..Len(queue'), queue'[i] = queue'[j]
          PROVE  i = j
      BY <1>2, <2>0, <3>1, Zenon DEF AllDifferent
    <3> QED
      BY <3>1 DEF AllDifferent
  <2>2. Entries' = Entries \cup {x}
    <3>1. ASSUME NEW e \in Entries' PROVE e \in Entries \cup {x}
      BY <1>2, <2>0, Zenon DEF Entries
    <3>2. ASSUME NEW e \in Entries \cup {x} PROVE e \in Entries'
      <4>1. CASE e = x
        BY <1>2, <2>0, <4>1 DEF Entries
      <4>2. CASE e \in Entries
        BY <1>2, <2>0, <4>2, Zenon DEF Entries
      <4> QED
        BY <4>1, <4>2
    <3> QED
      BY <3>1, <3>2
  <2> QED
    BY <1>2, <2>1, <2>2
<1>3. CASE /\ Len(queue) = MaxQueueSize /\ Len(queue') = Len(queue)
           /\ \A i \in 1..(Len(queue) - 1) : queue'[i] = queue[i + 1]
           /\ queue'[Len(queue')] = x /\ dropped' = dropped \cup {queue[1]}
  <2>1. AllDifferent'
    <3> SUFFICES ASSUME NEW i \in 1..Len(queue), NEW j \in 1..Len(queue), i < j,
                        queue'[i] = queue'[j]
                 PROVE  FALSE
      BY <1>1, <1>3 DEF AllDifferent
    <3>1. i \in 1..(Len(queue) - 1) /\ i + 1 \in 1..Len(queue) /\ queue'[i] = queue[i + 1]
      BY <1>1, <1>3
    <3>2. CASE j = Len(queue)
      BY <1>3, <3>1, <3>2 DEF Entries
    <3>3. CASE j # Len(queue)
      <4>1. j \in 1..(Len(queue) - 1) /\ j + 1 \in 1..Len(queue) /\ queue'[j] = queue[j + 1]
        BY <1>1, <1>3, <3>3
      <4>2. i + 1 # j + 1
        BY <1>1
      <4> QED
        BY <3>1, <4>1, <4>2 DEF AllDifferent
    <3> QED
      BY <3>2, <3>3
  <2>2. 1 \in 1..Len(queue)
    BY <1>1, <1>3
  <2>3. ASSUME NEW e \in Entries' PROVE e \in (Entries \ {queue[1]}) \cup {x}
    <3> PICK i \in 1..Len(queue) : e = queue'[i]
      BY <1>3 DEF Entries
    <3>1. CASE i = Len(queue)
      BY <1>3, <3>1
    <3>2. CASE i # Len(queue)
      <4>1. i \in 1..(Len(queue) - 1) /\ i + 1 \in 1..Len(queue) /\ i + 1 # 1
        BY <1>1, <3>2
      <4> QED
        BY <1>3, <2>2, <4>1 DEF Entries, AllDifferent
    <3> QED
      BY <3>1, <3>2
  <2>4. ASSUME NEW e \in (Entries \ {queue[1]}) \cup {x} PROVE e \in Entries'
    <3>1. CASE e = x
      BY <1>1, <1>3, <2>2, <3>1 DEF Entries
    <3>2. CASE e \in Entries /\ e # queue[1]
      <4> PICK i \in 1..Len(queue) : e = queue[i]
        BY <3>2 DEF Entries
      <4>1. i # 1
        BY <3>2
      <4>2. i - 1 \in 1..(Len(queue) - 1) /\ i - 1 \in 1..Len(queue')
        BY <1>1, <1>3, <4>1
      <4>3. queue'[i - 1] = queue[(i - 1) + 1] /\ (i - 1) + 1 = i
        BY <1>1, <1>3, <4>2
      <4> QED
        BY <4>2, <4>3 DEF Entries
    <3> QED
      BY <3>1, <3>2
  <2> QED
    BY <1>3, <2>1, <2>2, <2>3, <2>4 DEF Entries
<1> QED
  BY <1>2, <1>3, PutEffect

\* What is in the queue after a get.
LEMMA GetEntries ==
  ASSUME MqTypeOK, GetSample, AllDifferent
  PROVE  /\ AllDifferent' /\ queue[1] \in Entries /\ Head(queue) = queue[1]
         /\ Entries' = Entries \ {queue[1]}
<1>1. /\ queue' \in Seq(Nat) /\ Len(queue) \in Nat /\ Len(queue) > 0
      /\ Len(queue') = Len(queue) - 1 /\ Head(queue) = queue[1]
      /\ \A i \in 1..Len(queue') : queue'[i] = queue[i + 1]
  BY GetEffect
<1>2. 1 \in 1..Len(queue) /\ \A i \in 1..Len(queue') : i + 1 \in 1..Len(queue) /\ i + 1 # 1
  BY <1>1
<1>3. AllDifferent'
  <2>1. ASSUME NEW i \in 1..Len(queue'), NEW j \in 1..Len(queue'), queue'[i] = queue'[j]
        PROVE  i = j
    <3>1. i + 1 = j + 1
      BY <1>1, <1>2, <2>1 DEF AllDifferent
    <3> QED
      BY <3>1
  <2> QED
    BY <2>1 DEF AllDifferent
<1>4. ASSUME NEW e \in Entries' PROVE e \in Entries \ {queue[1]}
  BY <1>1, <1>2 DEF Entries, AllDifferent
<1>5. ASSUME NEW e \in Entries \ {queue[1]} PROVE e \in Entries'
  <2> PICK i \in 1..Len(queue) : e = queue[i]
    BY DEF Entries
  <2>1. i - 1 \in 1..Len(queue') /\ queue'[i - 1] = queue[(i - 1) + 1] /\ (i - 1) + 1 = i
    BY <1>1, <1>5
  <2> QED
    BY <2>1 DEF Entries
<1> QED
  BY <1>1, <1>2, <1>3, <1>4, <1>5 DEF Entries

-----------------------------------------------------------------------------
(* Types and places. *)

\* max_concurrent_samples is at most max_required_samples, and not 0.
LEMMA SlotsNumber == MaxConcurrent \in 1..MaxQueueSize /\ MaxConcurrent \in Nat
<1>1. MaxQueueSize \in Nat \ {0} /\ ReplicaSlots \in Nat \ {0}
  BY FullyAsyncAssumption, QueueAssumption
<1>2. MaxConcurrent = IF ReplicaSlots <= MaxQueueSize THEN ReplicaSlots ELSE MaxQueueSize
  BY <1>1, MinPair DEF MaxConcurrent
<1> QED
  BY <1>1, <1>2

\* The counters and the sizes are numbers, and nothing is taken before it is fed.
LEMMA Numbers ==
  ASSUME TypeOK
  PROVE  /\ taken \in Nat /\ last \in Nat /\ fed \in Nat /\ base \in Nat /\ taken <= fed /\ fed <= last + 1
         /\ Reached \in Nat /\ Reached <= taken /\ Reached <= last
         /\ MaxQueueSize \in Nat \ {0} /\ MaxConcurrent \in 1..MaxQueueSize
         /\ RequiredSamples \in Nat \ {0} /\ SyncSteps \in Nat \ {0} /\ FeedCap \in Nat \ {0}
         /\ queue \in Seq(Nat) /\ Len(queue) \in Nat
BY SlotsNumber, FullyAsyncAssumption, QueueAssumption DEF TypeOK, MqTypeOK, Reached

\* The dataloader has yielded at least what the processor took.
LEMMA YieldedBounds ==
  ASSUME TypeOK, base <= last
  PROVE  Yielded \in 0..last /\ Reached <= Yielded
<1>1. /\ fed \in Int /\ last \in Int /\ fed + 1 \in Int
  BY Numbers
<1>2. Min({fed + 1, last}) = IF fed + 1 <= last THEN fed + 1 ELSE last
  BY <1>1, MinPair
<1> QED
  BY <1>2, Numbers DEF Yielded, Reached

\* The feeder stops after None.
LEMMA FeedBounds ==
  ASSUME TypeOK, FeedSamples
  PROVE  fed' \in fed..(last + 1)
<1>1. /\ last + 1 \in Int /\ taken + FeedCap \in Int
  BY Numbers
<1>2. fed' = IF last + 1 <= taken + FeedCap THEN last + 1 ELSE taken + FeedCap
  BY <1>1, MinPair DEF FeedSamples
<1> QED
  BY <1>2, Numbers DEF FeedSamples

\* A restored dataloader is never past its end.
LEMMA LeftBounds ==
  ASSUME NEW p \in Nat
  PROVE  Left(p) \in Nat
<1>1. Epochs \in Nat \ {0} /\ EpochSize \in Nat \ {0}
  BY FullyAsyncAssumption
<1>2. Epochs * EpochSize \in Nat /\ Epochs * EpochSize >= EpochSize
  <2>1. (Epochs - 1) * EpochSize \in Nat
    BY <1>1
  <2> QED
    BY <1>1, <2>1
<1>3. PICK n \in Nat : n = Epochs * EpochSize
  BY <1>2
<1>4. CASE p = 0
  BY <1>3, <1>4 DEF Left
<1>5. CASE p # 0
  <2>1. (p - 1) % EpochSize \in 0..(EpochSize - 1)
    BY <1>1, <1>5
  <2>2. PICK r \in 0..(EpochSize - 1) : r = (p - 1) % EpochSize
    BY <2>1
  <2>3. Left(p) = n - (r + 1)
    BY <1>3, <1>5, <2>2 DEF Left
  <2> QED
    BY <1>1, <1>2, <1>3, <2>2, <2>3
<1> QED
  BY <1>4, <1>5

\* A restart feeds what is left to feed, if anything.
LEMMA FeedsBounds ==
  ASSUME NEW v \in Nat, NEW p \in Nat
  PROVE  FeedsAfter(v, p) \in Nat
<1>1. 1 \in Int /\ TotalRolloutSteps - v * PerVersion \in Int
  BY FullyAsyncAssumption DEF PerVersion
<1> DEFINE m == Max({1, TotalRolloutSteps - v * PerVersion})
<1>2. m \in Nat
  <2>1. m = IF 1 >= TotalRolloutSteps - v * PerVersion THEN 1 ELSE TotalRolloutSteps - v * PerVersion
    BY <1>1, MaxPair
  <2> QED
    BY <1>1, <2>1
<1>3. FeedsAfter(v, p) = Min({m, Left(p)})
  BY DEF FeedsAfter
<1> HIDE DEF m
<1>4. Left(p) \in Nat
  BY LeftBounds
<1>5. m \in Int /\ Left(p) \in Int
  BY <1>2, <1>4
<1>6. Min({m, Left(p)}) = IF m <= Left(p) THEN m ELSE Left(p)
  BY <1>5, MinPair
<1> QED
  BY <1>2, <1>3, <1>4, <1>6

\* The tasks are of samples that were taken.
LEMMA ActiveItems == ASSUME TypeOK PROVE Active \in SUBSET (0..taken)
<1>1. 1..taken \subseteq 0..taken
  BY Numbers
<1>2. running \subseteq 1..taken /\ ended \subseteq 1..taken /\ failed \subseteq 1..taken
  BY DEF TypeOK
<1> QED
  BY <1>1, <1>2 DEF Active

\* The steps of the rollouter and of the trainer that move no sample.
Control ==
  \/ FeedSamples \/ AskQueue \/ DecidePause \/ Pause \/ DrainWake \/ DrainResume \/ WaitForTask
  \/ MonitorAsk \/ MonitorDecide \/ MonitorResume \/ ResetBegin \/ ResetEnd \/ FinalSync
  \/ SaveCheckpoint \/ Done \/ UNCHANGED vars

\* The others.
LEMMA StepCases ==
  ASSUME [Next]_vars
  PROVE  \/ Control \/ TakeSample \/ SubmitSample \/ DrainReap \/ ReapInLock \/ FinishRollout
         \/ GetOneSample \/ TrainStep \/ EndOfTraining \/ CrashAndLoad
         \/ \E s \in running : FinishSample(s) \/ FailSample(s)
BY DEF Next, Processor, Monitor, Trainer, Task, Control

\* The control steps move no sample.
LEMMA ControlStep ==
  ASSUME Control
  PROVE  /\ UNCHANGED <<queue, dropped, running, ended, failed, taken, base, last, got, model, crashes, faults>>
         /\ pp' = "slot" <=> pp = "slot"
         /\ pp' \in {"crashed", "finished"} <=> pp \in {"crashed", "finished"}
         /\ pp' = "crashed" <=> pp = "crashed"
BY DEF Control, FeedSamples, AskQueue, DecidePause, Pause, DrainWake, DrainResume, WaitForTask,
   MonitorAsk, MonitorDecide, MonitorResume, ResetBegin, ResetEnd, FinalSync, SaveCheckpoint,
   Done, vars, mqVars, taskVars, feedVars, pauseVars, trainVars

\* The type of what is not a sample, under the steps that move none.
LEMMA ControlType ==
  ASSUME TypeInv, Control
  PROVE  TypeInv'
<1> USE DEF vars, mqVars, taskVars, feedVars, pauseVars, trainVars
<1>n. TypeOK /\ PlaceInv /\ BatchInv /\ LockInv
  BY DEF TypeInv
<1>c. /\ UNCHANGED <<queue, dropped, running, ended, failed, taken, base, last, got, model, crashes, faults>>
      /\ pp' = "slot" <=> pp = "slot"
  BY ControlStep
<1>1. fed' \in 0..(last + 1) /\ taken <= fed'
  <2>1. CASE FeedSamples
    BY <1>n, <2>1, FeedBounds, Numbers
  <2>2. CASE ~ FeedSamples
    <3>1. fed' = fed
      BY <2>2 DEF Control, AskQueue, DecidePause, Pause, DrainWake, DrainResume, WaitForTask,
         MonitorAsk, MonitorDecide, MonitorResume, ResetBegin, ResetEnd, FinalSync,
         SaveCheckpoint, Done
    <3> QED
      BY <1>n, <3>1, Numbers
  <2> QED
    BY <2>1, <2>2
<1>2. /\ disk' \in [version : 0..version', model : SUBSET (1..taken), fed : 0..last]
      /\ disk'.model \subseteq 1..disk'.fed
      /\ version' = version /\ lastCkpt' \in 0..version'
  <2>1. CASE SaveCheckpoint
    <3>1. /\ disk' = [version |-> version, model |-> model, fed |-> Yielded]
          /\ version' = version /\ lastCkpt' = version
      BY <2>1 DEF SaveCheckpoint
    <3>2. version \in 0..version /\ model \in SUBSET (1..taken) /\ Yielded \in 0..last
      BY <1>n, YieldedBounds DEF TypeOK, PlaceInv
    <3>3. model \subseteq 1..Yielded
      BY <1>n, YieldedBounds, Numbers DEF PlaceInv
    <3>4. disk' \in [version : 0..version, model : SUBSET (1..taken), fed : 0..last]
      BY <3>1, <3>2
    <3>5. disk'.model = model /\ disk'.fed = Yielded
      BY <3>1
    <3> QED
      BY <3>1, <3>2, <3>3, <3>4, <3>5
  <2>2. CASE ~ SaveCheckpoint
    <3>1. UNCHANGED <<disk, version, lastCkpt>>
      BY <2>2 DEF Control, FeedSamples, AskQueue, DecidePause, Pause, DrainWake, DrainResume,
         WaitForTask, MonitorAsk, MonitorDecide, MonitorResume, ResetBegin, ResetEnd, FinalSync,
         Done
    <3> QED
      BY <1>n, <3>1 DEF TypeOK, PlaceInv
  <2> QED
    BY <2>1, <2>2
<1>3. staleness' \in Nat /\ resets' \in Nat /\ doubled' \in Nat
  <2>1. CASE ResetEnd
    <3>1. /\ staleness' = Cardinality(Active) + Len(queue) /\ resets' = resets + 1
          /\ doubled' = Cardinality(ended)
      BY <2>1 DEF ResetEnd, Recount, GetQueueSize
    <3>2. Active \in SUBSET (0..taken) /\ taken \in Nat
      BY <1>n, ActiveItems, Numbers
    <3>3. Cardinality(Active) \in Nat /\ Cardinality(ended) \in Nat
      <4>1. ended \in SUBSET (0..taken)
        BY <3>2 DEF Active
      <4> QED
        BY <3>2, <4>1, BoundedFinite
    <3>4. Len(queue) \in Nat /\ resets \in Nat
      BY <1>n, Numbers DEF TypeOK
    <3> QED
      BY <3>1, <3>3, <3>4
  <2>2. CASE ~ ResetEnd
    <3>1. UNCHANGED <<staleness, resets, doubled>>
      BY <2>2 DEF Control, FeedSamples, AskQueue, DecidePause, Pause, DrainWake, DrainResume,
         WaitForTask, MonitorAsk, MonitorDecide, MonitorResume, ResetBegin, SaveCheckpoint,
         FinalSync, Done
    <3> QED
      BY <1>n, <3>1 DEF TypeOK
  <2> QED
    BY <2>1, <2>2
<1>4. /\ pp' \in PC /\ paused' \in BOOLEAN /\ lock' \in {"free", "processor", "reset"}
      /\ mon' \in {"idle", "room", "resuming"} /\ tp' \in TP /\ stopping' \in BOOLEAN
      /\ local' \in 1..SyncSteps
      /\ reaping' \subseteq ended \cup failed
  <2>0. /\ pp \in PC /\ paused \in BOOLEAN /\ lock \in {"free", "processor", "reset"}
        /\ mon \in {"idle", "room", "resuming"} /\ tp \in TP /\ stopping \in BOOLEAN
        /\ local \in 1..SyncSteps /\ reaping \subseteq ended \cup failed
    BY <1>n DEF TypeOK
  <2>1. pp' \in PC
    BY <2>0 DEF Control, FeedSamples, AskQueue, DecidePause, Pause, DrainWake, DrainResume,
       WaitForTask, MonitorAsk, MonitorDecide, MonitorResume, ResetBegin, ResetEnd, FinalSync,
       SaveCheckpoint, Done, PC
  <2>2. paused' \in {paused, TRUE, FALSE} /\ stopping' = stopping /\ local' = local
    BY DEF Control, FeedSamples, AskQueue, DecidePause, Pause, DrainWake, DrainResume,
       WaitForTask, MonitorAsk, MonitorDecide, MonitorResume, ResetBegin, ResetEnd, FinalSync,
       SaveCheckpoint, Done
  <2>3. lock' \in {"free", "processor", "reset"} /\ mon' \in {"idle", "room", "resuming"}
    BY <2>0 DEF Control, FeedSamples, AskQueue, DecidePause, Pause, DrainWake, DrainResume,
       WaitForTask, MonitorAsk, MonitorDecide, MonitorResume, ResetBegin, ResetEnd, FinalSync,
       SaveCheckpoint, Done
  <2>4. tp' \in TP
    BY <2>0 DEF Control, FeedSamples, AskQueue, DecidePause, Pause, DrainWake, DrainResume,
       WaitForTask, MonitorAsk, MonitorDecide, MonitorResume, ResetBegin, ResetEnd, FinalSync,
       SaveCheckpoint, Done, TP
  <2>5. reaping' \subseteq ended \cup failed
    BY <2>0 DEF Control, FeedSamples, AskQueue, DecidePause, Pause, DrainWake, DrainResume,
       WaitForTask, MonitorAsk, MonitorDecide, MonitorResume, ResetBegin, ResetEnd, FinalSync,
       SaveCheckpoint, Done
  <2> QED
    BY <2>0, <2>1, <2>2, <2>3, <2>4, <2>5
<1>5. BatchInv'
  <2>1. tp' = tp \/ (tp \notin {"get", "train"} /\ tp' # "train")
    BY DEF Control, FeedSamples, AskQueue, DecidePause, Pause, DrainWake, DrainResume,
       WaitForTask, MonitorAsk, MonitorDecide, MonitorResume, ResetBegin, ResetEnd, FinalSync,
       SaveCheckpoint, Done
  <2>2. got = {} => Cardinality(got) < RequiredSamples
    BY <1>n, FS_EmptySet, Numbers
  <2> QED
    BY <1>n, <1>c, <2>1, <2>2 DEF BatchInv
<1>6. LockInv'
  <2>1. CASE WaitForTask
    <3>1. lock' = "processor" /\ pp \in {"slot", "end"} /\ pp' = pp /\ reaping' = reaping
          /\ (Active = {} => SlotsBusy)
      BY <2>1 DEF WaitForTask
    <3>2. Active # {}
      <4>1. Active = {} => Cardinality(Active) = 0
        BY FS_EmptySet
      <4>2. Active = {} => ~ SlotsBusy
        BY <1>n, <4>1, Numbers DEF SlotsBusy
      <4> QED
        BY <3>1, <4>2
    <3> QED
      BY <1>n, <1>c, <3>1, <3>2 DEF LockInv, Active
  <2>2. CASE ~ WaitForTask
    <3>1. /\ lock' = "processor" => lock = "processor" /\ (pp' = pp \/ pp \notin {"slot", "end"})
          /\ reaping' # {} => pp' = "reap" \/ (reaping' = reaping /\ (pp' = pp \/ pp # "reap"))
      BY <2>2 DEF Control, FeedSamples, AskQueue, DecidePause, Pause, DrainWake, DrainResume,
         MonitorAsk, MonitorDecide, MonitorResume, ResetBegin, ResetEnd, FinalSync,
         SaveCheckpoint, Done
    <3> QED
      BY <1>n, <1>c, <3>1 DEF LockInv, Active
  <2> QED
    BY <2>1, <2>2
<1>7. PlaceInv'
  <2>1. Reached' = Reached /\ Queued' = Queued
    BY <1>c DEF Reached, Queued
  <2> QED
    BY <1>n, <1>c, <1>2, <2>1 DEF PlaceInv
<1>8. TypeOK'
  <2>1. MqTypeOK'
    BY <1>n, <1>c DEF TypeOK, MqTypeOK
  <2>2. /\ running \subseteq 1..taken /\ ended \subseteq 1..taken /\ failed \subseteq 1..taken
        /\ got \subseteq 1..taken /\ Cardinality(got) <= RequiredSamples /\ model \subseteq 1..taken
        /\ base \in Nat /\ last \in Nat /\ version \in Nat /\ taken \in Nat
        /\ faults \in 0..MaxFaults /\ crashes \in 0..MaxCrashes
    BY <1>n, Numbers DEF TypeOK
  <2>3. taken \in 0..fed'
    BY <1>1, <2>2
  <2> QED
    BY <1>c, <1>1, <1>2, <1>3, <1>4, <2>1, <2>2, <2>3 DEF TypeOK
<1> QED
  BY <1>5, <1>6, <1>7, <1>8 DEF TypeInv

-----------------------------------------------------------------------------
(* The steps that move a sample. *)

\* The processor takes the next sample, or None.
LEMMA TakeKeeps == ASSUME SampleInv, TakeSample PROVE SampleInv'
<1> USE DEF mqVars, taskVars, feedVars, pauseVars, trainVars
<1>n. TypeOK /\ PlaceInv /\ BatchInv /\ LockInv /\ DistinctInv /\ EndInv
  BY DEF SampleInv, TypeInv
<1>1. /\ pp = "take" /\ taken < fed /\ taken' = taken + 1 /\ staleness' = staleness + 1
      /\ pp' = (IF taken' > last THEN "end" ELSE "slot")
      /\ UNCHANGED <<queue, dropped, running, ended, failed, faults, base, last, fed, paused, lock,
                     reaping, mon, tp, got, local, version, stopping, lastCkpt, model, disk,
                     resets, doubled, crashes>>
  BY DEF TakeSample
<1>2. Queued' = Queued /\ Entries' = Entries /\ AllDifferent' = AllDifferent
  BY <1>1 DEF Queued, Entries, AllDifferent
<1>3. Reached' \in Nat /\ Reached <= Reached' /\ (pp' = "slot" => taken' \in 1..last /\ Reached < taken')
  BY <1>1, <1>n, Numbers DEF Reached
<1>4. 1..Reached \subseteq 1..Reached' /\ 0..Reached \subseteq 0..Reached' /\ 1..taken \subseteq 1..taken'
  BY <1>1, <1>n, <1>3, Numbers
<1>5. TypeOK'
  <2>1. /\ taken' \in 0..fed /\ staleness' \in Nat /\ pp' \in PC
    BY <1>1, <1>n, Numbers DEF TypeOK, PC
  <2>2. disk' \in [version : 0..version, model : SUBSET (1..taken'), fed : 0..last]
    BY <1>1, <1>n, <1>4 DEF TypeOK
  <2> QED
    BY <1>1, <1>n, <1>4, <2>1, <2>2 DEF TypeOK, MqTypeOK
<1>6. PlaceInv'
  BY <1>1, <1>2, <1>3, <1>4, <1>n DEF PlaceInv
<1>7. BatchInv' /\ LockInv'
  BY <1>1, <1>n DEF BatchInv, LockInv, Active
<1>8. DistinctInv'
  <2>1. pp' = "slot" => taken' \notin 1..Reached
    BY <1>3, <1>n, Numbers
  <2> QED
    BY <1>1, <1>2, <1>n, <2>1 DEF DistinctInv, PlaceInv
<1>9. EndInv'
  BY <1>1, <1>2, <1>n DEF EndInv
<1> QED
  BY <1>5, <1>6, <1>7, <1>8, <1>9 DEF SampleInv, TypeInv

\* The processor starts the task of the sample in its hand.
LEMMA SubmitKeeps == ASSUME SampleInv, SubmitSample PROVE SampleInv'
<1> USE DEF mqVars, taskVars, feedVars, pauseVars, trainVars
<1>n. TypeOK /\ PlaceInv /\ BatchInv /\ LockInv /\ DistinctInv /\ EndInv
  BY DEF SampleInv, TypeInv
<1>1. /\ pp = "slot" /\ running' = running \cup {taken} /\ pp' = "ask" /\ lock = "free"
      /\ UNCHANGED <<queue, dropped, ended, failed, faults, base, last, fed, taken, staleness,
                     paused, lock, reaping, mon, tp, got, local, version, stopping, lastCkpt,
                     model, disk, resets, doubled, crashes>>
  BY DEF SubmitSample
<1>2. Queued' = Queued /\ Entries' = Entries /\ AllDifferent' = AllDifferent /\ Reached' = Reached
  BY <1>1 DEF Queued, Entries, AllDifferent, Reached
<1>3. taken \in 1..Reached /\ taken \in 1..taken
  BY <1>1, <1>n, Numbers DEF PlaceInv, Reached
<1>5. TypeOK'
  BY <1>1, <1>3, <1>n DEF TypeOK, MqTypeOK, PC
<1>6. PlaceInv'
  BY <1>1, <1>2, <1>3, <1>n DEF PlaceInv
<1>7. BatchInv' /\ LockInv'
  BY <1>1, <1>n DEF BatchInv, LockInv
<1>8. DistinctInv'
  BY <1>1, <1>2, <1>n DEF DistinctInv
<1>9. EndInv'
  BY <1>1, <1>2, <1>n DEF EndInv
<1> QED
  BY <1>5, <1>6, <1>7, <1>8, <1>9 DEF SampleInv, TypeInv

\* Tasks that are done are removed.
LEMMA ReapKeeps == ASSUME SampleInv, DrainReap \/ ReapInLock PROVE SampleInv'
<1> USE DEF mqVars, taskVars, feedVars, pauseVars, trainVars
<1>n. TypeOK /\ PlaceInv /\ BatchInv /\ LockInv /\ DistinctInv /\ EndInv
  BY DEF SampleInv, TypeInv
<1>1. /\ ended' \subseteq ended /\ failed' \subseteq failed
      /\ UNCHANGED <<queue, dropped, running, faults, base, last, fed, taken, staleness,
                     paused, mon, tp, got, local, version, stopping, lastCkpt, model, disk,
                     resets, doubled, crashes>>
  BY DEF DrainReap, ReapInLock
<1>2. /\ pp' \in PC /\ (pp' = "slot" => pp = "slot") /\ pp # "finished"
      /\ lock' = "free" /\ reaping' = {}
  BY <1>n DEF DrainReap, ReapInLock, LockInv, TypeOK, PC
<1>3. Queued' = Queued /\ Entries' = Entries /\ AllDifferent' = AllDifferent /\ Reached' = Reached
  BY <1>1 DEF Queued, Entries, AllDifferent, Reached
<1>5. TypeOK'
  BY <1>1, <1>2, <1>n DEF TypeOK, MqTypeOK
<1>6. PlaceInv'
  BY <1>1, <1>2, <1>3, <1>n DEF PlaceInv
<1>7. BatchInv' /\ LockInv'
  BY <1>1, <1>2, <1>n DEF BatchInv, LockInv
<1>8. DistinctInv'
  BY <1>1, <1>2, <1>3, <1>n DEF DistinctInv
<1>9. EndInv'
  BY <1>1, <1>2, <1>3, <1>n DEF EndInv
<1> QED
  BY <1>5, <1>6, <1>7, <1>8, <1>9 DEF SampleInv, TypeInv

\* A task raises.
LEMMA FailKeeps == ASSUME SampleInv, NEW s \in running, FailSample(s) PROVE SampleInv'
<1> USE DEF mqVars, taskVars, feedVars, pauseVars, trainVars
<1>n. TypeOK /\ PlaceInv /\ BatchInv /\ LockInv /\ DistinctInv /\ EndInv
  BY DEF SampleInv, TypeInv
<1>1. /\ running' = running \ {s} /\ failed' = failed \cup {s} /\ faults' = faults + 1
      /\ faults < MaxFaults
      /\ UNCHANGED <<queue, dropped, ended, base, last, fed, taken, staleness, paused, lock, pp,
                     reaping, mon, tp, got, local, version, stopping, lastCkpt, model, disk,
                     resets, doubled, crashes>>
  BY DEF FailSample
<1>2. Active' = Active
  BY <1>1 DEF Active
<1>3. Queued' = Queued /\ Entries' = Entries /\ AllDifferent' = AllDifferent /\ Reached' = Reached
  BY <1>1 DEF Queued, Entries, AllDifferent, Reached
<1>4. faults' \in 0..MaxFaults
  BY <1>1, <1>n, FullyAsyncAssumption DEF TypeOK
<1>5. TypeOK'
  BY <1>1, <1>4, <1>n DEF TypeOK, MqTypeOK
<1>6. PlaceInv'
  BY <1>1, <1>3, <1>n DEF PlaceInv
<1>7. BatchInv' /\ LockInv'
  BY <1>1, <1>2, <1>n DEF BatchInv, LockInv
<1>8. DistinctInv'
  BY <1>1, <1>3, <1>n DEF DistinctInv
<1>9. EndInv'
  BY <1>1, <1>3, <1>n DEF EndInv
<1> QED
  BY <1>5, <1>6, <1>7, <1>8, <1>9 DEF SampleInv, TypeInv

\* After a put, a sample is in the queue or was dropped from it.
LEMMA PutPlaces ==
  ASSUME TypeOK, PlaceInv, NEW x \in 0..Reached, PutSample(x), AllDifferent, x \notin Entries,
         Reached' = Reached
  PROVE  /\ MqTypeOK' /\ AllDifferent' /\ Queued' \subseteq 1..Reached /\ dropped' \subseteq 0..Reached
         /\ Entries' \subseteq Entries \cup {x} /\ Queued' \subseteq Queued \cup ({x} \ {EndMarker})
         /\ dropped \subseteq dropped' /\ Queued \cup ({x} \ {EndMarker}) \subseteq Queued' \cup dropped'
<1>1. MqTypeOK /\ x \in Nat /\ Reached \in Nat
  BY Numbers DEF TypeOK
<1>2. queue \in Seq(Nat) /\ queue' \in Seq(Nat) /\ Len(queue') <= MaxQueueSize
  BY <1>1, PutEffect DEF MqTypeOK
<1>3. Queued = Entries \ {EndMarker} /\ Entries \subseteq Nat
  BY <1>2, QueuedEntries
<1>4. Queued' = Entries' \ {EndMarker}
  BY <1>2 DEF Queued, Entries
<1>5. /\ AllDifferent'
      /\ \/ Entries' = Entries \cup {x} /\ dropped' = dropped
         \/ /\ Entries' = (Entries \ {queue[1]}) \cup {x} /\ dropped' = dropped \cup {queue[1]}
            /\ queue[1] \in Entries
  BY <1>1, PutEntries
<1>6. Entries \subseteq 0..Reached /\ EndMarker = 0
  <2>1. Queued \subseteq 1..Reached /\ 1..Reached \subseteq 0..Reached /\ 0 \in 0..Reached
    BY <1>1 DEF PlaceInv
  <2> QED
    BY <1>3, <2>1 DEF EndMarker
<1>7. Entries' \subseteq 0..Reached /\ dropped' \subseteq 0..Reached
  BY <1>5, <1>6 DEF PlaceInv
<1>8. Queued' \subseteq 1..Reached
  <2>1. (0..Reached) \ {0} \subseteq 1..Reached
    BY <1>1
  <2> QED
    BY <1>4, <1>6, <1>7, <2>1
<1>9. MqTypeOK'
  <2>1. dropped' \subseteq Nat
    BY <1>1, <1>7
  <2> QED
    BY <1>2, <2>1 DEF MqTypeOK
<1> QED
  BY <1>3, <1>4, <1>5, <1>7, <1>8, <1>9

\* A task puts its sample.
LEMMA FinishKeeps == ASSUME SampleInv, NEW s \in running, FinishSample(s) PROVE SampleInv'
<1> USE DEF taskVars, feedVars, pauseVars, trainVars
<1>n. TypeOK /\ PlaceInv /\ BatchInv /\ LockInv /\ DistinctInv /\ EndInv
  BY DEF SampleInv, TypeInv
<1>1. /\ PutSample(s) /\ running' = running \ {s} /\ ended' = ended \cup {s}
      /\ UNCHANGED <<failed, faults, base, last, fed, taken, staleness, paused, lock, pp,
                     reaping, mon, tp, got, local, version, stopping, lastCkpt, model, disk,
                     resets, doubled, crashes>>
  BY DEF FinishSample
<1>2. Active' = Active /\ Reached' = Reached
  BY <1>1 DEF Active, Reached
<1>3. s \in 1..Reached /\ s \in 0..Reached /\ s \in 1..taken /\ s # EndMarker
  BY <1>n, Numbers DEF PlaceInv, TypeOK, EndMarker
<1>4. s \notin Entries /\ AllDifferent
  <2>1. Queued = Entries \ {EndMarker}
    BY <1>n, Numbers, QueuedEntries
  <2> QED
    BY <1>n, <1>3, <2>1 DEF DistinctInv
<1>5. /\ MqTypeOK' /\ AllDifferent' /\ Queued' \subseteq 1..Reached /\ dropped' \subseteq 0..Reached
      /\ Entries' \subseteq Entries \cup {s} /\ Queued' \subseteq Queued \cup {s}
  BY <1>n, <1>1, <1>2, <1>3, <1>4, PutPlaces, Zenon
<1>6. TypeOK'
  BY <1>1, <1>3, <1>5, <1>n DEF TypeOK
<1>7. PlaceInv'
  BY <1>1, <1>2, <1>3, <1>5, <1>n DEF PlaceInv
<1>8. BatchInv' /\ LockInv'
  BY <1>1, <1>2, <1>n DEF BatchInv, LockInv
<1>9. DistinctInv'
  BY <1>1, <1>5, <1>n DEF DistinctInv
<1>10. EndInv'
  BY <1>1, <1>3, <1>5, <1>n DEF EndInv
<1> QED
  BY <1>6, <1>7, <1>8, <1>9, <1>10 DEF SampleInv, TypeInv

\* The rollouter puts None.
LEMMA NoneKeeps == ASSUME SampleInv, FinishRollout PROVE SampleInv'
<1> USE DEF taskVars, feedVars, pauseVars, trainVars
<1>n. TypeOK /\ PlaceInv /\ BatchInv /\ LockInv /\ DistinctInv /\ EndInv
  BY DEF SampleInv, TypeInv
<1>1. /\ PutSample(EndMarker) /\ pp' = "finished" /\ pp \in {"end", "crashed"}
      /\ (pp = "end" => Active = {})
      /\ UNCHANGED <<running, ended, failed, faults, base, last, fed, taken, staleness, paused,
                     lock, reaping, mon, tp, got, local, version, stopping, lastCkpt, model,
                     disk, resets, doubled, crashes>>
  BY DEF FinishRollout
<1>2. Reached' = Reached /\ Active' = Active
  BY <1>1 DEF Active, Reached
<1>3. EndMarker \in 0..Reached /\ EndMarker \notin Entries /\ AllDifferent
  BY <1>n, <1>1, Numbers DEF EndMarker, EndInv, DistinctInv
<1>5. /\ MqTypeOK' /\ AllDifferent' /\ Queued' \subseteq 1..Reached /\ dropped' \subseteq 0..Reached
      /\ Queued' \subseteq Queued
  <2>1. /\ MqTypeOK' /\ AllDifferent' /\ Queued' \subseteq 1..Reached /\ dropped' \subseteq 0..Reached
        /\ Queued' \subseteq Queued \cup ({EndMarker} \ {EndMarker})
    BY <1>n, <1>1, <1>2, <1>3, PutPlaces, Zenon
  <2> QED
    BY <2>1
<1>6. TypeOK'
  BY <1>1, <1>5, <1>n DEF TypeOK, PC
<1>7. PlaceInv'
  BY <1>1, <1>2, <1>5, <1>n DEF PlaceInv
<1>8. BatchInv' /\ LockInv'
  BY <1>1, <1>2, <1>n DEF BatchInv, LockInv
<1>9. DistinctInv'
  BY <1>1, <1>5, <1>n DEF DistinctInv
<1>10. EndInv'
  BY <1>1 DEF EndInv
<1> QED
  BY <1>6, <1>7, <1>8, <1>9, <1>10 DEF SampleInv, TypeInv

\* The trainer takes a sample, or None.
LEMMA GetKeeps == ASSUME SampleInv, GetOneSample PROVE SampleInv'
<1> USE DEF taskVars, feedVars, pauseVars
<1>n. TypeOK /\ PlaceInv /\ BatchInv /\ LockInv /\ DistinctInv /\ EndInv
  BY DEF SampleInv, TypeInv
<1>1. /\ tp = "get" /\ GetSample
      /\ IF Head(queue) = EndMarker
         THEN got' = {} /\ stopping' = TRUE /\ tp' = "final"
         ELSE /\ got' = got \cup {Head(queue)} /\ stopping' = stopping
              /\ tp' = IF Cardinality(got') = RequiredSamples THEN "train" ELSE "get"
      /\ UNCHANGED <<running, ended, failed, faults, base, last, fed, taken, staleness, paused,
                     lock, pp, reaping, mon, local, version, lastCkpt, model, disk, resets, doubled, crashes>>
  BY DEF GetOneSample
<1>2. Active' = Active /\ Reached' = Reached
  BY <1>1 DEF Active, Reached
<1>3. MqTypeOK /\ AllDifferent
  BY <1>n DEF TypeOK, DistinctInv
<1>4. /\ queue' \in Seq(Nat) /\ Len(queue') <= MaxQueueSize /\ dropped' = dropped
      /\ queue \in Seq(Nat)
  BY <1>1, <1>3, GetEffect, Numbers, <1>n DEF MqTypeOK
<1>5. /\ AllDifferent' /\ queue[1] \in Entries /\ Head(queue) = queue[1]
      /\ Entries' = Entries \ {queue[1]}
  BY <1>1, <1>3, GetEntries
<1>6. Queued = Entries \ {EndMarker} /\ Queued' = Entries' \ {EndMarker}
  BY <1>4, QueuedEntries DEF Queued, Entries
<1>7. Queued' = Queued \ {queue[1]} /\ (queue[1] # EndMarker => queue[1] \in Queued)
  BY <1>5, <1>6
<1>8. /\ got' \subseteq 1..Reached /\ got' \subseteq 1..taken
      /\ got' \subseteq got \cup (Queued \ Queued')
  <2>1. got' = {} \/ (got' = got \cup {queue[1]} /\ queue[1] \in Queued)
    BY <1>1, <1>5, <1>7
  <2>2. got \subseteq 1..Reached /\ Queued \subseteq 1..Reached /\ 1..Reached \subseteq 1..taken
    BY <1>n, Numbers DEF PlaceInv
  <2> QED
    BY <1>7, <2>1, <2>2
<1>9. tp' \in TP /\ stopping' \in BOOLEAN /\ Cardinality(got') <= RequiredSamples /\ BatchInv'
  <2>1. CASE Head(queue) = EndMarker
    <3>1. got' = {} /\ stopping' = TRUE /\ tp' = "final"
      BY <1>1, <2>1
    <3>2. Cardinality(got') = 0
      BY <3>1, FS_EmptySet
    <3> QED
      BY <1>n, <3>1, <3>2, Numbers DEF TP, BatchInv
  <2>2. CASE Head(queue) # EndMarker
    <3>1. /\ got' = got \cup {Head(queue)} /\ stopping' = stopping
          /\ tp' = (IF Cardinality(got') = RequiredSamples THEN "train" ELSE "get")
      BY <1>1, <2>2
    <3>2. IsFiniteSet(got) /\ Cardinality(got) \in Nat
      <4>1. 1..taken \subseteq 0..taken /\ taken \in Nat
        BY <1>n, Numbers
      <4>2. got \in SUBSET (0..taken)
        BY <1>n, <4>1 DEF TypeOK
      <4> QED
        BY <4>1, <4>2, BoundedFinite
    <3>3. Head(queue) \notin got
      BY <1>5, <1>7, <1>n, <2>2 DEF DistinctInv
    <3>4. Cardinality(got') = Cardinality(got) + 1
      BY <3>1, <3>2, <3>3, FS_AddElement
    <3>5. Cardinality(got) < RequiredSamples
      BY <1>1, <1>n DEF BatchInv
    <3>6. Cardinality(got') <= RequiredSamples
      BY <1>n, <3>2, <3>4, <3>5, Numbers
    <3>7. BatchInv'
      BY <1>n, <3>1, <3>2, <3>4, <3>6, Numbers DEF BatchInv
    <3> QED
      BY <1>n, <3>1, <3>6, <3>7 DEF TP, TypeOK
  <2> QED
    BY <2>1, <2>2
<1>10. TypeOK'
  BY <1>1, <1>4, <1>8, <1>9, <1>n DEF TypeOK, MqTypeOK
<1>11. PlaceInv'
  BY <1>1, <1>2, <1>4, <1>7, <1>8, <1>n DEF PlaceInv
<1>12. LockInv'
  BY <1>1, <1>2, <1>n DEF LockInv
<1>13. DistinctInv'
  BY <1>1, <1>5, <1>7, <1>8, <1>n DEF DistinctInv
<1>14. EndInv'
  BY <1>1, <1>5, <1>n DEF EndInv
<1> QED
  BY <1>9, <1>10, <1>11, <1>12, <1>13, <1>14 DEF SampleInv, TypeInv

\* The batch goes into the weights.
LEMMA TrainKeeps == ASSUME SampleInv, TrainStep PROVE SampleInv'
<1> USE DEF mqVars, taskVars, feedVars, pauseVars
<1>n. TypeOK /\ PlaceInv /\ BatchInv /\ LockInv /\ DistinctInv /\ EndInv
  BY DEF SampleInv, TypeInv
<1>1. /\ tp = "train" /\ model' = model \cup got /\ got' = {}
      /\ UNCHANGED <<queue, dropped, running, ended, failed, faults, base, last, fed, taken,
                     staleness, paused, lock, pp, reaping, mon, stopping, lastCkpt, disk, resets,
                     doubled, crashes>>
  BY DEF TrainStep
<1>2. /\ version' \in Nat /\ version <= version' /\ local' \in 1..SyncSteps
      /\ tp' \in {"save", "get", "sync"}
  <2>1. version \in Nat /\ local \in 1..SyncSteps /\ SyncSteps \in Nat \ {0}
    BY <1>n, Numbers DEF TypeOK
  <2>2. \/ version' = version /\ local < SyncSteps /\ local' = local + 1
        \/ version' = version + 1 /\ local' = 1
    BY DEF TrainStep, LocalUpdate
  <2>3. tp' \in {"save", "get", "sync"}
    BY DEF TrainStep
  <2> QED
    BY <2>1, <2>2, <2>3
<1>3. Queued' = Queued /\ Entries' = Entries /\ AllDifferent' = AllDifferent /\ Reached' = Reached
      /\ Active' = Active
  BY <1>1 DEF Queued, Entries, AllDifferent, Reached, Active
<1>4. Cardinality(got') = 0
  BY <1>1, FS_EmptySet
<1>5. TypeOK'
  <2>1. disk \in [version : 0..version', model : SUBSET (1..taken), fed : 0..last]
    BY <1>n, <1>2 DEF TypeOK
  <2>2. lastCkpt \in 0..version'
    <3>1. lastCkpt \in 0..version /\ version \in Nat
      BY <1>n DEF TypeOK
    <3> QED
      BY <1>2, <3>1
  <2>3. Cardinality(got') <= RequiredSamples /\ tp' \in TP
    BY <1>n, <1>2, <1>4, Numbers DEF TP
  <2> QED
    BY <1>1, <1>2, <1>n, <2>1, <2>2, <2>3 DEF TypeOK, MqTypeOK
<1>6. PlaceInv'
  BY <1>1, <1>3, <1>n DEF PlaceInv
<1>7. BatchInv'
  BY <1>1, <1>4, <1>n, Numbers DEF BatchInv
<1>8. LockInv'
  BY <1>1, <1>3, <1>n DEF LockInv
<1>9. DistinctInv'
  BY <1>1, <1>3, <1>n DEF DistinctInv
<1>10. EndInv'
  BY <1>1, <1>3, <1>n DEF EndInv
<1> QED
  BY <1>5, <1>6, <1>7, <1>8, <1>9, <1>10 DEF SampleInv, TypeInv

\* Nothing is in an empty queue.
LEMMA EmptyQueue ==
  ASSUME queue' = <<>>
  PROVE  Entries' = {} /\ Queued' = {} /\ AllDifferent'
BY DEF Entries, Queued, AllDifferent

\* The job ends, and clears the queue.
LEMMA EndKeeps == ASSUME SampleInv, EndOfTraining PROVE SampleInv'
<1> USE DEF taskVars, feedVars, pauseVars
<1>n. TypeOK /\ PlaceInv /\ BatchInv /\ LockInv /\ DistinctInv /\ EndInv
  BY DEF SampleInv, TypeInv
<1>1. /\ queue' = <<>> /\ dropped' = dropped /\ tp = "end" /\ tp' = "done"
      /\ UNCHANGED <<running, ended, failed, faults, base, last, fed, taken, staleness, paused,
                     lock, pp, reaping, mon, got, local, version, stopping, lastCkpt, model, disk,
                     resets, doubled, crashes>>
  BY DEF EndOfTraining, ClearQueue
<1>2. Entries' = {} /\ Queued' = {} /\ AllDifferent' /\ Reached' = Reached /\ Active' = Active
  BY <1>1, EmptyQueue DEF Reached, Active
<1>3. MqTypeOK'
  BY <1>1, <1>n, QueueAssumption DEF TypeOK, MqTypeOK
<1>4. TypeOK'
  BY <1>1, <1>3, <1>n DEF TypeOK, TP
<1>5. PlaceInv' /\ BatchInv' /\ LockInv'
  BY <1>1, <1>2, <1>n DEF PlaceInv, BatchInv, LockInv
<1>6. DistinctInv' /\ EndInv'
  BY <1>1, <1>2, <1>n DEF DistinctInv, EndInv
<1> QED
  BY <1>4, <1>5, <1>6 DEF SampleInv, TypeInv

\* A restart loads weights and position of the checkpoint.
LEMMA CrashKeeps == ASSUME SampleInv, CrashAndLoad PROVE SampleInv'
<1>n. TypeOK /\ PlaceInv /\ BatchInv /\ LockInv /\ DistinctInv /\ EndInv
  BY DEF SampleInv, TypeInv
<1>1. /\ crashes < MaxCrashes /\ crashes' = crashes + 1
      /\ queue' = <<>> /\ dropped' = {} /\ running' = {} /\ ended' = {} /\ failed' = {}
      /\ base' = disk.fed /\ fed' = disk.fed /\ taken' = disk.fed
      /\ last' = disk.fed + FeedsAfter(disk.version, disk.fed)
      /\ staleness' = 0 /\ paused' = FALSE /\ lock' = "free" /\ pp' = "ask" /\ reaping' = {}
      /\ mon' = "idle" /\ tp' = "get" /\ got' = {} /\ local' = 1 /\ stopping' = FALSE
      /\ resets' = 0 /\ doubled' = 0 /\ version' = disk.version /\ lastCkpt' = disk.version
      /\ model' = disk.model /\ disk' = disk /\ faults' = faults
  BY DEF CrashAndLoad, ResumePosition
<1>2. /\ disk \in [version : 0..version, model : SUBSET (1..taken), fed : 0..last]
      /\ disk.version \in Nat /\ disk.fed \in Nat /\ disk.model \subseteq 1..disk.fed
  BY <1>n, Numbers DEF TypeOK, PlaceInv
<1>3. FeedsAfter(disk.version, disk.fed) \in Nat
  BY <1>2, FeedsBounds
<1>4. last' \in Nat /\ fed' \in 0..(last' + 1) /\ taken' \in 0..fed' /\ disk.fed \in 0..last'
      /\ disk.fed <= last' /\ taken' \in Nat
  BY <1>1, <1>2, <1>3
<1>5. Reached' = disk.fed
  BY <1>1, <1>4 DEF Reached
<1>6. Entries' = {} /\ Queued' = {} /\ AllDifferent'
  BY <1>1, EmptyQueue
<1>7. MqTypeOK'
  BY <1>1, QueueAssumption DEF MqTypeOK
<1>8. disk' \in [version : 0..version', model : SUBSET (1..taken'), fed : 0..last']
  <2>1. disk = [version |-> disk.version, model |-> disk.model, fed |-> disk.fed]
    BY <1>2
  <2>2. disk.version \in 0..version' /\ disk.model \in SUBSET (1..taken') /\ disk.fed \in 0..last'
    BY <1>1, <1>2, <1>4
  <2> QED
    BY <1>1, <2>1, <2>2
<1>9. /\ crashes' \in 0..MaxCrashes /\ faults' \in 0..MaxFaults /\ Cardinality({}) = 0
      /\ local' \in 1..SyncSteps /\ RequiredSamples \in Nat \ {0} /\ lastCkpt' \in 0..version'
  BY <1>1, <1>2, <1>n, FullyAsyncAssumption, FS_EmptySet DEF TypeOK
<1>10. TypeOK'
  <2>1. base' \in Nat /\ version' \in Nat /\ staleness' \in Nat /\ resets' \in Nat
        /\ doubled' \in Nat
    BY <1>1, <1>2
  <2>2. paused' \in BOOLEAN /\ stopping' \in BOOLEAN
    BY <1>1
  <2>3. pp' \in PC /\ tp' \in TP
    BY <1>1 DEF PC, TP
  <2>4. model' \subseteq 1..taken'
    BY <1>1, <1>2
  <2>5. Cardinality(got') <= RequiredSamples
    BY <1>1, <1>9
  <2> QED
    BY <1>1, <1>4, <1>7, <1>8, <1>9, <2>1, <2>2, <2>3, <2>4, <2>5 DEF TypeOK
<1>11. PlaceInv' /\ BatchInv' /\ LockInv'
  BY <1>1, <1>2, <1>4, <1>5, <1>6, <1>9 DEF PlaceInv, BatchInv, LockInv
<1>12. DistinctInv' /\ EndInv'
  BY <1>1, <1>6 DEF DistinctInv, EndInv
<1> QED
  BY <1>10, <1>11, <1>12 DEF SampleInv, TypeInv

\* The other steps move no sample.
LEMMA ControlKeeps == ASSUME SampleInv, Control PROVE SampleInv'
<1>n. TypeInv /\ DistinctInv /\ EndInv
  BY DEF SampleInv
<1>1. /\ UNCHANGED <<queue, dropped, running, ended, failed, taken, base, last, got, model>>
      /\ pp' = "slot" <=> pp = "slot"
  BY ControlStep
<1>2. pp = "finished" => pp' = "finished"
  BY ControlStep
<1>3. Queued' = Queued /\ Entries' = Entries /\ AllDifferent' = AllDifferent
  BY <1>1 DEF Queued, Entries, AllDifferent
<1>4. DistinctInv' /\ EndInv'
  BY <1>1, <1>2, <1>3, <1>n DEF DistinctInv, EndInv
<1> QED
  BY <1>n, <1>4, ControlType DEF SampleInv

\* Types and places at the start.
LEMMA SampleInit == Init => SampleInv
<1> SUFFICES ASSUME Init PROVE SampleInv
  OBVIOUS
<1>1. Entries = {} /\ Queued = {} /\ AllDifferent
  BY DEF Init, MqInit, Entries, Queued, AllDifferent
<1>2. Cardinality({}) = 0
  BY FS_EmptySet
<1>3. MqTypeOK
  BY QueueAssumption DEF Init, MqInit, MqTypeOK
<1>4. TypeOK
  <2>1. disk \in [version : 0..version, model : SUBSET (1..taken), fed : 0..last]
    BY FullyAsyncAssumption DEF Init
  <2>2. paused \in BOOLEAN /\ stopping \in BOOLEAN /\ pp \in PC /\ tp \in TP
    BY DEF Init, PC, TP
  <2>3. Cardinality(got) <= RequiredSamples
    BY <1>2, FullyAsyncAssumption DEF Init
  <2> QED
    BY <1>2, <1>3, <2>1, <2>2, <2>3, FullyAsyncAssumption DEF Init, TypeOK
<1>5. PlaceInv /\ BatchInv /\ LockInv
  BY <1>1, <1>2, FullyAsyncAssumption DEF Init, MqInit, PlaceInv, BatchInv, LockInv
<1>6. DistinctInv /\ EndInv
  BY <1>1 DEF Init, DistinctInv, EndInv
<1> QED
  BY <1>4, <1>5, <1>6 DEF SampleInv, TypeInv

\* Types and places after every step.
LEMMA SampleNext == SampleInv /\ [Next]_vars => SampleInv'
BY StepCases, ControlKeeps, TakeKeeps, SubmitKeeps, ReapKeeps, NoneKeeps, GetKeeps, TrainKeeps,
   EndKeeps, CrashKeeps, FinishKeeps, FailKeeps

\* The variables keep their types, and the positions in the stream of samples their
\* order, through every interleaving of processor, tasks, monitor and trainer and every
\* restart.
THEOREM TypeCorrect == Spec => []TypeOK
<1>1. SampleInv => TypeOK
  BY DEF SampleInv, TypeInv
<1> QED
  BY <1>1, SampleInit, SampleNext, PTL DEF Spec

\* No sample is trained on twice, not even after a restart from a checkpoint: a sample is
\* in one place at a time, and a checkpoint's dataloader is as far as its weights.
THEOREM SamplesTrainedOnce == Spec => []TrainedOnce
<1>1. SampleInv => TrainedOnce
  <2> SUFFICES ASSUME SampleInv PROVE TrainedOnce
    OBVIOUS
  <2>1. TypeOK /\ PlaceInv /\ DistinctInv
    BY DEF SampleInv, TypeInv
  <2>2. disk.fed \in Nat /\ disk.model \subseteq 1..disk.fed
    BY <2>1, Numbers DEF TypeOK, PlaceInv
  <2>3. \A s \in disk.model : s <= disk.fed
    BY <2>2
  <2> QED
    BY <2>1, <2>3 DEF TrainedOnce, Outstanding, InHand, DistinctInv
<1> QED
  BY <1>1, SampleInit, SampleNext, PTL DEF Spec

-----------------------------------------------------------------------------
(* Nothing is lost. *)

\* Where a sample that was taken can be.
Kept == model \cup got \cup Outstanding \cup failed \cup dropped

\* NothingLost in terms of Reached.
LEMMA LostReached ==
  ASSUME TypeOK
  PROVE  NothingLost <=> (pp \notin {"crashed", "finished"} => (base + 1)..Reached \subseteq Kept)
<1>1. taken \in Int /\ last \in Int
  BY Numbers
<1>2. Min({taken, last}) = Reached
  BY <1>1, MinPair DEF Reached
<1> QED
  BY <1>2 DEF NothingLost, Kept

\* No step takes a sample out of Kept while the processor lives.
LEMMA NothingLostNext ==
  ASSUME SampleInv, NothingLost, [Next]_vars
  PROVE  NothingLost'
<1> USE DEF mqVars, taskVars, feedVars, pauseVars, trainVars
<1>n. TypeOK /\ PlaceInv /\ BatchInv /\ LockInv /\ DistinctInv /\ EndInv
  BY DEF SampleInv, TypeInv
<1>i. pp \notin {"crashed", "finished"} => (base + 1)..Reached \subseteq Kept
  BY <1>n, LostReached
<1> SUFFICES ASSUME pp' \notin {"crashed", "finished"}
             PROVE  ((base + 1)..Reached)' \subseteq Kept'
  <2>1. TypeOK'
    BY SampleNext DEF SampleInv, TypeInv
  <2>2. (Min({taken, last}))' = Reached'
    <3>1. taken' \in Int /\ last' \in Int
      BY <2>1, Numbers DEF TypeOK
    <3>2. Min({taken', last'}) = IF taken' <= last' THEN taken' ELSE last'
      BY <3>1, MinPair
    <3> QED
      BY <3>2 DEF Reached
  <2> QED
    BY <2>2 DEF NothingLost, Kept
<1>1. CASE Control
  <2>1. /\ UNCHANGED <<queue, dropped, running, failed, taken, base, last, got, model>>
        /\ pp' = "slot" <=> pp = "slot"
        /\ pp \notin {"crashed", "finished"}
    BY <1>1, ControlStep
  <2>2. Reached' = Reached /\ Kept' = Kept
    BY <2>1 DEF Reached, Kept, Outstanding, InHand, Queued
  <2> QED
    BY <1>i, <2>1, <2>2
<1>2. CASE TakeSample
  <2>1. /\ pp = "take" /\ taken' = taken + 1 /\ pp' = (IF taken' > last THEN "end" ELSE "slot")
        /\ UNCHANGED <<queue, dropped, running, failed, base, last, got, model>>
    BY <1>2 DEF TakeSample
  <2>2. Kept \subseteq Kept' /\ (pp' = "slot" => taken' \in Kept')
    BY <2>1 DEF Kept, Outstanding, InHand, Queued
  <2>3. Reached' = Reached \/ (pp' = "slot" /\ Reached' = Reached + 1 /\ Reached' = taken')
    BY <1>n, <2>1, Numbers DEF Reached
  <2>4. (base + 1)..Reached \subseteq Kept /\ base \in Nat /\ Reached \in Nat
    BY <1>i, <1>n, <2>1, Numbers
  <2> QED
    BY <2>1, <2>2, <2>3, <2>4
<1>3. CASE SubmitSample
  <2>1. /\ pp = "slot" /\ running' = running \cup {taken} /\ pp' = "ask"
        /\ UNCHANGED <<queue, dropped, failed, taken, base, last, got, model>>
    BY <1>3 DEF SubmitSample
  <2>2. Reached' = Reached /\ Kept' = Kept
    BY <2>1 DEF Reached, Kept, Outstanding, InHand, Queued
  <2> QED
    BY <1>i, <2>1, <2>2
<1>4. CASE DrainReap \/ ReapInLock
  <2>1. /\ UNCHANGED <<queue, dropped, running, taken, base, last, got, model>>
        /\ failed' = failed /\ pp \notin {"crashed", "finished"}
        /\ pp' = "slot" <=> pp = "slot"
    BY <1>4, <1>n DEF DrainReap, ReapInLock, LockInv
  <2>2. Reached' = Reached /\ Kept' = Kept
    BY <2>1 DEF Reached, Kept, Outstanding, InHand, Queued
  <2> QED
    BY <1>i, <2>1, <2>2
<1>5. CASE FinishRollout \/ EndOfTraining
  BY <1>5 DEF FinishRollout, EndOfTraining
<1>6. CASE GetOneSample
  <2>1. /\ GetSample /\ (Head(queue) # EndMarker => got' = got \cup {Head(queue)})
        /\ UNCHANGED <<running, failed, taken, base, last, model, pp>>
    BY <1>6 DEF GetOneSample
  <2>2. MqTypeOK /\ AllDifferent
    BY <1>n DEF TypeOK, DistinctInv
  <2>3. /\ queue' \in Seq(Nat) /\ dropped' = dropped /\ queue \in Seq(Nat)
    BY <2>1, <2>2, GetEffect DEF MqTypeOK
  <2>4. queue[1] \in Entries /\ Head(queue) = queue[1] /\ Entries' = Entries \ {queue[1]}
    BY <2>1, <2>2, GetEntries
  <2>5. Queued = Entries \ {EndMarker} /\ Queued' = Entries' \ {EndMarker}
    <3>1. Queued = Entries \ {EndMarker}
      BY <2>3, QueuedEntries
    <3>2. Queued' = Entries' \ {EndMarker}
      BY <2>3 DEF Queued, Entries
    <3> QED
      BY <3>1, <3>2
  <2>6. Head(queue) # EndMarker
    BY <1>n, <2>1, <2>4 DEF EndInv
  <2>7. Reached' = Reached /\ Kept \subseteq Kept'
    <3>1. got' = got \cup {queue[1]} /\ Queued \subseteq Queued' \cup {queue[1]}
      BY <2>1, <2>4, <2>5, <2>6
    <3> QED
      BY <2>1, <2>3, <3>1 DEF Reached, Kept, Outstanding, InHand
  <2> QED
    BY <1>i, <2>1, <2>7
<1>7. CASE TrainStep
  <2>1. /\ model' = model \cup got /\ got' = {}
        /\ UNCHANGED <<queue, dropped, running, failed, taken, base, last, pp>>
    BY <1>7 DEF TrainStep
  <2>2. Reached' = Reached /\ Kept' = Kept
    BY <2>1 DEF Reached, Kept, Outstanding, InHand, Queued
  <2> QED
    BY <1>i, <2>1, <2>2
<1>8. CASE CrashAndLoad
  <2>1. base' = disk.fed /\ taken' = disk.fed /\ last' = disk.fed + FeedsAfter(disk.version, disk.fed)
    BY <1>8 DEF CrashAndLoad, ResumePosition
  <2>2. disk.fed \in Nat /\ disk.version \in Nat
    BY <1>n, Numbers DEF TypeOK
  <2>3. FeedsAfter(disk.version, disk.fed) \in Nat
    BY <2>2, FeedsBounds
  <2>4. Reached' = disk.fed
    BY <2>1, <2>2, <2>3 DEF Reached
  <2> QED
    BY <2>1, <2>2, <2>4
<1>9. ASSUME NEW s \in running, FinishSample(s)
      PROVE  ((base + 1)..Reached)' \subseteq Kept'
  <2>1. /\ PutSample(s) /\ running' = running \ {s}
        /\ UNCHANGED <<failed, base, last, taken, got, model, pp>>
    BY <1>9 DEF FinishSample
  <2>2. Reached' = Reached
    BY <2>1 DEF Reached
  <2>3. s \in 0..Reached /\ s # EndMarker
    BY <1>n, Numbers DEF PlaceInv, EndMarker
  <2>4. s \notin Entries /\ AllDifferent
    <3>1. Queued = Entries \ {EndMarker}
      BY <1>n, Numbers, QueuedEntries
    <3> QED
      BY <1>n, <2>3, <3>1 DEF DistinctInv
  <2>5. dropped \subseteq dropped' /\ Queued \cup {s} \subseteq Queued' \cup dropped'
    BY <1>n, <2>1, <2>2, <2>3, <2>4, PutPlaces, Zenon
  <2>6. Kept \subseteq Kept'
    BY <2>1, <2>5 DEF Kept, Outstanding, InHand
  <2> QED
    BY <1>i, <2>1, <2>2, <2>6
<1>10. ASSUME NEW s \in running, FailSample(s)
       PROVE  ((base + 1)..Reached)' \subseteq Kept'
  <2>1. /\ running' = running \ {s} /\ failed' = failed \cup {s}
        /\ UNCHANGED <<queue, dropped, base, last, taken, got, model, pp>>
    BY <1>10 DEF FailSample
  <2>2. Reached' = Reached /\ Kept \subseteq Kept'
    BY <2>1 DEF Reached, Kept, Outstanding, InHand, Queued
  <2> QED
    BY <1>i, <2>1, <2>2
<1> QED
  BY <1>1, <1>2, <1>3, <1>4, <1>5, <1>6, <1>7, <1>8, <1>9, <1>10, StepCases

\* At the start nothing was taken.
LEMMA NothingLostInit == Init => NothingLost
<1> SUFFICES ASSUME Init PROVE NothingLost
  OBVIOUS
<1>1. TypeOK
  BY SampleInit DEF SampleInv, TypeInv
<1>2. base = 0 /\ Reached = 0
  BY FullyAsyncAssumption DEF Init, Reached
<1>3. (base + 1)..Reached \subseteq Kept
  BY <1>2
<1> QED
  BY <1>1, <1>3, LostReached

\* While the processor lives, every sample it took is in someone's hands, in the weights,
\* or was dropped from the full queue, whatever pauses, resumes and reaped tasks do.
THEOREM NoSampleLost == Spec => []NothingLost
BY SampleInit, SampleNext, NothingLostInit, NothingLostNext, PTL DEF Spec

-----------------------------------------------------------------------------
(* How far the rollouter runs ahead of the trainer: the count of           *)
(* staleness_samples against the samples that are really on their way, and *)
(* what the bounded queue may drop.                                        *)

-----------------------------------------------------------------------------
(* The inductive invariant. *)

\* The samples that staleness_samples has to account for: a failed task keeps its count
\* until it is reaped.
Accounted == Outstanding \cup failed

\* The processor has decided to take one more sample, or none.
Decided == pp \in {"take", "end", "crashed", "finished"}

\* staleness_samples is at most one behind.
StaleInv ==
  /\ Cardinality(Accounted) <= staleness + 1
  /\ Cardinality(Accounted) <= MaxQueueSize + 1
  /\ Decided => Cardinality(Accounted) <= MaxQueueSize

\* Being one behind, and one sample too many, takes a reset that no dropped sample
\* stands for yet.
DropInv ==
  /\ Cardinality(dropped) <= resets
  /\ \/ Cardinality(Accounted) > staleness
     \/ Cardinality(Accounted) > MaxQueueSize
     \/ Decided /\ Cardinality(Accounted) >= MaxQueueSize
     => Cardinality(dropped) < resets

\* None keeps its place: fewer tasks are left than it takes to push it out.
MarkerInv ==
  /\ EndMarker \notin dropped
  /\ Cardinality(Active) <= MaxConcurrent
  /\ pp = "crashed" => Cardinality(running) < MaxQueueSize
  /\ \A i \in 1..Len(queue) :
       queue[i] = EndMarker => Cardinality(running) + Len(queue) - i < MaxQueueSize

FreshInv == StaleInv /\ DropInv /\ MarkerInv

-----------------------------------------------------------------------------
(* Counting. *)

\* What is counted is finite.
LEMMA Counted ==
  ASSUME TypeInv
  PROVE  /\ IsFiniteSet(Accounted) /\ Cardinality(Accounted) \in Nat
         /\ IsFiniteSet(dropped) /\ Cardinality(dropped) \in Nat
         /\ IsFiniteSet(Active) /\ Cardinality(Active) \in Nat
         /\ IsFiniteSet(running) /\ Cardinality(running) \in Nat
         /\ IsFiniteSet(Queued)
<1>1. TypeOK /\ PlaceInv
  BY DEF TypeInv
<1>2. Reached \in Nat /\ taken \in Nat /\ 1..Reached \subseteq 0..Reached /\ 1..taken \subseteq 0..taken
  BY <1>1, Numbers
<1>3. InHand \subseteq 0..Reached
  BY <1>1, Numbers DEF InHand, PlaceInv, Reached
<1>4. Accounted \in SUBSET (0..Reached) /\ dropped \in SUBSET (0..Reached)
      /\ Queued \in SUBSET (0..Reached) /\ running \in SUBSET (0..Reached)
  BY <1>1, <1>2, <1>3 DEF Accounted, Outstanding, PlaceInv
<1>5. Active \in SUBSET (0..taken)
  BY <1>1, ActiveItems
<1> QED
  BY <1>2, <1>4, <1>5, BoundedFinite

\* A part of a finite set is not larger; without one of its elements it is smaller.
LEMMA Parts ==
  ASSUME NEW S, NEW T, IsFiniteSet(S), T \subseteq S
  PROVE  /\ IsFiniteSet(T) /\ Cardinality(T) \in Nat /\ Cardinality(S) \in Nat
         /\ Cardinality(T) <= Cardinality(S)
         /\ \A x \in S : x \notin T => Cardinality(T) + 1 <= Cardinality(S)
<1>1. IsFiniteSet(T) /\ Cardinality(T) \in Nat /\ Cardinality(S) \in Nat /\ Cardinality(T) <= Cardinality(S)
  BY FS_Subset, FS_CardinalityType
<1>2. ASSUME NEW x \in S, x \notin T PROVE Cardinality(T) + 1 <= Cardinality(S)
  <2>1. T \cup {x} \subseteq S
    BY <1>2
  <2>2. Cardinality(T \cup {x}) = Cardinality(T) + 1
    BY <1>1, <1>2, FS_AddElement
  <2>3. Cardinality(T \cup {x}) <= Cardinality(S)
    BY <2>1, FS_Subset
  <2> QED
    BY <2>2, <2>3
<1> QED
  BY <1>1, <1>2

\* One element more.
LEMMA OneMore ==
  ASSUME NEW S, NEW T, NEW x, IsFiniteSet(S), T \subseteq S \cup {x}
  PROVE  Cardinality(T) \in Nat /\ Cardinality(S) \in Nat /\ Cardinality(T) <= Cardinality(S) + 1
<1>1. IsFiniteSet(S \cup {x}) /\ Cardinality(S \cup {x}) <= Cardinality(S) + 1 /\ Cardinality(S) \in Nat
  <2>1. IsFiniteSet(S \cup {x}) /\ Cardinality(S) \in Nat
    BY FS_AddElement, FS_CardinalityType
  <2>2. CASE x \in S
    <3>1. S \cup {x} = S
      BY <2>2
    <3> QED
      BY <2>1, <3>1
  <2>3. CASE x \notin S
    <3>1. Cardinality(S \cup {x}) = Cardinality(S) + 1
      BY <2>3, FS_AddElement
    <3> QED
      BY <2>1, <3>1
  <2> QED
    BY <2>1, <2>2, <2>3
<1>2. Cardinality(T) <= Cardinality(S \cup {x}) /\ Cardinality(T) \in Nat /\ Cardinality(S \cup {x}) \in Nat
  BY <1>1, Parts
<1> QED
  BY <1>1, <1>2

\* A queue of different entries has as many entries as its length.
LEMMA EntriesCount ==
  ASSUME queue \in Seq(Nat)
  PROVE  /\ IsFiniteSet(Entries) /\ Cardinality(Entries) \in Nat
         /\ Cardinality(Entries) <= Len(queue)
         /\ AllDifferent => Cardinality(Entries) = Len(queue)
<1> DEFINE f == [i \in 1..Len(queue) |-> queue[i]]
<1>1. Len(queue) \in Nat /\ 1 \in Int /\ Len(queue) \in Int
  OBVIOUS
<1>2. IsFiniteSet(1..Len(queue)) /\ Cardinality(1..Len(queue)) = Len(queue)
  <2>1. /\ IsFiniteSet(1..Len(queue))
        /\ Cardinality(1..Len(queue)) = IF 1 > Len(queue) THEN 0 ELSE Len(queue) - 1 + 1
    BY <1>1, FS_Interval, Zenon
  <2> QED
    BY <1>1, <2>1
<1>3. f \in Surjection(1..Len(queue), Entries)
  BY DEF Surjection, Entries
<1>4. IsFiniteSet(Entries) /\ Cardinality(Entries) <= Cardinality(1..Len(queue))
      /\ (Cardinality(Entries) = Cardinality(1..Len(queue)) <=> f \in Injection(1..Len(queue), Entries))
  BY <1>2, <1>3, FS_Surjection, Zenon
<1>5. AllDifferent => f \in Injection(1..Len(queue), Entries)
  <2> SUFFICES ASSUME AllDifferent PROVE f \in Injection(1..Len(queue), Entries)
    OBVIOUS
  <2>1. f \in [1..Len(queue) -> Entries]
    BY DEF Entries
  <2>2. \A i, j \in 1..Len(queue) : f[i] = f[j] => i = j
    BY DEF AllDifferent
  <2> QED
    BY <2>1, <2>2 DEF Injection, IsInjective
<1>6. Cardinality(Entries) \in Nat
  BY <1>4, FS_CardinalityType
<1> QED
  BY <1>2, <1>4, <1>5, <1>6

-----------------------------------------------------------------------------
(* The count of staleness_samples. *)

\* Nothing new is on its way, and the processor decides nothing.
LEMMA ShrinkKeeps ==
  ASSUME SampleInv, StaleInv, DropInv, Accounted' \subseteq Accounted,
         UNCHANGED <<staleness, dropped, resets>>, Decided' => Decided
  PROVE  StaleInv' /\ DropInv'
<1>1. TypeOK /\ IsFiniteSet(Accounted)
  BY Counted DEF SampleInv, TypeInv
<1> DEFINE c == Cardinality(Accounted)
           d == Cardinality(Accounted')
           n == Cardinality(dropped)
<1>2. d \in Nat /\ c \in Nat /\ d <= c
  BY <1>1, Parts
<1>3. n \in Nat /\ staleness \in Nat /\ resets \in Nat /\ MaxQueueSize \in Nat
  BY <1>1, Counted, Numbers DEF SampleInv, TypeOK
<1>4. /\ c <= staleness + 1 /\ c <= MaxQueueSize + 1 /\ (Decided => c <= MaxQueueSize)
      /\ n <= resets
      /\ (c > staleness \/ c > MaxQueueSize \/ (Decided /\ c >= MaxQueueSize) => n < resets)
  BY DEF StaleInv, DropInv
<1>5. /\ d <= staleness + 1 /\ d <= MaxQueueSize + 1 /\ (Decided' => d <= MaxQueueSize)
      /\ (d > staleness \/ d > MaxQueueSize \/ (Decided' /\ d >= MaxQueueSize) => n < resets)
  <2> HIDE DEF c, d, n
  <2> QED
    BY <1>2, <1>3, <1>4
<1> QED
  BY <1>4, <1>5 DEF StaleInv, DropInv

\* The processor decides to take one more sample: the count has room.
LEMMA DecideKeeps ==
  ASSUME SampleInv, StaleInv, DropInv, DecidePause
  PROVE  StaleInv' /\ DropInv'
<1> USE DEF mqVars, taskVars, feedVars, pauseVars, trainVars
<1>1. TypeOK
  BY DEF SampleInv, TypeInv
<1>2. /\ UNCHANGED <<queue, running, failed, taken, staleness, dropped, resets>> /\ pp = "room"
      /\ pp' = (IF staleness >= MaxQueueSize THEN "pausing" ELSE "take")
  BY DEF DecidePause, TooStale
<1>3. Accounted' = Accounted
  BY <1>2 DEF Accounted, Outstanding, InHand, Queued
<1>4. Decided' => staleness < MaxQueueSize
  <2>1. staleness \in Nat /\ MaxQueueSize \in Nat
    BY <1>1, Numbers DEF TypeOK
  <2>2. Decided' => ~ (staleness >= MaxQueueSize)
    BY <1>2 DEF Decided
  <2> QED
    BY <2>1, <2>2
<1> DEFINE c == Cardinality(Accounted)
           n == Cardinality(dropped)
<1>5. c \in Nat /\ n \in Nat /\ staleness \in Nat /\ resets \in Nat /\ MaxQueueSize \in Nat
  BY <1>1, Counted, Numbers DEF SampleInv, TypeOK
<1>6. /\ c <= staleness + 1 /\ c <= MaxQueueSize + 1 /\ n <= resets
      /\ (c > staleness \/ c > MaxQueueSize => n < resets)
  BY DEF StaleInv, DropInv
<1>7. /\ Decided' => c <= MaxQueueSize
      /\ (c > staleness \/ c > MaxQueueSize \/ (Decided' /\ c >= MaxQueueSize) => n < resets)
  <2> HIDE DEF c, n
  <2> QED
    BY <1>4, <1>5, <1>6
<1> QED
  BY <1>2, <1>3, <1>6, <1>7 DEF StaleInv, DropInv

\* A failed task leaves the count before the processor ends.
LEMMA ReapCount ==
  ASSUME SampleInv, StaleInv, DropInv, DrainReap \/ ReapInLock
  PROVE  StaleInv' /\ DropInv'
<1> USE DEF mqVars, taskVars, feedVars, pauseVars, trainVars
<1>n. TypeOK /\ PlaceInv /\ LockInv /\ DistinctInv
  BY DEF SampleInv, TypeInv
<1>1. /\ failed' \subseteq failed
      /\ UNCHANGED <<queue, running, taken, staleness, dropped, resets>>
  BY DEF DrainReap, ReapInLock
<1>2. /\ pp' = "slot" => pp = "slot"
      /\ pp' \in {pp, "ask", "drain", "crashed"}
      /\ pp' = "crashed" => \E x \in failed : x \notin failed'
  BY <1>n DEF DrainReap, ReapInLock, LockInv
<1>3. Queued' = Queued /\ InHand' \subseteq InHand
  BY <1>1, <1>2 DEF Queued, InHand
<1>4. Accounted' \subseteq Accounted
  BY <1>1, <1>3 DEF Accounted, Outstanding
<1>5. CASE pp' # "crashed"
  <2>1. Decided' => Decided
    BY <1>2, <1>5 DEF Decided
  <2> QED
    BY <1>1, <1>4, <2>1, ShrinkKeeps
<1>6. CASE pp' = "crashed"
  <2>1. PICK x \in failed : x \notin failed'
    BY <1>2, <1>6
  <2>2. x \in Accounted /\ x \notin Accounted'
    <3>1. x \notin running /\ x \notin Queued /\ InHand' = {}
      BY <1>n, <1>6 DEF DistinctInv, InHand
    <3> QED
      BY <1>1, <1>3, <2>1, <3>1 DEF Accounted, Outstanding
  <2> DEFINE c == Cardinality(Accounted)
             d == Cardinality(Accounted')
             n == Cardinality(dropped)
  <2>3. d \in Nat /\ c \in Nat /\ d + 1 <= c
    BY <1>4, <2>2, Parts, Counted DEF SampleInv
  <2>4. n \in Nat /\ staleness \in Nat /\ resets \in Nat /\ MaxQueueSize \in Nat
    BY <1>n, Counted, Numbers DEF SampleInv, TypeOK
  <2>5. /\ c <= staleness + 1 /\ c <= MaxQueueSize + 1 /\ n <= resets
        /\ (c > staleness \/ c > MaxQueueSize => n < resets)
    BY DEF StaleInv, DropInv
  <2>6. /\ d <= staleness + 1 /\ d <= MaxQueueSize
        /\ (d > staleness \/ d >= MaxQueueSize => n < resets)
    <3> HIDE DEF c, d, n
    <3> QED
      BY <2>3, <2>4, <2>5
  <2>7. d <= MaxQueueSize + 1 /\ (d > MaxQueueSize => n < resets)
    <3> HIDE DEF c, d, n
    <3> QED
      BY <2>3, <2>4, <2>6
  <2> QED
    BY <1>1, <2>5, <2>6, <2>7 DEF StaleInv, DropInv
<1> QED
  BY <1>5, <1>6

\* A sample in the processor's hand is one more, and counted.
LEMMA TakeCount ==
  ASSUME SampleInv, StaleInv, DropInv, TakeSample
  PROVE  StaleInv' /\ DropInv'
<1> USE DEF mqVars, taskVars, feedVars, pauseVars, trainVars
<1>n. TypeOK
  BY DEF SampleInv, TypeInv
<1>1. /\ pp = "take" /\ staleness' = staleness + 1 /\ pp' \in {"end", "slot"}
      /\ UNCHANGED <<queue, running, failed, dropped, resets>>
  BY DEF TakeSample
<1>2. Accounted' \subseteq Accounted \cup {taken'} /\ (pp' = "end" => Accounted' \subseteq Accounted)
  BY <1>1 DEF Accounted, Outstanding, InHand, Queued
<1> DEFINE c == Cardinality(Accounted)
           d == Cardinality(Accounted')
           n == Cardinality(dropped)
<1>3. IsFiniteSet(Accounted)
  BY Counted DEF SampleInv
<1>4. d \in Nat /\ c \in Nat /\ d <= c + 1
  BY <1>2, <1>3, OneMore
<1>5. pp' = "end" => d <= c
  BY <1>2, <1>3, Parts
<1>6. n \in Nat /\ staleness \in Nat /\ resets \in Nat /\ MaxQueueSize \in Nat
  BY <1>n, Counted, Numbers DEF SampleInv, TypeOK
<1>7. /\ c <= staleness + 1 /\ c <= MaxQueueSize /\ n <= resets
      /\ (c > staleness \/ c >= MaxQueueSize => n < resets)
  BY <1>1 DEF StaleInv, DropInv, Decided
<1>8. Decided' <=> pp' = "end"
  BY <1>1 DEF Decided
<1>9. /\ d <= staleness' + 1 /\ d <= MaxQueueSize + 1 /\ (Decided' => d <= MaxQueueSize)
      /\ (d > staleness' \/ d > MaxQueueSize \/ (Decided' /\ d >= MaxQueueSize) => n < resets)
  <2> HIDE DEF c, d, n
  <2> QED
    BY <1>1, <1>4, <1>5, <1>6, <1>7, <1>8
<1> QED
  BY <1>1, <1>7, <1>9 DEF StaleInv, DropInv

\* A reset counts the tasks and the queue; only the processor's hand escapes it.
LEMMA ResetCount ==
  ASSUME SampleInv, StaleInv, DropInv, ResetEnd
  PROVE  StaleInv' /\ DropInv'
<1> USE DEF mqVars, taskVars, feedVars, pauseVars, trainVars
<1>n. TypeOK
  BY DEF SampleInv, TypeInv
<1>1. /\ staleness' = Cardinality(Active) + Len(queue) /\ resets' = resets + 1
      /\ UNCHANGED <<queue, running, failed, taken, dropped, pp>>
  BY DEF ResetEnd, Recount, GetQueueSize
<1>2. Accounted' = Accounted /\ Decided' = Decided
  BY <1>1 DEF Accounted, Outstanding, InHand, Queued, Decided
<1> DEFINE c == Cardinality(Accounted)
           n == Cardinality(dropped)
<1>3. c <= Cardinality(Active) + Len(queue) + 1
  <2>1. /\ queue \in Seq(Nat) /\ IsFiniteSet(Active) /\ Cardinality(Active) \in Nat
        /\ IsFiniteSet(Entries) /\ Cardinality(Entries) \in Nat /\ Cardinality(Entries) <= Len(queue)
        /\ Len(queue) \in Nat
    BY <1>n, Counted, Numbers, EntriesCount DEF SampleInv
  <2>2. /\ IsFiniteSet(Active \cup Entries)
        /\ Cardinality(Active \cup Entries)
             = Cardinality(Active) + Cardinality(Entries) - Cardinality(Active \cap Entries)
    BY <2>1, FS_Union
  <2>3. Cardinality(Active \cap Entries) \in Nat
    BY <2>1, FS_Intersection, FS_CardinalityType
  <2>4. Accounted \subseteq (Active \cup Entries) \cup {taken}
    BY <2>1, QueuedEntries DEF Accounted, Outstanding, InHand, Active
  <2>5. c <= Cardinality(Active \cup Entries) + 1 /\ c \in Nat
    BY <2>2, <2>4, OneMore
  <2>6. Cardinality(Active \cup Entries) \in Nat
    BY <2>2, FS_CardinalityType
  <2> HIDE DEF c
  <2> QED
    BY <2>1, <2>2, <2>3, <2>5, <2>6
<1>4. n \in Nat /\ resets \in Nat /\ n <= resets
  BY <1>n, Counted DEF SampleInv, TypeOK, DropInv
<1>5. n < resets'
  <2> HIDE DEF n
  <2> QED
    BY <1>1, <1>4
<1>6. n <= resets'
  <2> HIDE DEF n
  <2> QED
    BY <1>1, <1>4
<1> QED
  BY <1>1, <1>2, <1>3, <1>5, <1>6 DEF StaleInv, DropInv

\* A full queue has its excess sample from a reset that no dropped sample stands for.
LEMMA FullQueue ==
  ASSUME SampleInv, DropInv, Len(queue) = MaxQueueSize,
         running # {} \/ (Decided /\ EndMarker \notin Entries)
  PROVE  Cardinality(dropped) < resets
<1>n. TypeOK /\ DistinctInv /\ EndInv
  BY DEF SampleInv, TypeInv
<1>1. queue \in Seq(Nat) /\ MaxQueueSize \in Nat \ {0}
  BY <1>n, Numbers
<1>2. IsFiniteSet(Entries) /\ Cardinality(Entries) = MaxQueueSize /\ Queued = Entries \ {EndMarker}
  BY <1>1, <1>n, EntriesCount, QueuedEntries DEF DistinctInv
<1>3. IsFiniteSet(Accounted) /\ Cardinality(Accounted) \in Nat
  BY Counted DEF SampleInv
<1>4. Queued \subseteq Accounted /\ running \subseteq Accounted
  BY DEF Accounted, Outstanding
<1>5. Cardinality(Queued) \in Nat /\ Cardinality(Queued) <= Cardinality(Accounted)
  BY <1>3, <1>4, Parts
<1>6. running # {} => Cardinality(Queued) + 1 <= Cardinality(Accounted)
  <2> SUFFICES ASSUME NEW s \in running PROVE Cardinality(Queued) + 1 <= Cardinality(Accounted)
    OBVIOUS
  <2>1. s \in Accounted /\ s \notin Queued
    BY <1>4, <1>n DEF DistinctInv
  <2> QED
    BY <1>3, <1>4, <2>1, Parts
<1>7. CASE EndMarker \notin Entries
  <2>1. Cardinality(Queued) = MaxQueueSize
    <3>1. Queued = Entries
      BY <1>2, <1>7
    <3> QED
      BY <1>2, <3>1
  <2>2. Cardinality(Accounted) > MaxQueueSize \/ (Decided /\ Cardinality(Accounted) >= MaxQueueSize)
    BY <1>1, <1>3, <1>5, <1>6, <2>1
  <2> QED
    BY <2>2 DEF DropInv
<1>8. CASE EndMarker \in Entries
  <2>1. Decided /\ running # {}
    BY <1>8, <1>n DEF EndInv, Decided
  <2>2. Cardinality(Queued) = MaxQueueSize - 1
    BY <1>2, <1>8, FS_RemoveElement
  <2>3. Cardinality(Accounted) >= MaxQueueSize
    BY <1>1, <1>3, <1>6, <2>1, <2>2
  <2> QED
    BY <2>1, <2>3 DEF DropInv
<1> QED
  BY <1>7, <1>8

\* Dropping a sample takes it out of the count.
LEMMA DropKeeps ==
  ASSUME SampleInv, StaleInv, DropInv, NEW x \in Accounted, x \notin Accounted',
         Accounted' \subseteq Accounted, dropped' = dropped \cup {x},
         UNCHANGED <<staleness, resets>>, Decided' => Decided, Cardinality(dropped) < resets
  PROVE  StaleInv' /\ DropInv'
<1>n. TypeOK
  BY DEF SampleInv, TypeInv
<1> DEFINE c == Cardinality(Accounted)
           d == Cardinality(Accounted')
           n == Cardinality(dropped)
           m == Cardinality(dropped')
<1>1. d \in Nat /\ c \in Nat /\ d + 1 <= c
  BY Parts, Counted DEF SampleInv
<1>2. m \in Nat /\ n \in Nat /\ m <= n + 1
  BY OneMore, Counted DEF SampleInv
<1>3. staleness \in Nat /\ resets \in Nat /\ MaxQueueSize \in Nat /\ n < resets
  BY <1>n, Numbers DEF TypeOK
<1>4. c <= staleness + 1 /\ c <= MaxQueueSize + 1 /\ (Decided => c <= MaxQueueSize)
  BY DEF StaleInv
<1>5. /\ d <= staleness /\ d <= MaxQueueSize /\ (Decided' => d < MaxQueueSize)
      /\ d <= staleness + 1 /\ d <= MaxQueueSize + 1 /\ m <= resets
  <2> HIDE DEF c, d, n, m
  <2> QED
    BY <1>1, <1>2, <1>3, <1>4
<1>6. ~ (d > staleness \/ d > MaxQueueSize \/ (Decided' /\ d >= MaxQueueSize))
  <2> HIDE DEF c, d, n, m
  <2> QED
    BY <1>1, <1>3, <1>5
<1> QED
  BY <1>5, <1>6 DEF StaleInv, DropInv

\* A put moves a sample from its task to the queue; a full queue drops its first sample.
LEMMA PutCount ==
  ASSUME SampleInv, StaleInv, DropInv, NEW x \in Nat, PutSample(x), x \notin Entries,
         UNCHANGED <<staleness, resets, failed>>, Decided' => Decided,
         x # EndMarker => x \in running, running' = running \ {x}, InHand' \subseteq InHand,
         running # {} \/ (Decided /\ EndMarker \notin Entries),
         Len(queue) = MaxQueueSize => queue[1] # EndMarker
  PROVE  StaleInv' /\ DropInv' /\ (EndMarker \notin dropped => EndMarker \notin dropped')
<1>n. TypeOK /\ MqTypeOK /\ DistinctInv /\ PlaceInv
  BY DEF SampleInv, TypeInv, TypeOK
<1>1. /\ \/ Entries' = Entries \cup {x} /\ dropped' = dropped
         \/ /\ Entries' = (Entries \ {queue[1]}) \cup {x} /\ dropped' = dropped \cup {queue[1]}
            /\ Len(queue) = MaxQueueSize /\ queue[1] \in Entries
  BY <1>n, PutEntries DEF DistinctInv
<1>2. Queued = Entries \ {EndMarker}
  BY <1>n, QueuedEntries DEF MqTypeOK
<1>3. Queued' = Entries' \ {EndMarker}
  <2>1. queue' \in Seq(Nat)
    BY <1>n, PutEffect
  <2> QED
    BY <2>1 DEF Queued, Entries
<1>4. Queued' \subseteq Queued \cup ({x} \ {EndMarker})
  BY <1>1, <1>2, <1>3
<1>5. Accounted' \subseteq Accounted
  BY <1>4 DEF Accounted, Outstanding
<1>6. CASE dropped' = dropped
  BY <1>5, <1>6, ShrinkKeeps
<1>7. CASE /\ Entries' = (Entries \ {queue[1]}) \cup {x} /\ dropped' = dropped \cup {queue[1]}
           /\ Len(queue) = MaxQueueSize /\ queue[1] \in Entries
  <2>1. queue[1] \in Queued /\ queue[1] # EndMarker /\ queue[1] # x
    BY <1>2, <1>7
  <2>2. queue[1] \in Accounted /\ queue[1] \notin Queued'
    BY <1>3, <1>7, <2>1 DEF Accounted, Outstanding
  <2>3. queue[1] \notin Accounted'
    <3>1. queue[1] \notin running /\ queue[1] \notin failed
      BY <1>n, <2>1 DEF DistinctInv
    <3>2. queue[1] \notin InHand
      BY <1>n, <2>1 DEF DistinctInv, InHand
    <3> QED
      BY <2>2, <3>1, <3>2 DEF Accounted, Outstanding
  <2>4. Cardinality(dropped) < resets
    BY <1>7, FullQueue
  <2>5. StaleInv' /\ DropInv'
    BY <1>5, <1>7, <2>2, <2>3, <2>4, DropKeeps
  <2> QED
    BY <1>7, <2>1, <2>5
<1> QED
  BY <1>1, <1>6, <1>7

-----------------------------------------------------------------------------
(* None keeps its place. *)

\* A task's put moves None up by as much as it removes a task.
LEMMA FinishMarker ==
  ASSUME SampleInv, MarkerInv, NEW s \in running, FinishSample(s)
  PROVE  /\ Len(queue) = MaxQueueSize => queue[1] # EndMarker
         /\ EndMarker \notin dropped' => MarkerInv'
<1> USE DEF taskVars, feedVars, pauseVars, trainVars
<1>n. TypeOK /\ MqTypeOK /\ PlaceInv
  BY DEF SampleInv, TypeInv, TypeOK
<1>1. /\ PutSample(s) /\ running' = running \ {s} /\ ended' = ended \cup {s} /\ failed' = failed
      /\ pp' = pp
  BY DEF FinishSample
<1>2. s \in Nat /\ s # EndMarker
  BY <1>n, Numbers DEF PlaceInv, EndMarker
<1> DEFINE r == Cardinality(running)
           t == Cardinality(running')
<1>3. r \in Nat /\ t = r - 1 /\ r > 0 /\ t \in Nat
  <2>1. IsFiniteSet(running) /\ r \in Nat
    BY Counted DEF SampleInv
  <2>2. t = r - 1 /\ IsFiniteSet(running')
    BY <1>1, <2>1, FS_RemoveElement
  <2>3. t \in Nat
    BY <2>2, FS_CardinalityType
  <2> QED
    BY <2>1, <2>2, <2>3
<1>4. Len(queue) \in Nat /\ MaxQueueSize \in Nat \ {0}
  BY <1>n, Numbers
<1>5. \A i \in 1..Len(queue) : queue[i] = EndMarker => r + Len(queue) - i < MaxQueueSize
  BY DEF MarkerInv
<1>6. Len(queue) = MaxQueueSize => queue[1] # EndMarker
  <2> SUFFICES ASSUME Len(queue) = MaxQueueSize, queue[1] = EndMarker PROVE FALSE
    OBVIOUS
  <2>1. 1 \in 1..Len(queue)
    BY <1>4
  <2>2. r + Len(queue) - 1 < MaxQueueSize
    BY <1>5, <2>1
  <2> HIDE DEF r
  <2> QED
    BY <1>3, <1>4, <2>2
<1>7. ASSUME NEW i \in 1..Len(queue'), queue'[i] = EndMarker
      PROVE  t + Len(queue') - i < MaxQueueSize
  <2> HIDE DEF r, t
  <2>1. CASE /\ Len(queue') = Len(queue) + 1
             /\ \A k \in 1..Len(queue) : queue'[k] = queue[k]
             /\ queue'[Len(queue')] = s
    <3>1. i # Len(queue')
      BY <1>2, <1>7, <2>1
    <3>2. i \in 1..Len(queue)
      BY <1>4, <2>1, <3>1
    <3>3. r + Len(queue) - i < MaxQueueSize
      BY <1>5, <1>7, <2>1, <3>2
    <3> QED
      BY <1>3, <1>4, <2>1, <3>2, <3>3
  <2>2. CASE /\ Len(queue') = Len(queue)
             /\ \A k \in 1..(Len(queue) - 1) : queue'[k] = queue[k + 1]
             /\ queue'[Len(queue')] = s
    <3>1. i # Len(queue')
      BY <1>2, <1>7, <2>2
    <3>2. i \in 1..(Len(queue) - 1) /\ i + 1 \in 1..Len(queue)
      BY <1>4, <2>2, <3>1
    <3>3. queue[i + 1] = EndMarker
      BY <1>7, <2>2, <3>2
    <3>4. r + Len(queue) - (i + 1) < MaxQueueSize
      BY <1>5, <3>2, <3>3
    <3> QED
      BY <1>3, <1>4, <2>2, <3>2, <3>4
  <2> QED
    BY <1>1, <1>2, <1>n, <2>1, <2>2, PutEffect
<1>8. Active' = Active
  BY <1>1 DEF Active
<1>9. pp' = "crashed" => t < MaxQueueSize
  <2>1. pp = "crashed" => r < MaxQueueSize
    BY DEF MarkerInv
  <2> HIDE DEF r, t
  <2> QED
    BY <1>1, <1>3, <1>4, <2>1
<1> QED
  BY <1>6, <1>7, <1>8, <1>9 DEF MarkerInv

\* The rollouter puts None last, and the tasks it leaves behind cannot push it out.
LEMMA NoneMarker ==
  ASSUME SampleInv, MarkerInv, FinishRollout
  PROVE  EndMarker \notin dropped' => MarkerInv'
<1> USE DEF taskVars, feedVars, pauseVars, trainVars
<1>n. TypeOK /\ MqTypeOK /\ EndInv
  BY DEF SampleInv, TypeInv, TypeOK
<1>1. /\ PutSample(EndMarker) /\ running' = running /\ ended' = ended /\ failed' = failed
      /\ pp' = "finished" /\ pp \in {"end", "crashed"} /\ (pp = "end" => Active = {})
  BY DEF FinishRollout
<1>2. EndMarker \in Nat /\ EndMarker \notin Entries
  BY <1>n, <1>1 DEF EndInv, EndMarker
<1>3. Active' = Active
  BY <1>1 DEF Active
<1>4. Len(queue) \in Nat /\ MaxQueueSize \in Nat \ {0}
  BY <1>n, Numbers
<1>5. Cardinality(running) < MaxQueueSize /\ Cardinality(running) \in Nat
  <2>1. CASE pp = "crashed"
    BY <2>1, Counted DEF MarkerInv, SampleInv
  <2>2. CASE pp = "end"
    <3>1. running = {}
      BY <1>1, <2>2 DEF Active
    <3>2. Cardinality(running) = 0
      BY <3>1, FS_EmptySet
    <3> QED
      BY <1>4, <3>2
  <2> QED
    BY <1>1, <2>1, <2>2
<1>6. ASSUME NEW i \in 1..Len(queue'), queue'[i] = EndMarker
      PROVE  i = Len(queue')
  <2> SUFFICES ASSUME i # Len(queue') PROVE FALSE
    OBVIOUS
  <2>1. CASE /\ Len(queue') = Len(queue) + 1
             /\ \A k \in 1..Len(queue) : queue'[k] = queue[k]
    <3>1. i \in 1..Len(queue)
      BY <1>4, <2>1
    <3> QED
      BY <1>2, <1>6, <2>1, <3>1 DEF Entries
  <2>2. CASE /\ Len(queue') = Len(queue)
             /\ \A k \in 1..(Len(queue) - 1) : queue'[k] = queue[k + 1]
    <3>1. i \in 1..(Len(queue) - 1) /\ i + 1 \in 1..Len(queue)
      BY <1>4, <2>2
    <3> QED
      BY <1>2, <1>6, <2>2, <3>1 DEF Entries
  <2> QED
    BY <1>1, <1>2, <1>n, <2>1, <2>2, PutEffect
<1>7. \A i \in 1..Len(queue') :
        queue'[i] = EndMarker => Cardinality(running') + Len(queue') - i < MaxQueueSize
  <2> SUFFICES ASSUME NEW i \in 1..Len(queue'), queue'[i] = EndMarker
               PROVE  Cardinality(running') + Len(queue') - i < MaxQueueSize
    OBVIOUS
  <2>1. Len(queue') \in Nat
    BY <1>1, <1>2, <1>n, PutEffect
  <2> QED
    BY <1>1, <1>4, <1>5, <1>6, <2>1
<1> QED
  BY <1>1, <1>3, <1>7 DEF MarkerInv

\* A get moves None up by one place.
LEMMA GetMarker ==
  ASSUME SampleInv, MarkerInv, GetOneSample
  PROVE  MarkerInv'
<1> USE DEF taskVars, feedVars, pauseVars
<1>n. TypeOK /\ MqTypeOK
  BY DEF SampleInv, TypeInv, TypeOK
<1>1. GetSample /\ UNCHANGED <<running, ended, failed, pp>>
  BY DEF GetOneSample
<1>2. /\ Len(queue) \in Nat /\ Len(queue') = Len(queue) - 1 /\ dropped' = dropped /\ Len(queue) > 0
      /\ \A i \in 1..Len(queue') : queue'[i] = queue[i + 1]
  BY <1>1, <1>n, GetEffect
<1>3. Active' = Active
  BY <1>1 DEF Active
<1>4. Cardinality(running) \in Nat /\ MaxQueueSize \in Nat
  BY <1>n, Counted, Numbers DEF SampleInv
<1>5. ASSUME NEW i \in 1..Len(queue'), queue'[i] = EndMarker
      PROVE  Cardinality(running) + Len(queue') - i < MaxQueueSize
  <2>1. i + 1 \in 1..Len(queue) /\ queue[i + 1] = EndMarker
    BY <1>2, <1>5
  <2>2. Cardinality(running) + Len(queue) - (i + 1) < MaxQueueSize
    BY <2>1 DEF MarkerInv
  <2> QED
    BY <1>2, <1>4, <2>2
<1> QED
  BY <1>1, <1>2, <1>3, <1>5 DEF MarkerInv

\* A new task needs a free slot; None is not in the queue yet.
LEMMA SubmitMarker ==
  ASSUME SampleInv, MarkerInv, SubmitSample
  PROVE  MarkerInv'
<1> USE DEF mqVars, taskVars, feedVars, pauseVars, trainVars
<1>n. TypeOK /\ EndInv
  BY DEF SampleInv, TypeInv
<1>1. /\ pp = "slot" /\ ~ SlotsBusy /\ running' = running \cup {taken} /\ pp' = "ask"
      /\ UNCHANGED <<queue, dropped, ended, failed>>
  BY DEF SubmitSample
<1>2. IsFiniteSet(Active) /\ Active' \subseteq Active \cup {taken}
  BY <1>1, Counted DEF Active, SampleInv
<1>3. Cardinality(Active') \in Nat /\ Cardinality(Active) \in Nat
      /\ Cardinality(Active') <= Cardinality(Active) + 1
  BY <1>2, OneMore
<1>4. Cardinality(Active') <= MaxConcurrent
  <2>1. MaxConcurrent \in Nat /\ ~ (Cardinality(Active) >= MaxConcurrent)
    BY <1>1, <1>n, Numbers DEF SlotsBusy
  <2> QED
    BY <1>3, <2>1
<1>5. \A i \in 1..Len(queue) : queue[i] # EndMarker
  BY <1>1, <1>n DEF EndInv, Entries
<1> QED
  BY <1>1, <1>4, <1>5 DEF MarkerInv

\* When the processor ends on a failed task, fewer tasks run than the queue has places.
LEMMA ReapMarker ==
  ASSUME SampleInv, MarkerInv, DrainReap \/ ReapInLock
  PROVE  MarkerInv'
<1> USE DEF mqVars, taskVars, feedVars, pauseVars, trainVars
<1>n. TypeOK /\ LockInv /\ DistinctInv
  BY DEF SampleInv, TypeInv
<1>1. /\ ended' \subseteq ended /\ failed' \subseteq failed
      /\ UNCHANGED <<queue, dropped, running>>
  BY DEF DrainReap, ReapInLock
<1>2. pp' = "crashed" => failed # {}
  BY <1>n DEF DrainReap, ReapInLock, LockInv
<1>3. IsFiniteSet(Active) /\ Active' \subseteq Active /\ running \subseteq Active
  BY <1>1, Counted DEF Active, SampleInv
<1>4. /\ Cardinality(Active) \in Nat /\ Cardinality(Active') \in Nat
      /\ Cardinality(Active') <= Cardinality(Active)
  BY <1>3, Parts
<1>5. Cardinality(Active) <= MaxConcurrent /\ MaxConcurrent \in 1..MaxQueueSize /\ MaxQueueSize \in Nat
  BY <1>n, Numbers DEF MarkerInv
<1>6. Cardinality(Active') <= MaxConcurrent
  BY <1>4, <1>5
<1>7. pp' = "crashed" => Cardinality(running) < MaxQueueSize
  <2> SUFFICES ASSUME NEW x \in failed PROVE Cardinality(running) < MaxQueueSize
    BY <1>2
  <2>1. x \in Active /\ x \notin running
    BY <1>n DEF Active, DistinctInv
  <2>2. Cardinality(running) + 1 <= Cardinality(Active) /\ Cardinality(running) \in Nat
    BY <1>3, <2>1, Parts
  <2> QED
    BY <1>4, <1>5, <2>2
<1> QED
  BY <1>1, <1>6, <1>7 DEF MarkerInv

\* Fewer tasks run, and nothing moves in the queue.
LEMMA QuietMarker ==
  ASSUME SampleInv, MarkerInv, running' \subseteq running, Active' \subseteq Active,
         UNCHANGED dropped, queue' = queue \/ queue' = <<>>, pp' = "crashed" => pp = "crashed"
  PROVE  MarkerInv'
<1>n. TypeOK
  BY DEF SampleInv, TypeInv
<1>1. IsFiniteSet(running) /\ IsFiniteSet(Active)
  BY Counted DEF SampleInv
<1>2. /\ Cardinality(running) \in Nat /\ Cardinality(running') \in Nat
      /\ Cardinality(running') <= Cardinality(running)
      /\ Cardinality(Active) \in Nat /\ Cardinality(Active') \in Nat
      /\ Cardinality(Active') <= Cardinality(Active)
  BY <1>1, Parts
<1>3. MaxConcurrent \in Nat /\ MaxQueueSize \in Nat /\ Len(queue) \in Nat
  BY <1>n, Numbers
<1>4. Cardinality(Active') <= MaxConcurrent
  BY <1>2, <1>3 DEF MarkerInv
<1>5. pp' = "crashed" => Cardinality(running') < MaxQueueSize
  BY <1>2, <1>3 DEF MarkerInv
<1>6. ASSUME NEW i \in 1..Len(queue'), queue'[i] = EndMarker
      PROVE  Cardinality(running') + Len(queue') - i < MaxQueueSize
  <2>1. queue' = queue
    BY <1>6
  <2>2. Cardinality(running) + Len(queue) - i < MaxQueueSize
    BY <1>6, <2>1 DEF MarkerInv
  <2> QED
    BY <1>2, <1>3, <2>1, <2>2
<1> QED
  BY <1>4, <1>5, <1>6 DEF MarkerInv

-----------------------------------------------------------------------------
(* The bounds. *)

\* At the start nothing is on its way.
LEMMA FreshInit == Init => FreshInv
<1> SUFFICES ASSUME Init PROVE FreshInv
  OBVIOUS
<1>1. /\ running = {} /\ ended = {} /\ failed = {} /\ queue = <<>> /\ dropped = {}
      /\ pp = "ask" /\ staleness = 0 /\ resets = 0
  BY DEF Init, MqInit
<1>2. Accounted = {} /\ Active = {} /\ ~ Decided
  BY <1>1 DEF Accounted, Outstanding, InHand, Queued, Active, Decided
<1>3. Cardinality({}) = 0 /\ MaxQueueSize \in Nat \ {0} /\ MaxConcurrent \in Nat
  BY FS_EmptySet, QueueAssumption, SlotsNumber
<1>4. StaleInv /\ DropInv
  BY <1>1, <1>2, <1>3 DEF StaleInv, DropInv
<1>5. MarkerInv
  BY <1>1, <1>2, <1>3 DEF MarkerInv
<1> QED
  BY <1>4, <1>5 DEF FreshInv

\* A restart forgets everything on its way, and counts from zero.
LEMMA CrashFresh == ASSUME CrashAndLoad PROVE FreshInv'
<1>1. /\ running' = {} /\ ended' = {} /\ failed' = {} /\ queue' = <<>> /\ dropped' = {}
      /\ pp' = "ask" /\ staleness' = 0 /\ resets' = 0
  BY DEF CrashAndLoad
<1>2. Accounted' = {} /\ Active' = {} /\ ~ Decided'
  BY <1>1, EmptyQueue DEF Accounted, Outstanding, InHand, Active, Decided
<1>3. Cardinality({}) = 0 /\ MaxQueueSize \in Nat \ {0} /\ MaxConcurrent \in Nat
  BY FS_EmptySet, QueueAssumption, SlotsNumber
<1>4. StaleInv' /\ DropInv'
  BY <1>1, <1>2, <1>3 DEF StaleInv, DropInv
<1>5. MarkerInv'
  BY <1>1, <1>2, <1>3 DEF MarkerInv
<1> QED
  BY <1>4, <1>5 DEF FreshInv

\* The steps that move no sample.
LEMMA ControlFresh == ASSUME SampleInv, FreshInv, Control PROVE FreshInv'
<1> USE DEF mqVars, taskVars, feedVars, pauseVars, trainVars
<1>1. /\ UNCHANGED <<queue, dropped, running, ended, failed, taken>>
      /\ pp' = "slot" <=> pp = "slot"
      /\ pp' = "crashed" <=> pp = "crashed"
  BY ControlStep
<1>2. Accounted' = Accounted /\ Active' = Active
  BY <1>1 DEF Accounted, Outstanding, InHand, Queued, Active
<1>3. MarkerInv'
  BY <1>1, <1>2, QuietMarker DEF FreshInv
<1>4. CASE DecidePause
  BY <1>3, <1>4, DecideKeeps DEF FreshInv
<1>5. CASE ResetEnd
  BY <1>3, <1>5, ResetCount DEF FreshInv
<1>6. CASE ~ DecidePause /\ ~ ResetEnd
  <2>1. staleness' = staleness /\ resets' = resets
    BY <1>6 DEF Control, FeedSamples, AskQueue, Pause, DrainWake, DrainResume, WaitForTask,
       MonitorAsk, MonitorDecide, MonitorResume, ResetBegin, FinalSync, SaveCheckpoint, Done, vars
  <2>2. pp' \in {pp, "ask", "room", "pausing", "drain", "reap"}
    BY <1>6 DEF Control, FeedSamples, AskQueue, Pause, DrainWake, DrainResume, WaitForTask,
       MonitorAsk, MonitorDecide, MonitorResume, ResetBegin, FinalSync, SaveCheckpoint, Done, vars
  <2>3. Decided' => Decided
    BY <2>2 DEF Decided
  <2> QED
    BY <1>1, <1>2, <1>3, <2>1, <2>3, ShrinkKeeps DEF FreshInv
<1> QED
  BY <1>4, <1>5, <1>6

\* A task ends: its sample is in the queue, or it raised.
LEMMA TaskFresh ==
  ASSUME SampleInv, FreshInv, NEW s \in running, FinishSample(s) \/ FailSample(s)
  PROVE  FreshInv'
<1> USE DEF mqVars, taskVars, feedVars, pauseVars, trainVars
<1>n. TypeOK /\ PlaceInv /\ DistinctInv /\ StaleInv /\ DropInv /\ MarkerInv
  BY DEF SampleInv, TypeInv, FreshInv
<1>1. CASE FinishSample(s)
  <2>1. /\ PutSample(s) /\ running' = running \ {s}
        /\ UNCHANGED <<failed, staleness, resets, taken, pp>>
    BY <1>1 DEF FinishSample
  <2>2. s \in Nat /\ s # EndMarker
    BY <1>n, Numbers DEF PlaceInv, EndMarker
  <2>3. s \notin Entries
    <3>1. Queued = Entries \ {EndMarker}
      BY <1>n, Numbers, QueuedEntries
    <3> QED
      BY <1>n, <2>2, <3>1 DEF DistinctInv
  <2>4. InHand' = InHand /\ Decided' = Decided
    BY <2>1 DEF InHand, Decided
  <2>5. /\ Len(queue) = MaxQueueSize => queue[1] # EndMarker
        /\ EndMarker \notin dropped' => MarkerInv'
    BY <1>1, <1>n, FinishMarker
  <2>6. StaleInv' /\ DropInv' /\ (EndMarker \notin dropped => EndMarker \notin dropped')
    BY <1>n, <2>1, <2>2, <2>3, <2>4, <2>5, PutCount
  <2> QED
    BY <1>n, <2>5, <2>6 DEF FreshInv, MarkerInv
<1>2. CASE FailSample(s)
  <2>1. /\ running' = running \ {s} /\ failed' = failed \cup {s}
        /\ UNCHANGED <<queue, dropped, ended, staleness, resets, taken, pp>>
    BY <1>2 DEF FailSample
  <2>2. Accounted' \subseteq Accounted /\ Active' \subseteq Active /\ Decided' = Decided
    BY <2>1 DEF Accounted, Outstanding, InHand, Queued, Active, Decided
  <2>3. running' \subseteq running
    BY <2>1
  <2>4. MarkerInv'
    BY <1>n, <2>1, <2>2, <2>3, QuietMarker
  <2> QED
    BY <1>n, <2>1, <2>2, <2>4, ShrinkKeeps DEF FreshInv
<1> QED
  BY <1>1, <1>2

\* The rollouter puts None.
LEMMA NoneFresh == ASSUME SampleInv, FreshInv, FinishRollout PROVE FreshInv'
<1> USE DEF mqVars, taskVars, feedVars, pauseVars, trainVars
<1>n. TypeOK /\ PlaceInv /\ DistinctInv /\ EndInv /\ StaleInv /\ DropInv /\ MarkerInv
  BY DEF SampleInv, TypeInv, FreshInv
<1>1. /\ PutSample(EndMarker) /\ pp' = "finished" /\ pp \in {"end", "crashed"}
      /\ UNCHANGED <<running, failed, staleness, resets>>
  BY DEF FinishRollout
<1>2. EndMarker \notin Entries /\ EndMarker \in Nat
  BY <1>n, <1>1 DEF EndInv, EndMarker
<1>3. Decided /\ InHand' \subseteq InHand /\ running' = running \ {EndMarker}
  <2>1. EndMarker \notin running
    BY <1>n, Numbers DEF PlaceInv, EndMarker
  <2> QED
    BY <1>1, <2>1 DEF Decided, InHand
<1>4. Len(queue) = MaxQueueSize => queue[1] # EndMarker
  <2>1. Len(queue) = MaxQueueSize => 1 \in 1..Len(queue)
    BY <1>n, Numbers
  <2> QED
    BY <1>2, <2>1 DEF Entries
<1>5. StaleInv' /\ DropInv' /\ (EndMarker \notin dropped => EndMarker \notin dropped')
  BY <1>n, <1>1, <1>2, <1>3, <1>4, PutCount
<1>6. MarkerInv'
  BY <1>n, <1>5, NoneMarker DEF MarkerInv
<1> QED
  BY <1>5, <1>6 DEF FreshInv

\* The trainer takes samples, trains and ends.
LEMMA TrainerFresh ==
  ASSUME SampleInv, FreshInv, GetOneSample \/ TrainStep \/ EndOfTraining
  PROVE  FreshInv'
<1> USE DEF mqVars, taskVars, feedVars, pauseVars
<1>n. TypeOK /\ MqTypeOK /\ DistinctInv /\ StaleInv /\ DropInv /\ MarkerInv
  BY DEF SampleInv, TypeInv, FreshInv, TypeOK
<1>1. UNCHANGED <<running, ended, failed, taken, pp, staleness, resets, dropped>>
  BY DEF GetOneSample, TrainStep, EndOfTraining, GetSample, ClearQueue
<1>2. InHand' = InHand /\ Active' = Active /\ Decided' = Decided
  BY <1>1 DEF InHand, Active, Decided
<1>3. Queued' \subseteq Queued
  <2>1. CASE GetOneSample
    <3>1. GetSample
      BY <2>1 DEF GetOneSample
    <3>2. Entries' \subseteq Entries
      BY <1>n, <3>1, GetEntries DEF DistinctInv
    <3>3. queue \in Seq(Nat) /\ queue' \in Seq(Nat)
      BY <1>n, <3>1, GetEffect DEF MqTypeOK
    <3>4. Queued' = Entries' \ {EndMarker}
      BY <3>3 DEF Queued, Entries
    <3>5. Queued = Entries \ {EndMarker}
      BY <3>3, QueuedEntries
    <3> QED
      BY <3>2, <3>4, <3>5
  <2>2. CASE TrainStep
    BY <2>2 DEF TrainStep, Queued
  <2>3. CASE EndOfTraining
    BY <2>3, EmptyQueue DEF EndOfTraining, ClearQueue
  <2> QED
    BY <2>1, <2>2, <2>3
<1>4. Accounted' \subseteq Accounted
  BY <1>1, <1>2, <1>3 DEF Accounted, Outstanding
<1>5. StaleInv' /\ DropInv'
  BY <1>n, <1>1, <1>2, <1>4, ShrinkKeeps
<1>6. MarkerInv'
  <2>1. CASE GetOneSample
    BY <1>n, <2>1, GetMarker
  <2>2. CASE TrainStep \/ EndOfTraining
    <3>1. queue' = queue \/ queue' = <<>>
      BY <2>2 DEF TrainStep, EndOfTraining, ClearQueue
    <3> QED
      BY <1>n, <1>1, <1>2, <3>1, QuietMarker
  <2> QED
    BY <2>1, <2>2
<1> QED
  BY <1>5, <1>6 DEF FreshInv

\* The processor takes, submits and reaps.
LEMMA ProcessorFresh ==
  ASSUME SampleInv, FreshInv, TakeSample \/ SubmitSample \/ DrainReap \/ ReapInLock
  PROVE  FreshInv'
<1> USE DEF mqVars, taskVars, feedVars, pauseVars, trainVars
<1>n. StaleInv /\ DropInv /\ MarkerInv
  BY DEF FreshInv
<1>1. CASE TakeSample
  <2>1. UNCHANGED <<queue, dropped, running, ended, failed>> /\ pp' # "crashed"
    BY <1>1 DEF TakeSample
  <2>2. Active' = Active
    BY <2>1 DEF Active
  <2>3. MarkerInv'
    BY <1>n, <2>1, <2>2, QuietMarker
  <2> QED
    BY <1>1, <1>n, <2>3, TakeCount DEF FreshInv
<1>2. CASE SubmitSample
  <2>1. /\ pp = "slot" /\ running' = running \cup {taken} /\ pp' = "ask"
        /\ UNCHANGED <<queue, dropped, failed, taken, staleness, resets>>
    BY <1>2 DEF SubmitSample
  <2>2. Accounted' \subseteq Accounted /\ ~ Decided'
    BY <2>1 DEF Accounted, Outstanding, InHand, Queued, Decided
  <2>3. StaleInv' /\ DropInv'
    BY <1>n, <2>1, <2>2, ShrinkKeeps
  <2> QED
    BY <1>2, <1>n, <2>3, SubmitMarker DEF FreshInv
<1>3. CASE DrainReap \/ ReapInLock
  BY <1>3, <1>n, ReapCount, ReapMarker DEF FreshInv
<1> QED
  BY <1>1, <1>2, <1>3

\* The count and the place of None after every step.
LEMMA FreshNext == SampleInv /\ FreshInv /\ [Next]_vars => FreshInv'
BY StepCases, ControlFresh, ProcessorFresh, NoneFresh, TrainerFresh, CrashFresh, TaskFresh

\* Freshness control holds for every queue size, batch size, interval and concurrency: the
\* samples ahead of the trainer exceed max_required_samples by at most the one in the
\* processor's hand that a reset_staleness cannot see.
THEOREM AheadIsBounded == Spec => []OutstandingBound
<1>1. SampleInv /\ FreshInv => OutstandingBound
  <2> SUFFICES ASSUME SampleInv, FreshInv PROVE OutstandingBound
    OBVIOUS
  <2>1. IsFiniteSet(Accounted) /\ Outstanding \subseteq Accounted
    BY Counted DEF SampleInv, Accounted
  <2>2. Cardinality(Outstanding) <= Cardinality(Accounted) /\ Cardinality(Outstanding) \in Nat
        /\ Cardinality(Accounted) \in Nat
    BY <2>1, Parts
  <2>3. Cardinality(Accounted) <= MaxQueueSize + 1 /\ MaxQueueSize \in Nat
    BY QueueAssumption DEF FreshInv, StaleInv
  <2> QED
    BY <2>2, <2>3 DEF OutstandingBound
<1> QED
  BY <1>1, SampleInit, SampleNext, FreshInit, FreshNext, PTL DEF Spec

\* The full queue drops no more samples than there were calls of reset_staleness, and
\* never the None that ends the trainer's loop.
THEOREM DropsAreBounded == Spec => []DropsBound
<1>1. FreshInv => DropsBound
  BY DEF FreshInv, DropInv, MarkerInv, DropsBound
<1> QED
  BY <1>1, SampleInit, SampleNext, FreshInit, FreshNext, PTL DEF Spec

-----------------------------------------------------------------------------
(* Rollouter and trainer do not wait for one another. *)

\* The samples the trainer took since the last reset.
Consumed == (local - 1) * RequiredSamples + Cardinality(got)

\* The processor may still take samples, and the trainer is between two resets.
Between == pp \notin {"end", "crashed", "finished"} /\ tp \in {"get", "train", "save"}

\* What staleness_samples counts is on its way, was consumed since the reset, or is one of
\* the finished tasks the reset counted a second time; or the queue alone leads to the next reset.
CountInv ==
  /\ tp = "train" => Cardinality(got) = RequiredSamples
  /\ tp = "final" => pp = "finished"
  /\ Between => \/ staleness <= Cardinality(Accounted) + Consumed + doubled
                \/ Len(queue) + Consumed >= PerVersion

\* The numbers of CountInv.
LEMMA CountNumbers ==
  ASSUME TypeInv
  PROVE  /\ Cardinality(Accounted) \in Nat /\ Cardinality(got) \in Nat /\ IsFiniteSet(got)
         /\ staleness \in Nat /\ Consumed \in Nat /\ Len(queue) \in Nat /\ PerVersion \in Nat
         /\ doubled \in Nat /\ MaxQueueSize \in Nat /\ PerVersion <= MaxQueueSize
         /\ local \in 1..SyncSteps /\ SyncSteps \in Nat /\ RequiredSamples \in Nat \ {0}
<1>1. TypeOK
  BY DEF TypeInv
<1>2. /\ staleness \in Nat /\ Len(queue) \in Nat /\ doubled \in Nat /\ MaxQueueSize \in Nat
      /\ local \in 1..SyncSteps /\ SyncSteps \in Nat /\ RequiredSamples \in Nat \ {0}
  BY <1>1, Numbers DEF TypeOK
<1>3. Cardinality(got) \in Nat /\ IsFiniteSet(got)
  <2>1. 1..taken \subseteq 0..taken /\ taken \in Nat
    BY <1>1, Numbers
  <2>2. got \in SUBSET (0..taken)
    BY <1>1, <2>1 DEF TypeOK
  <2> QED
    BY <2>1, <2>2, BoundedFinite
<1>4. (local - 1) * RequiredSamples \in Nat
  <2>1. local - 1 \in Nat
    BY <1>2
  <2> QED
    BY <1>2, <2>1
<1>5. Consumed \in Nat
  BY <1>3, <1>4 DEF Consumed
<1>6. PerVersion \in Nat /\ PerVersion <= MaxQueueSize
  BY <1>2, FullyAsyncAssumption DEF PerVersion
<1> QED
  BY <1>2, <1>3, <1>5, <1>6, Counted

\* Steps that neither count nor consume.
LEMMA CountQuiet ==
  ASSUME SampleInv, CountInv, Accounted' = Accounted, UNCHANGED <<staleness, local, got, doubled>>,
         Len(queue') \in Nat, Len(queue') >= Len(queue), Between' => Between,
         tp' = "train" => tp = "train", tp' = "final" => tp = "final" /\ pp' = pp
  PROVE  CountInv'
<1>1. Consumed' = Consumed
  BY DEF Consumed
<1>2. Consumed \in Nat /\ Len(queue) \in Nat /\ PerVersion \in Nat
  BY CountNumbers DEF SampleInv
<1>3. Len(queue) + Consumed >= PerVersion => Len(queue') + Consumed >= PerVersion
  BY <1>2
<1> QED
  BY <1>1, <1>3 DEF CountInv

\* A sample in the processor's hand is on its way.
LEMMA CountTake == ASSUME SampleInv, CountInv, TakeSample PROVE CountInv'
<1> USE DEF mqVars, taskVars, feedVars, pauseVars, trainVars
<1>n. TypeInv /\ TypeOK /\ PlaceInv
  BY DEF SampleInv, TypeInv
<1>1. /\ pp = "take" /\ taken' = taken + 1 /\ staleness' = staleness + 1
      /\ pp' = (IF taken' > last THEN "end" ELSE "slot")
      /\ UNCHANGED <<queue, running, failed, local, got, tp, doubled>>
  BY DEF TakeSample
<1>2. Consumed' = Consumed
  BY <1>1 DEF Consumed
<1>3. CASE pp' = "end"
  BY <1>1, <1>3 DEF CountInv, Between
<1>4. CASE pp' = "slot"
  <2>1. Accounted' = Accounted \cup {taken'}
    BY <1>1, <1>4 DEF Accounted, Outstanding, InHand, Queued
  <2>2. taken' \notin Accounted
    <3>1. taken' \notin 1..Reached
      BY <1>1, <1>n, Numbers
    <3> QED
      BY <1>1, <1>n, <3>1 DEF Accounted, Outstanding, InHand, PlaceInv
  <2>3. Cardinality(Accounted') = Cardinality(Accounted) + 1
    BY <1>n, <2>1, <2>2, Counted, FS_AddElement
  <2>4. Between' => Between
    BY <1>1 DEF Between
  <2>5. staleness <= Cardinality(Accounted) + Consumed + doubled
          => staleness' <= Cardinality(Accounted') + Consumed + doubled
    BY <1>1, <1>n, <2>3, CountNumbers
  <2> QED
    BY <1>1, <1>2, <2>4, <2>5 DEF CountInv
<1> QED
  BY <1>1, <1>3, <1>4

\* A reset counts the tasks and the queue.
LEMMA CountReset == ASSUME SampleInv, FreshInv, CountInv, ResetEnd PROVE CountInv'
<1> USE DEF mqVars, taskVars, feedVars, pauseVars
<1>n. TypeInv /\ TypeOK /\ DistinctInv /\ EndInv
  BY DEF SampleInv, TypeInv
<1>1. /\ staleness' = Cardinality(Active) + Len(queue) /\ tp' \in {"save", "end", "get"}
      /\ doubled' = Cardinality(ended)
      /\ UNCHANGED <<queue, running, failed, taken, local, got, pp>>
  BY DEF ResetEnd, Recount, GetQueueSize
<1>2. Accounted' = Accounted /\ Consumed' = Consumed
  BY <1>1 DEF Accounted, Outstanding, InHand, Queued, Consumed
<1>3. Between' => staleness' <= Cardinality(Accounted) + Consumed + doubled'
  <2> SUFFICES ASSUME Between' PROVE staleness' <= Cardinality(Accounted) + Consumed + doubled'
    OBVIOUS
  <2> DEFINE R == running \cup failed
  <2>1. EndMarker \notin Entries
    BY <1>1, <1>n DEF Between, EndInv
  <2>2. queue \in Seq(Nat)
    BY <1>n, Numbers
  <2>3. Queued = Entries /\ Cardinality(Entries) = Len(queue)
    BY <1>n, <2>1, <2>2, QueuedEntries, EntriesCount DEF DistinctInv
  <2>4. /\ IsFiniteSet(Accounted) /\ IsFiniteSet(Active) /\ IsFiniteSet(Queued)
        /\ R \cup Queued \subseteq Accounted /\ R \cap Queued = {}
        /\ R \subseteq Active /\ ended \subseteq Active /\ Active = R \cup ended
    BY <1>n, Counted DEF Accounted, Outstanding, Active, DistinctInv
  <2> HIDE DEF R
  <2>5. IsFiniteSet(R) /\ IsFiniteSet(ended) /\ Cardinality(R) \in Nat /\ Cardinality(ended) \in Nat
    BY <2>4, Parts
  <2>6. Cardinality(R) + Cardinality(Queued) <= Cardinality(Accounted)
    <3>1. Cardinality(R \cup Queued) = Cardinality(R) + Cardinality(Queued) - Cardinality({})
      BY <2>4, <2>5, FS_Union
    <3>2. Cardinality(R \cup Queued) <= Cardinality(Accounted)
      BY <2>4, Parts
    <3>3. Cardinality({}) = 0 /\ Cardinality(Queued) \in Nat
      BY <2>4, FS_EmptySet, FS_CardinalityType
    <3> QED
      BY <2>5, <3>1, <3>2, <3>3
  <2>7. Cardinality(Active) <= Cardinality(R) + Cardinality(ended)
    <3>1. Cardinality(R \cup ended) = Cardinality(R) + Cardinality(ended) - Cardinality(R \cap ended)
      BY <2>5, FS_Union
    <3>2. Cardinality(R \cap ended) \in Nat
      BY <2>5, Parts
    <3> QED
      BY <2>4, <2>5, <3>1, <3>2
  <2>8. Cardinality(Active) \in Nat /\ Cardinality(Queued) = Len(queue)
    BY <2>3, <2>4, FS_CardinalityType
  <2>9. PICK a \in Nat, r \in Nat, e \in Nat, c \in Nat, m \in Nat, q \in Nat :
          /\ a = Cardinality(Active) /\ r = Cardinality(R) /\ e = Cardinality(ended)
          /\ c = Cardinality(Accounted) /\ m = Consumed /\ q = Len(queue)
    BY <1>n, <2>5, <2>8, CountNumbers
  <2>10. a + q <= c + m + e
    <3>1. a <= r + e
      BY <2>7, <2>9, Zenon
    <3>2. r + q <= c
      BY <2>6, <2>8, <2>9, Zenon
    <3> QED
      BY <3>1, <3>2
  <2> QED
    BY <1>1, <2>9, <2>10
<1> QED
  BY <1>1, <1>2, <1>3 DEF CountInv

\* The trainer consumes what it takes from the queue.
LEMMA CountGet == ASSUME SampleInv, CountInv, GetOneSample PROVE CountInv'
<1> USE DEF taskVars, feedVars, pauseVars
<1>n. TypeInv /\ TypeOK /\ MqTypeOK /\ DistinctInv /\ EndInv /\ PlaceInv
  BY DEF SampleInv, TypeInv, TypeOK
<1>1. /\ tp = "get" /\ GetSample
      /\ UNCHANGED <<running, failed, taken, staleness, doubled, local, pp>>
  BY DEF GetOneSample
<1>2. /\ Len(queue) \in Nat /\ Len(queue) > 0 /\ Len(queue') = Len(queue) - 1
      /\ queue' \in Seq(Nat) /\ queue \in Seq(Nat) /\ dropped' = dropped
  BY <1>1, <1>n, GetEffect DEF MqTypeOK
<1>3. queue[1] \in Entries /\ Head(queue) = queue[1] /\ Entries' = Entries \ {queue[1]}
  BY <1>1, <1>n, GetEntries DEF DistinctInv
<1>4. CASE Head(queue) = EndMarker
  <2>1. tp' = "final" /\ pp' = "finished"
    BY <1>1, <1>3, <1>4, <1>n DEF GetOneSample, EndInv
  <2> QED
    BY <2>1 DEF CountInv, Between
<1>5. CASE Head(queue) # EndMarker
  <2>1. /\ got' = got \cup {Head(queue)}
        /\ tp' = (IF Cardinality(got') = RequiredSamples THEN "train" ELSE "get")
    BY <1>5 DEF GetOneSample
  <2>2. Queued = Entries \ {EndMarker}
    BY <1>2, QueuedEntries
  <2>3. Queued' = Entries' \ {EndMarker}
    BY <1>2 DEF Queued, Entries
  <2>4. queue[1] \in Queued /\ Queued' = Queued \ {queue[1]}
    BY <1>3, <1>5, <2>2, <2>3
  <2>5. queue[1] \notin got /\ queue[1] \notin running /\ queue[1] \notin failed /\ queue[1] \notin InHand
    BY <1>n, <2>4 DEF DistinctInv, InHand
  <2>6. Cardinality(got') = Cardinality(got) + 1
    BY <1>3, <1>n, <2>1, <2>5, CountNumbers, FS_AddElement
  <2>7. InHand' = InHand
    BY <1>1 DEF InHand
  <2>8. Accounted' = Accounted \ {queue[1]} /\ queue[1] \in Accounted
    BY <1>1, <2>4, <2>5, <2>7 DEF Accounted, Outstanding
  <2>9. Cardinality(Accounted') = Cardinality(Accounted) - 1
    BY <1>n, <2>8, Counted, FS_RemoveElement
  <2> DEFINE b == (local - 1) * RequiredSamples
  <2>10. Consumed = b + Cardinality(got) /\ Consumed' = b + Cardinality(got')
    BY <1>1 DEF Consumed
  <2>11. b \in Int /\ Consumed' = Consumed + 1
    <3>1. b \in Int
      <4>1. local - 1 \in Int /\ RequiredSamples \in Int
        BY <1>n, CountNumbers
      <4> QED
        BY <4>1
    <3> HIDE DEF b
    <3>2. Cardinality(got) \in Nat
      BY <1>n, CountNumbers
    <3> QED
      BY <2>6, <2>10, <3>1, <3>2
  <2> HIDE DEF b
  <2>12. Between' => Between
    BY <1>1 DEF Between
  <2>13. /\ staleness <= Cardinality(Accounted) + Consumed + doubled
              => staleness <= Cardinality(Accounted') + Consumed' + doubled
         /\ Len(queue) + Consumed >= PerVersion => Len(queue') + Consumed' >= PerVersion
    <3> DEFINE c == Cardinality(Accounted)
               d == Cardinality(Accounted')
               m == Consumed
               n == Consumed'
    <3>1. /\ c \in Nat /\ m \in Nat /\ staleness \in Nat /\ PerVersion \in Nat /\ doubled \in Nat
          /\ d = c - 1 /\ n = m + 1 /\ Len(queue) \in Nat /\ Len(queue') = Len(queue) - 1
      BY <1>2, <1>n, <2>9, <2>11, CountNumbers
    <3> HIDE DEF c, d, m, n
    <3>2. /\ staleness <= c + m + doubled => staleness <= d + n + doubled
          /\ Len(queue) + m >= PerVersion => Len(queue') + n >= PerVersion
      BY <3>1
    <3> QED
      BY <3>2 DEF c, d, m, n
  <2>14. tp' = "train" => Cardinality(got') = RequiredSamples
    BY <2>1
  <2>15. tp' # "final"
    BY <2>1
  <2> QED
    BY <1>1, <2>12, <2>13, <2>14, <2>15 DEF CountInv
<1> QED
  BY <1>4, <1>5

\* A local update turns the batch into one more local step.
LEMMA CountTrain == ASSUME SampleInv, CountInv, TrainStep PROVE CountInv'
<1> USE DEF mqVars, taskVars, feedVars, pauseVars
<1>n. TypeInv
  BY DEF SampleInv
<1>1. /\ tp = "train" /\ got' = {} /\ UNCHANGED <<queue, running, failed, taken, staleness, doubled, pp>>
      /\ tp' \in {"save", "get", "sync"}
      /\ tp' # "sync" => local' = local + 1
  BY DEF TrainStep, LocalUpdate
<1>2. Accounted' = Accounted
  BY <1>1 DEF Accounted, Outstanding, InHand, Queued
<1>3. Cardinality(got) = RequiredSamples
  BY <1>1 DEF CountInv
<1>4. Cardinality(got') = 0
  BY <1>1, FS_EmptySet
<1>5. tp' # "sync" => Consumed' = Consumed
  <2> SUFFICES ASSUME tp' # "sync" PROVE Consumed' = Consumed
    OBVIOUS
  <2>0. local \in Int /\ RequiredSamples \in Int
    BY <1>n, CountNumbers
  <2>1. Consumed' = (local' - 1) * RequiredSamples + Cardinality(got')
    BY DEF Consumed
  <2>2. local' - 1 = local
    BY <1>1, <2>0
  <2>3. Consumed' = local * RequiredSamples
    <3>1. Consumed' = local * RequiredSamples + Cardinality(got')
      BY <2>1, <2>2, Zenon
    <3>2. local * RequiredSamples \in Int
      BY <2>0
    <3> QED
      BY <1>4, <3>1, <3>2
  <2>4. Consumed = (local - 1) * RequiredSamples + RequiredSamples
    BY <1>3 DEF Consumed
  <2>5. (local - 1) * RequiredSamples + RequiredSamples = local * RequiredSamples
    BY <2>0
  <2> QED
    BY <2>3, <2>4, <2>5, Zenon
<1>6. Between' => Between /\ tp' # "sync"
  BY <1>1 DEF Between
<1> QED
  BY <1>1, <1>2, <1>5, <1>6 DEF CountInv

\* A task's put keeps its sample on its way, or leaves a full queue.
LEMMA CountFinish ==
  ASSUME SampleInv, CountInv, NEW s \in running, FinishSample(s)
  PROVE  CountInv'
<1> USE DEF taskVars, feedVars, pauseVars, trainVars
<1>n. TypeInv /\ TypeOK /\ MqTypeOK /\ PlaceInv /\ DistinctInv
  BY DEF SampleInv, TypeInv, TypeOK
<1>1. /\ PutSample(s) /\ running' = running \ {s}
      /\ UNCHANGED <<failed, taken, staleness, doubled, local, got, tp, pp>>
  BY DEF FinishSample
<1>2. s \in Nat /\ s # EndMarker
  BY <1>n, Numbers DEF PlaceInv, EndMarker
<1>3. queue \in Seq(Nat) /\ queue' \in Seq(Nat) /\ Len(queue') \in Nat
  BY <1>1, <1>2, <1>n, PutEffect DEF MqTypeOK
<1>4. Queued = Entries \ {EndMarker}
  BY <1>3, QueuedEntries
<1>5. Queued' = Entries' \ {EndMarker}
  BY <1>3 DEF Queued, Entries
<1>6. s \notin Entries
  BY <1>2, <1>4, <1>n DEF DistinctInv
<1>7. Consumed' = Consumed /\ Between' = Between
  BY <1>1 DEF Consumed, Between
<1>8. CASE Len(queue) = MaxQueueSize
  <2>1. Len(queue') = MaxQueueSize
    BY <1>1, <1>2, <1>8, <1>n, PutEffect
  <2>2. Len(queue') + Consumed >= PerVersion
    BY <1>n, <2>1, CountNumbers
  <2> QED
    BY <1>1, <1>7, <2>2 DEF CountInv
<1>9. CASE Len(queue) # MaxQueueSize
  <2>1. Entries' = Entries \cup {s}
    BY <1>1, <1>2, <1>6, <1>9, <1>n, PutEntries DEF DistinctInv
  <2>2. Len(queue') = Len(queue) + 1
    BY <1>1, <1>2, <1>9, <1>n, PutEffect
  <2>3. Queued' = Queued \cup {s}
    BY <1>2, <1>4, <1>5, <2>1
  <2>4. Accounted' = Accounted
    BY <1>1, <2>3 DEF Accounted, Outstanding, InHand
  <2>5. Len(queue') >= Len(queue)
    BY <1>n, <2>2, CountNumbers
  <2> QED
    BY <1>1, <1>3, <1>7, <2>4, <2>5, CountQuiet
<1> QED
  BY <1>8, <1>9

\* The other steps of the rollouter and of the trainer.
LEMMA CountOthers ==
  ASSUME SampleInv, CountInv,
         \/ Control /\ ~ ResetEnd
         \/ SubmitSample \/ DrainReap \/ ReapInLock \/ FinishRollout \/ EndOfTraining
         \/ \E s \in running : FailSample(s)
  PROVE  CountInv'
<1> USE DEF mqVars, taskVars, feedVars, pauseVars, trainVars
<1>n. TypeInv /\ TypeOK /\ LockInv /\ DistinctInv
  BY DEF SampleInv, TypeInv
<1>0. Len(queue) \in Nat /\ Len(queue) >= Len(queue)
  BY <1>n, CountNumbers
<1>1. CASE Control /\ ~ ResetEnd
  <2>1. /\ UNCHANGED <<queue, running, failed, taken, got>>
        /\ pp' = "slot" <=> pp = "slot"
    BY <1>1, ControlStep
  <2>2. UNCHANGED <<staleness, doubled, local>>
    BY <1>1 DEF Control, FeedSamples, AskQueue, DecidePause, Pause, DrainWake, DrainResume,
       WaitForTask, MonitorAsk, MonitorDecide, MonitorResume, ResetBegin, FinalSync,
       SaveCheckpoint, Done, vars
  <2>3. \/ tp' = tp
        \/ tp = "save" /\ tp' \in {"get", "end"}
        \/ tp = "sync" /\ tp' = "reset"
        \/ tp = "final" /\ tp' \in {"sync", "save", "end"} /\ pp' = pp
    BY <1>1 DEF Control, FeedSamples, AskQueue, DecidePause, Pause, DrainWake, DrainResume,
       WaitForTask, MonitorAsk, MonitorDecide, MonitorResume, ResetBegin, FinalSync,
       SaveCheckpoint, Done, vars
  <2>4. pp \in {"end", "crashed", "finished"} => pp' = pp
    BY <1>1 DEF Control, FeedSamples, AskQueue, DecidePause, Pause, DrainWake, DrainResume,
       WaitForTask, MonitorAsk, MonitorDecide, MonitorResume, ResetBegin, FinalSync,
       SaveCheckpoint, Done, vars
  <2>5. Accounted' = Accounted
    BY <2>1 DEF Accounted, Outstanding, InHand, Queued
  <2>6. tp = "final" => pp = "finished"
    BY DEF CountInv
  <2>7. Between' => Between
    BY <2>3, <2>4, <2>6 DEF Between
  <2> QED
    BY <1>0, <2>1, <2>2, <2>3, <2>4, <2>5, <2>6, <2>7, CountQuiet
<1>2. CASE SubmitSample
  <2>1. /\ pp = "slot" /\ running' = running \cup {taken} /\ pp' = "ask"
        /\ UNCHANGED <<queue, failed, taken, staleness, doubled, local, got, tp>>
    BY <1>2 DEF SubmitSample
  <2>2. Accounted' = Accounted
    BY <2>1 DEF Accounted, Outstanding, InHand, Queued
  <2>3. (Between' => Between) /\ tp # "final"
    BY <2>1 DEF Between, CountInv
  <2> QED
    BY <1>0, <2>1, <2>2, <2>3, CountQuiet
<1>3. CASE DrainReap \/ ReapInLock
  <2>1. /\ UNCHANGED <<queue, running, taken, staleness, doubled, local, got, tp>>
        /\ pp' = "slot" => pp = "slot"
        /\ pp # "finished"
        /\ pp' # "crashed" => failed' = failed /\ (pp = "slot" => pp' = "slot") /\ (pp = "end" => pp' = "end")
    BY <1>3, <1>n DEF DrainReap, ReapInLock, LockInv
  <2>2. tp # "final"
    BY <2>1 DEF CountInv
  <2>3. CASE pp' = "crashed"
    BY <2>1, <2>2, <2>3 DEF CountInv, Between
  <2>4. CASE pp' # "crashed"
    <3>1. Accounted' = Accounted
      BY <2>1, <2>4 DEF Accounted, Outstanding, InHand, Queued
    <3>2. Between' => Between
      BY <1>3, <1>n, <2>1, <2>4 DEF Between, DrainReap, ReapInLock, LockInv
    <3> QED
      BY <1>0, <2>1, <2>2, <3>1, <3>2, CountQuiet
  <2> QED
    BY <2>3, <2>4
<1>4. CASE FinishRollout
  <2>1. pp' = "finished" /\ tp' = tp /\ got' = got
    BY <1>4 DEF FinishRollout
  <2> QED
    BY <2>1 DEF CountInv, Between
<1>5. CASE EndOfTraining
  BY <1>5 DEF EndOfTraining, CountInv, Between
<1>6. CASE \E s \in running : FailSample(s)
  <2> PICK s \in running : FailSample(s)
    BY <1>6
  <2>1. /\ running' = running \ {s} /\ failed' = failed \cup {s}
        /\ UNCHANGED <<queue, taken, staleness, doubled, local, got, tp, pp>>
    BY DEF FailSample
  <2>2. Accounted' = Accounted
    BY <2>1 DEF Accounted, Outstanding, InHand, Queued
  <2>3. Between' => Between
    BY <2>1 DEF Between
  <2> QED
    BY <1>0, <2>1, <2>2, <2>3, CountQuiet
<1> QED
  BY <1>1, <1>2, <1>3, <1>4, <1>5, <1>6

\* A restart counts from zero.
LEMMA CountCrash == ASSUME SampleInv, CrashAndLoad PROVE CountInv'
<1>1. /\ staleness' = 0 /\ tp' = "get" /\ got' = {} /\ local' = 1
      /\ running' = {} /\ failed' = {} /\ queue' = <<>> /\ pp' = "ask" /\ doubled' = 0
  BY DEF CrashAndLoad
<1>2. Accounted' = {}
  BY <1>1, EmptyQueue DEF Accounted, Outstanding, InHand
<1>3. Cardinality({}) = 0 /\ RequiredSamples \in Nat
  BY FS_EmptySet, FullyAsyncAssumption, QueueAssumption
<1>4. Consumed' = 0
  <2>1. Consumed' = (1 - 1) * RequiredSamples + Cardinality({})
    BY <1>1 DEF Consumed
  <2> QED
    BY <1>3, <2>1
<1>5. staleness' <= Cardinality(Accounted') + Consumed' + doubled'
  BY <1>1, <1>2, <1>3, <1>4
<1> QED
  BY <1>1, <1>5 DEF CountInv

\* CountInv at the start and after every step.
LEMMA CountInit == Init => CountInv
<1> SUFFICES ASSUME Init PROVE CountInv
  OBVIOUS
<1>1. staleness = 0 /\ tp = "get"
  BY DEF Init
<1>2. /\ Cardinality(Accounted) \in Nat /\ Consumed \in Nat /\ doubled \in Nat
  BY SampleInit, CountNumbers DEF SampleInv
<1>3. staleness <= Cardinality(Accounted) + Consumed + doubled
  BY <1>1, <1>2
<1> QED
  BY <1>1, <1>3 DEF CountInv

\* Every step of rollouter, trainer and environment keeps the count of what is consumed and
\* what is on its way.
LEMMA CountNext == SampleInv /\ FreshInv /\ CountInv /\ [Next]_vars => CountInv'
BY StepCases, CountOthers, CountTake, CountReset, CountGet, CountTrain, CountFinish, CountCrash

\* Rollouter and trainer wait for one another (the rollouter paused with nothing in
\* progress, the trainer at an empty queue) only after a reset_staleness that counted more
\* finished tasks a second time than max_required_samples leaves beyond one version.
THEOREM NobodyWaits == Spec => []StuckByDoubleCount
<1>1. SampleInv /\ CountInv => StuckByDoubleCount
  <2> SUFFICES ASSUME SampleInv, CountInv, tp = "get", queue = <<>>, pp = "drain", Active = {},
                      staleness >= MaxQueueSize
               PROVE  doubled > MaxQueueSize - PerVersion
    BY DEF StuckByDoubleCount, Stuck
  <2>n. TypeInv /\ BatchInv
    BY DEF SampleInv, TypeInv
  <2>1. Accounted = {} /\ Len(queue) = 0
    BY DEF Accounted, Outstanding, InHand, Queued, Active
  <2>2. Cardinality(Accounted) = 0
    BY <2>1, FS_EmptySet
  <2>3. Consumed < PerVersion
    <3>1. /\ Cardinality(got) < RequiredSamples /\ Cardinality(got) \in Nat
          /\ local \in 1..SyncSteps /\ SyncSteps \in Nat /\ RequiredSamples \in Nat
      BY <2>n, CountNumbers DEF BatchInv
    <3> DEFINE a == local - 1
               b == SyncSteps - 1
    <3>2. a \in Nat /\ b \in Nat /\ a <= b
      BY <3>1
    <3>3. a * RequiredSamples <= b * RequiredSamples /\ a * RequiredSamples \in Nat
      <4> HIDE DEF a, b
      <4>1. (b - a) * RequiredSamples \in Nat
        BY <3>1, <3>2
      <4> QED
        BY <3>1, <3>2, <4>1
    <3>4. PerVersion = b * RequiredSamples + RequiredSamples
      BY <3>1 DEF PerVersion
    <3>5. Consumed = a * RequiredSamples + Cardinality(got)
      BY DEF Consumed
    <3>6. b * RequiredSamples \in Nat
      BY <3>1, <3>2
    <3> DEFINE x == a * RequiredSamples
               y == b * RequiredSamples
    <3> HIDE DEF x, y
    <3> QED
      BY <3>1, <3>3, <3>4, <3>5, <3>6 DEF x, y
  <2>4. \/ staleness <= 0 + Consumed + doubled
        \/ 0 + Consumed >= PerVersion
    BY <2>1, <2>2 DEF CountInv, Between
  <2> QED
    BY <2>3, <2>4, <2>n, CountNumbers
<1> QED
  BY <1>1, SampleInit, SampleNext, FreshInit, FreshNext, CountInit, CountNext, PTL DEF Spec
=============================================================================
