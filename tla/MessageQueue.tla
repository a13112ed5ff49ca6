---------------------------- MODULE MessageQueue ----------------------------
(***************************************************************************)
(* MessageQueue (experimental/fully_async_policy/message_queue.py): the    *)
(* actor between the rollouter and the trainer.  Every method holds its    *)
(* lock from beginning to end, except for a get_sample that waits; that    *)
(* one checks again whenever it is woken, so it is a guard.                *)
(***************************************************************************)
EXTENDS Integers, Sequences, FiniteSets

CONSTANT MaxQueueSize  \* max_queue_size

ASSUME QueueAssumption == MaxQueueSize \in Nat \ {0}

VARIABLES
  queue,   \* self.queue: samples are positive numbers, in the order they were fed
  dropped  \* what put_sample removed from a full queue

mqVars == <<queue, dropped>>

EndMarker == 0  \* None

MqTypeOK ==
  /\ queue \in Seq(Nat) /\ Len(queue) <= MaxQueueSize
  /\ dropped \subseteq Nat

MqInit == queue = <<>> /\ dropped = {}

\* Mutant: a full queue refuses the sample.
PutRefused(x) ==
  /\ queue' = IF Len(queue) >= MaxQueueSize THEN queue ELSE Append(queue, x)
  /\ UNCHANGED dropped

\* put_sample: a full queue loses its oldest entry.
PutSample(x) ==
  IF Len(queue) >= MaxQueueSize
  THEN /\ queue' = Append(Tail(queue), x)
       /\ dropped' = dropped \cup {Head(queue)}
  ELSE /\ queue' = Append(queue, x)
       /\ UNCHANGED dropped

\* get_sample, of a queue that was not shut down.
GetSample ==
  /\ queue # <<>>
  /\ queue' = Tail(queue)
  /\ UNCHANGED dropped

GetQueueSize == Len(queue)

ClearQueue == queue' = <<>> /\ UNCHANGED dropped
=============================================================================
