---------------------------- MODULE ReplayBuffer ----------------------------
(***************************************************************************)
(* The sampling rules of ReplayBuffer (trainer/ppo/v1/replay_buffer.py) as *)
(* operators on one metadata snapshot of the TransferQueue.                *)
(*                                                                         *)
(* A prompt group is an item of the dataloader stream, numbered in fetch   *)
(* order: the trainer gives every fetched item a fresh uuid, so the number *)
(* stands for the uid.  A trajectory key {uid}_{session}_{index} is the    *)
(* pair <<uid, session>>; the outputs of one session are put in one batch  *)
(* and are never told apart by the sampling rules.                         *)
(*                                                                         *)
(* A snapshot m (and the queue itself) is a record of                      *)
(*   status[u]   the status tag of prompt u, "absent" if u is not a key    *)
(*   born[u]     its global_steps tag, 0 if u is not a key                 *)
(*   traj[u][s]  the global_steps tag of trajectory <<u, s>>, 0 if none    *)
(***************************************************************************)
EXTENDS Integers, FiniteSets

CONSTANTS
  MaxItems,     \* bound on the dataloader items ever fetched
  Session,      \* session ids of a group, rollout.n of them
  Threshold,    \* trainer.v1.sampler.max_off_policy_threshold
  Strategy      \* trainer.v1.sampler.max_off_policy_strategy

ASSUME ItemsAssumption == MaxItems \in Nat

ASSUME SessionAssumption == IsFiniteSet(Session) /\ Session # {}

\* The two assertions of ReplayBuffer.__init__.
ASSUME ThresholdAssumption == Threshold \in Nat \ {0}

ASSUME StrategyAssumption == Strategy \in {"drop", "wait"}

Item == 1 .. MaxItems

Key == Item \X Session

Status == {"absent", "pending", "running", "finished", "failure"}

Meta == [status : [Item -> Status],
         born   : [Item -> Nat],
         traj   : [Item -> [Session -> Nat]]]

\* A TransferQueue partition with no key.
EmptyMeta == [status |-> [u \in Item |-> "absent"],
              born   |-> [u \in Item |-> 0],
              traj   |-> [u \in Item |-> [s \in Session |-> 0]]]

-----------------------------------------------------------------------------
(* What _sync_metadata_from_transfer_queue sorts the keys of a snapshot into. *)

Prompts(m) == {u \in Item : m.status[u] # "absent"}

InFlight(m) == {u \in Item : m.status[u] \in {"pending", "running"}}

\* Mutant: running groups count as terminal.
TerminalWhileRunning(m) == {u \in Item : m.status[u] \in {"running", "finished", "failure"}}

Terminal(m) == {u \in Item : m.status[u] \in {"finished", "failure"}}

\* Mutant: assumes that every session of a group has an output.
AllSessionKeys(m, S) == S \X Session

TrajectoryKeys(m, S) == {k \in S \X Session : m.traj[k[1]][k[2]] # 0}

\* The number of model versions a group fetched at step b spans at step g.
Span(g, b) == g - b + 1

-----------------------------------------------------------------------------
\* Mutant: the span of a group fetched in this step counts as 0.
SampleableOffByOne(g, m) ==
  IF Strategy # "drop"
  THEN Terminal(m)
  ELSE {u \in Terminal(m) : Span(g, m.born[u]) <= Threshold + 1}

\* Mutant: a group at the threshold counts as stale, so that every group is dropped.
SampleableStrict(g, m) ==
  IF Strategy # "drop"
  THEN Terminal(m)
  ELSE {u \in Terminal(m) : Span(g, m.born[u]) < Threshold}

SampleableTerminalKeys(g, m) ==
  IF Strategy # "drop"
  THEN Terminal(m)
  ELSE {u \in Terminal(m) : Span(g, m.born[u]) <= Threshold}

StaleKeys(g, m) == Terminal(m) \ SampleableTerminalKeys(g, m)

\* Mutant: waits only for groups beyond the threshold.
HasEnoughOffByOne(g, m, n) ==
  /\ Strategy = "wait" => \A u \in InFlight(m) : Span(g, m.born[u]) <= Threshold
  /\ Cardinality(SampleableTerminalKeys(g, m)) >= n

HasEnoughSamples(g, m, n) ==
  /\ Strategy = "wait" => \A u \in InFlight(m) : Span(g, m.born[u]) < Threshold
  /\ Cardinality(SampleableTerminalKeys(g, m)) >= n

\* sorted(..., key = global_steps)[:n]: ties are in the arbitrary order of a
\* Python set, so every choice of n groups that leaves no older one behind.
OldestFirst(g, m, n) ==
  {S \in SUBSET SampleableTerminalKeys(g, m) :
     /\ Cardinality(S) = n
     /\ \A u \in S, v \in SampleableTerminalKeys(g, m) \ S : m.born[u] <= m.born[v]}
=============================================================================
