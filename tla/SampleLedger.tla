---------------------------- MODULE SampleLedger ----------------------------
(***************************************************************************)
(* What the V1 trainer promises about the items of its dataloader,         *)
(* independently of workers, queues, polling and checkpoint files: every   *)
(* fetched item stays in the pool until it is taken whole into an update   *)
(* or, under the drop strategy only, discarded because it is too old; a    *)
(* taken item is trained once; a stored ledger is a copy of the ledger at  *)
(* one instant between two updates, and a recovery goes back to it.        *)
(***************************************************************************)
EXTENDS Integers, FiniteSets

CONSTANTS MaxItems, Threshold, Strategy, SampleBatch

VARIABLES
  next,      \* items fetched from the dataloader
  since,     \* since[u]: step at which pooled item u was submitted, 0 if not pooled
  taken,     \* items of the update in progress
  trained,   \* items the weights were trained on
  step,      \* training step
  resuming,  \* TRUE from a (re)start until training goes on
  stored     \* the ledger a recovery goes back to

ledgerVars == <<next, since, taken, trained, step, resuming, stored>>

Items == 1 .. MaxItems

Pool == {u \in Items : since[u] # 0}

Ledger == [next |-> next, since |-> since, trained |-> trained, step |-> step]

StartLedger == [next |-> 0, since |-> [u \in Items |-> 0], trained |-> {}, step |-> 0]

LedgerInit ==
  /\ next = 0 /\ since = [u \in Items |-> 0]
  /\ taken = {} /\ trained = {} /\ step = 0
  /\ resuming = TRUE
  /\ stored = StartLedger

\* Training starts or goes on after a recovery; pooled items may be submitted anew.
Resume ==
  /\ resuming
  /\ resuming' = FALSE
  /\ step' = step + 1
  /\ \E S \in SUBSET Pool : since' = [u \in Items |-> IF u \in S THEN step + 1 ELSE since[u]]
  /\ UNCHANGED <<next, taken, trained, stored>>

Fetch(n) ==
  /\ ~ resuming
  /\ next' = next + n /\ next + n <= MaxItems
  /\ since' = [u \in Items |-> IF u \in next + 1 .. next + n THEN step ELSE since[u]]
  /\ UNCHANGED <<taken, trained, step, resuming, stored>>

\* Items leave the pool untrained only under "drop" and only beyond the threshold.
Discard(S) ==
  /\ ~ resuming
  /\ Strategy = "drop"
  /\ S # {} /\ \A u \in S : step - since[u] + 1 > Threshold
  /\ since' = [u \in Items |-> IF u \in S THEN 0 ELSE since[u]]
  /\ UNCHANGED <<next, taken, trained, step, resuming, stored>>

Take(S) ==
  /\ ~ resuming
  /\ taken = {} /\ Cardinality(S) = SampleBatch
  /\ Strategy = "drop" => \A u \in S : step - since[u] + 1 <= Threshold
  /\ taken' = S
  /\ since' = [u \in Items |-> IF u \in S THEN 0 ELSE since[u]]
  /\ UNCHANGED <<next, trained, step, resuming, stored>>

Train ==
  /\ ~ resuming
  /\ taken # {} /\ taken \cap trained = {}
  /\ trained' = trained \cup taken
  /\ taken' = {}
  /\ UNCHANGED <<next, since, step, resuming, stored>>

Advance ==
  /\ ~ resuming
  /\ taken = {}
  /\ step' = step + 1
  /\ UNCHANGED <<next, since, taken, trained, resuming, stored>>

Store ==
  /\ ~ resuming
  /\ taken = {}
  /\ stored' = Ledger
  /\ UNCHANGED <<next, since, taken, trained, step, resuming>>

Recover ==
  /\ next' = stored.next /\ since' = stored.since
  /\ trained' = stored.trained /\ step' = stored.step
  /\ taken' = {}
  /\ resuming' = TRUE
  /\ UNCHANGED stored

LedgerNext ==
  \/ Resume
  \/ \E n \in 1 .. MaxItems : Fetch(n)
  \/ \E S \in SUBSET Pool : Discard(S) \/ Take(S)
  \/ Train
  \/ Advance
  \/ Store
  \/ Recover

LedgerSpec == LedgerInit /\ [][LedgerNext]_ledgerVars
=============================================================================
