------------------------------ MODULE Rollout -------------------------------
(***************************************************************************)
(* Generation under the separate asynchronous trainer: conversations of    *)
(* agent loops that resume when they are aborted                           *)
(* (FullyAsyncLLMServerClient), the load balancer that routes them, the    *)
(* standalone replicas whose weights are replaced after every step         *)
(* (CheckpointEngineManager), and the hybrid replicas that serve only      *)
(* while the trainer does not need their devices                           *)
(* (switch_to_rollout, switch_to_trainer).                                 *)
(*                                                                         *)
(* The trainer is one thread (pc).  Where it gathers a call to all its     *)
(* replicas, the call reaches them one by one in any order (todo).         *)
(***************************************************************************)
EXTENDS LoadBalancer

CONSTANTS
  Hybrid,         \* servers of llm_server_manager; the others are standalone
  Pausing,        \* servers whose abort pauses: vLLM >= 0.12, SGLang, TensorRT-LLM
  Faulty,         \* servers whose abort may raise
  ToolLoops,      \* conversations of ToolAgentLoop; the others are of SingleTurnAgentLoop
  MaxTurns,       \* bound on the turns of a conversation
  TotalSteps,     \* total_training_steps
  TestFreq        \* trainer.test_freq, 0 for never

ASSUME RolloutAssumption ==
  /\ Hybrid \subseteq Servers /\ Hybrid # {} /\ Servers \ Hybrid # {}
  /\ Pausing \subseteq Servers /\ Faulty \subseteq Servers /\ ToolLoops \subseteq Requests
  /\ MaxTurns \in Nat \ {0} /\ TotalSteps \in Nat \ {0} /\ TestFreq \in Nat

Standalone == Servers \ Hybrid

VARIABLES
  \* PPOTrainerSeparateAsync: program counter, replicas a gather has not reached yet,
  \* current_mode, global_steps; history: replicas on which an abort raised
  pc, todo, mode, step, botched,
  \* engines: generation paused, version of the weights in memory, reported global_steps
  paused, weights, version,
  \* conversations: where the client is, the server it acquired and whose release the
  \* balancer has not executed yet, the answer of the server, number of the turn
  at, held, answer, turn,
  \* min/max_global_steps of the turn (final_output) and of the trajectory (extra_fields)
  part, span,
  \* history: weights that generated the tokens of the attempt in progress and of the
  \* earlier ones, attempts on dirty servers left out
  fresh, gen

trainerVars == <<pc, todo, mode, step, botched>>
engineVars  == <<paused, weights, version>>
clientVars  == <<at, held, answer, turn, part, span, fresh, gen>>
vars == <<lbVars, trainerVars, engineVars, clientVars>>

\* Weights that were discarded or are being overwritten; a version not set yet.
NoWeights == -1
Unset == -1

Version == 0 .. TotalSteps
Span == [lo : Version \cup {Unset}, hi : Version \cup {Unset}]
UnsetSpan == [lo |-> Unset, hi |-> Unset]
NoAnswer == [stop |-> "none", steps |-> 0]

TypeOK ==
  /\ LbTypeOK
  /\ pc \in {"sample", "remove", "abort_hybrid", "sleep", "abort", "sync", "transfer",
             "resume", "reload", "resume_hybrid", "add", "step_end", "done"}
  /\ todo \in SUBSET Servers
  /\ mode \in {"trainer", "rollout"}
  /\ step \in 1 .. TotalSteps + 1
  /\ paused \in [Servers -> BOOLEAN]
  /\ weights \in [Servers -> Version \cup {NoWeights}]
  /\ version \in [Servers -> Version]
  /\ at \in [Requests -> {"idle", "routed", "serving", "answered", "sleeping", "done", "failed"}]
  /\ held \in [Requests -> Servers \cup {NoServer}]
  /\ answer \in [Requests -> [stop : {"none", "aborted", "completed"}, steps : Version]]
  /\ turn \in [Requests -> 1 .. MaxTurns]
  /\ part \in [Requests -> Span] /\ span \in [Requests -> Span]
  /\ fresh \in [Requests -> SUBSET (Version \cup {NoWeights})]
  /\ gen \in [Requests -> SUBSET (Version \cup {NoWeights})]
  /\ botched \in SUBSET Servers

\* After _setup and on_init_end: all replicas have the loaded weights and serve.
Init ==
  /\ LbInit(Servers)
  /\ pc = "sample" /\ todo = {} /\ mode = "rollout" /\ step = 1
  /\ paused = [s \in Servers |-> FALSE]
  /\ weights = [s \in Servers |-> 0]
  /\ version = [s \in Servers |-> 0]
  /\ at = [r \in Requests |-> "idle"]
  /\ held = [r \in Requests |-> NoServer]
  /\ answer = [r \in Requests |-> NoAnswer]
  /\ turn = [r \in Requests |-> 1]
  /\ part = [r \in Requests |-> UnsetSpan]
  /\ span = [r \in Requests |-> UnsetSpan]
  /\ fresh = [r \in Requests |-> {}] /\ gen = [r \in Requests |-> {}]
  /\ botched = {}

-----------------------------------------------------------------------------
(* Conversations: LLMServerClient.generate and FullyAsyncLLMServerClient.generate. *)

\* _acquire_server.  The calls of one caller to the balancer run in order, so the release
\* of the previous attempt comes first.
Acquire(r) ==
  /\ at[r] \in {"idle", "sleeping"} /\ held[r] = NoServer
  /\ \E s \in Servers : AcquireServer(r, s) /\ held' = [held EXCEPT ![r] = s]
  /\ at' = [at EXCEPT ![r] = "routed"]
  /\ UNCHANGED <<trainerVars, engineVars, answer, turn, part, span, fresh, gen>>

\* The engine takes the request.  One that is paused blocks new generate calls.
Arrive(r) ==
  /\ at[r] = "routed" /\ ~ paused[held[r]]
  /\ at' = [at EXCEPT ![r] = "serving"]
  /\ UNCHANGED <<lbVars, trainerVars, engineVars, held, answer, turn, part, span, fresh, gen>>

\* Requests that the engine of s works on.  A pause by itself does not stop them.
Running(s) == {r \in Requests : at[r] = "serving" /\ held[r] = s}

\* Servers that may work on a request while its weights are replaced: their abort does not
\* pause, or has raised.  No history is kept of the tokens they generate.
Dirty == (Servers \ Pausing) \cup botched

\* The engine generates tokens.
Generate(r) ==
  /\ r \in Running(held[r])
  /\ fresh' = [fresh EXCEPT ![r] = IF held[r] \in Dirty THEN {} ELSE @ \cup {weights[held[r]]}]
  /\ UNCHANGED <<lbVars, trainerVars, engineVars, at, held, answer, turn, part, span, gen>>

\* The last token; the answer carries the global_steps of the server.
Complete(r) ==
  /\ r \in Running(held[r])
  /\ fresh' = [fresh EXCEPT ![r] = {}]
  /\ gen' = [gen EXCEPT ![r] = @ \cup IF held[r] \in Dirty THEN {}
                                      ELSE fresh[r] \cup {weights[held[r]]}]
  /\ at' = [at EXCEPT ![r] = "answered"]
  /\ answer' = [answer EXCEPT ![r] = [stop |-> "completed", steps |-> version[held[r]]]]
  /\ UNCHANGED <<lbVars, trainerVars, engineVars, held, turn, part, span>>

\* server.generate raises: the finally clause sends the release, the session fails and its
\* trajectory with it.
ServerError(r) ==
  /\ at[r] \in {"routed", "serving"}
  /\ at' = [at EXCEPT ![r] = "failed"]
  /\ part' = [part EXCEPT ![r] = UnsetSpan] /\ span' = [span EXCEPT ![r] = UnsetSpan]
  /\ fresh' = [fresh EXCEPT ![r] = {}] /\ gen' = [gen EXCEPT ![r] = {}]
  /\ UNCHANGED <<lbVars, trainerVars, engineVars, held, answer, turn>>

\* Mutant: the version of the first attempt is reported for the whole turn.
FirstVersion(p, v) == IF p.lo = Unset THEN [lo |-> v, hi |-> v] ELSE p

\* min_global_steps is the version of the first attempt, max_global_steps of the last.
Merged(p, v) == [lo |-> IF p.lo = Unset THEN v ELSE p.lo, hi |-> v]

\* ToolAgentLoop: the first turn sets extra_fields, later turns only update the maximum,
\* if it is truthy.
Committed(t, p) ==
  IF t.lo = Unset THEN p
  ELSE [t EXCEPT !.hi = IF p.hi # 0 THEN p.hi ELSE @]

\* An aborted attempt is retried after a second; the release is on its way to the balancer.
Retry(r) ==
  /\ at[r] = "answered" /\ answer[r].stop = "aborted"
  /\ part' = [part EXCEPT ![r] = Merged(@, answer[r].steps)]
  /\ at' = [at EXCEPT ![r] = "sleeping"]
  /\ answer' = [answer EXCEPT ![r] = NoAnswer]
  /\ UNCHANGED <<lbVars, trainerVars, engineVars, held, turn, span, fresh, gen>>

\* The turn returns to the agent loop, which ends or goes on with another turn and a new
\* final_output.
Return(r) ==
  /\ at[r] = "answered" /\ answer[r].stop = "completed"
  /\ part' = [part EXCEPT ![r] = UnsetSpan]
  /\ span' = [span EXCEPT ![r] = Committed(@, Merged(part[r], answer[r].steps))]
  /\ \/ /\ at' = [at EXCEPT ![r] = "done"]
        /\ UNCHANGED turn
     \/ /\ r \in ToolLoops /\ turn[r] < MaxTurns
        /\ turn' = [turn EXCEPT ![r] = @ + 1]
        /\ at' = [at EXCEPT ![r] = "idle"]
  /\ answer' = [answer EXCEPT ![r] = NoAnswer]
  /\ UNCHANGED <<lbVars, trainerVars, engineVars, held, fresh, gen>>

\* The balancer executes the release that the client sent without waiting for it.
Release(r) ==
  /\ at[r] \in {"idle", "sleeping", "done", "failed"} /\ held[r] # NoServer
  /\ ReleaseServer(held[r])
  /\ held' = [held EXCEPT ![r] = NoServer]
  /\ UNCHANGED <<trainerVars, engineVars, at, answer, turn, part, span, fresh, gen>>

-----------------------------------------------------------------------------
(* PPOTrainerSeparateAsync. *)

\* A call of a gather has reached s; the trainer goes on when all replicas are done.
Gather(s, next, rest) ==
  /\ s \in todo
  /\ IF todo = {s} THEN pc' = next /\ todo' = rest ELSE UNCHANGED pc /\ todo' = todo \ {s}

\* A batch was sampled.  on_sample_begin never switches: should_switch_to_rollout is False.
OnSampleEnd ==
  /\ pc = "sample"
  /\ IF mode = "rollout" THEN pc' = "remove" /\ todo' = todo
                         ELSE pc' = "abort" /\ todo' = Standalone
  /\ UNCHANGED <<lbVars, mode, step, engineVars, clientVars, botched>>

RemoveReplicasFromBalancer ==
  /\ pc = "remove"
  /\ RemoveServers(Hybrid)
  /\ pc' = "abort_hybrid" /\ todo' = Hybrid
  /\ UNCHANGED <<mode, step, engineVars, clientVars, botched>>

\* The abort answers the requests A; the server reports its global_steps with them.
Abort(s, A) ==
  /\ at' = [r \in Requests |-> IF r \in A THEN "answered" ELSE at[r]]
  /\ answer' = [r \in Requests |-> IF r \in A THEN [stop |-> "aborted", steps |-> version[s]]
                                              ELSE answer[r]]
  /\ fresh' = [r \in Requests |-> IF r \in Running(s) THEN {} ELSE fresh[r]]
  /\ gen' = [r \in Requests |-> IF r \in A /\ s \notin Dirty THEN gen[r] \cup fresh[r] ELSE gen[r]]
  /\ UNCHANGED <<lbVars, mode, step, weights, version, held, turn, part, span>>

\* abort_all_requests answers what runs.  Where it pauses the engine, what comes later
\* waits; vLLM < 0.12 only aborts a snapshot, and what comes later runs.
AbortAll(s) ==
  /\ UNCHANGED botched
  /\ paused' = [paused EXCEPT ![s] = (s \in Pausing)]
  /\ Abort(s, Running(s))

\* The abort raises half way: it is logged, and the caller goes on as if all was aborted.
AbortRaises(s) ==
  /\ s \in Faulty
  /\ botched' = botched \cup {s}
  /\ \E p \in {FALSE, (s \in Pausing)} : paused' = [paused EXCEPT ![s] = p]
  /\ \E A \in SUBSET Running(s) : Abort(s, A)

AbortAllRequests(s) == AbortAll(s) \/ AbortRaises(s)

\* switch_to_trainer: abort_replicas of the hybrid replicas.
AbortHybrid(s) ==
  /\ pc = "abort_hybrid"
  /\ Gather(s, "sleep", Hybrid)
  /\ AbortAllRequests(s)

\* switch_to_trainer: sleep_replicas discards the weights.  The updates of the step follow.
SleepReplica(s) ==
  /\ pc = "sleep"
  /\ Gather(s, "abort", Standalone)
  /\ weights' = [weights EXCEPT ![s] = NoWeights]
  /\ mode' = IF pc' = "sleep" THEN mode ELSE "trainer"
  /\ UNCHANGED <<lbVars, step, paused, version, clientVars, botched>>

\* Mutant: update_weights does not abort.
UpdateWithoutAbort(s) ==
  /\ pc = "abort"
  /\ Gather(s, "sync", {})
  /\ UNCHANGED <<lbVars, mode, step, engineVars, clientVars, botched>>

\* on_step_end: update_weights of the standalone replicas aborts first ...
AbortStandalone(s) ==
  /\ pc = "abort"
  /\ Gather(s, "sync", {})
  /\ AbortAllRequests(s)

\* ... then overwrites the weights in place ...
BeginUpdate ==
  /\ pc = "sync"
  /\ weights' = [s \in Servers |-> IF s \in Standalone THEN NoWeights ELSE weights[s]]
  /\ pc' = "transfer"
  /\ UNCHANGED <<lbVars, todo, mode, step, paused, version, clientVars, botched>>

\* ... sets the version when all are transferred ...
EndUpdate ==
  /\ pc = "transfer"
  /\ weights' = [s \in Servers |-> IF s \in Standalone THEN step ELSE weights[s]]
  /\ version' = [s \in Servers |-> IF s \in Standalone THEN step ELSE version[s]]
  /\ pc' = "resume" /\ todo' = Standalone
  /\ UNCHANGED <<lbVars, mode, step, paused, clientVars, botched>>

\* fit validates after the last step and after every test_freq-th one.
Validates == TestFreq > 0 /\ (step = TotalSteps \/ step % TestFreq = 0)

\* on_validate_begin wakes the hybrid replicas unless they serve already.
Validation == IF Validates /\ mode = "trainer" THEN "reload" ELSE "step_end"

ResumeGeneration(s) == paused' = [paused EXCEPT ![s] = FALSE]

\* ... and resumes generation.
ResumeStandalone(s) ==
  /\ pc = "resume"
  /\ Gather(s, Validation, IF Validation = "reload" THEN Hybrid ELSE {})
  /\ ResumeGeneration(s)
  /\ UNCHANGED <<lbVars, mode, step, weights, version, clientVars, botched>>

\* switch_to_rollout: the naive update_weights, from the actor on the same devices.
ReloadReplica(s) ==
  /\ pc = "reload"
  /\ Gather(s, "resume_hybrid", Hybrid)
  /\ weights' = [weights EXCEPT ![s] = step]
  /\ version' = [version EXCEPT ![s] = step]
  /\ UNCHANGED <<lbVars, mode, step, paused, clientVars, botched>>

\* Mutant: switch_to_rollout does not resume the engines.
StayPaused(s) ==
  /\ pc = "resume_hybrid"
  /\ Gather(s, "add", {})
  /\ UNCHANGED <<lbVars, mode, step, engineVars, clientVars, botched>>

\* switch_to_rollout: resume_generation_replicas.
ResumeHybrid(s) ==
  /\ pc = "resume_hybrid"
  /\ Gather(s, "add", {})
  /\ ResumeGeneration(s)
  /\ UNCHANGED <<lbVars, mode, step, weights, version, clientVars, botched>>

AddReplicasToBalancer ==
  /\ pc = "add"
  /\ AddServers(Hybrid)
  /\ mode' = "rollout" /\ pc' = "step_end"
  /\ UNCHANGED <<todo, step, engineVars, clientVars, botched>>

StepEnd ==
  /\ pc = "step_end"
  /\ step' = step + 1
  /\ pc' = IF step = TotalSteps THEN "done" ELSE "sample"
  /\ UNCHANGED <<lbVars, todo, mode, engineVars, clientVars, botched>>

-----------------------------------------------------------------------------
Client(r) ==
  \/ Acquire(r) \/ Arrive(r) \/ Retry(r) \/ Return(r) \/ Release(r)

Engine(r) == Generate(r) \/ Complete(r) \/ ServerError(r)

Trainer ==
  \/ OnSampleEnd \/ RemoveReplicasFromBalancer \/ BeginUpdate \/ EndUpdate
  \/ AddReplicasToBalancer \/ StepEnd
  \/ \E s \in Servers : \/ AbortHybrid(s) \/ SleepReplica(s) \/ AbortStandalone(s)
                        \/ ResumeStandalone(s) \/ ReloadReplica(s) \/ ResumeHybrid(s)

\* All is over: the trainer and the conversations.
Terminated ==
  /\ pc = "done"
  /\ \A r \in Requests : at[r] \in {"done", "failed"} /\ held[r] = NoServer
  /\ UNCHANGED vars

Next == Trainer \/ (\E r \in Requests : Client(r) \/ Engine(r)) \/ Terminated

Spec == Init /\ [][Next]_vars

\* The trainer is one thread that waits for no conversation here, asyncio runs every
\* ready client, and an engine that is not paused ends a request it works on.
FairSpec ==
  /\ Spec
  /\ WF_vars(Trainer)
  /\ \A r \in Requests : WF_vars(Client(r)) /\ WF_vars(Complete(r))

-----------------------------------------------------------------------------
(* Properties. *)

Holders(s) == {r \in Requests : held[r] = s}

\* The balancer's count never exceeds the requests that hold the server, so a release is
\* never lost and no server is avoided for ever; for servers that never leave the pool it
\* is exact.  A server that was removed and added again may be undercounted: its count
\* restarts at 0 while releases of older requests are still on their way
\* (acquire_server, release_server, add_servers, the finally clause of generate).
InflightAccurate ==
  \A s \in pool : /\ inflight[s] <= Cardinality(Holders(s))
                  /\ s \in Standalone => inflight[s] = Cardinality(Holders(s))

\* A conversation stays on its server while that is in the pool.  Its route is lost only
\* when CacheSize other conversations were routed since it was last used
\* (acquire_server, "Sticky Session" of its class comment).
StickySessions ==
  [][\A r \in Requests : route[r] \in pool =>
       /\ held'[r] \in {held[r], NoServer, route[r]}
       /\ route'[r] # route[r] => route'[r] = NoServer /\ Cardinality(since'[r]) >= CacheSize]_vars

\* Tokens from weights that are discarded or half overwritten come only from servers of
\* vLLM < 0.12 and from servers whose abort raised: everywhere else the pause keeps out the
\* requests that workers go on sending during update_weights and switch_to_trainer.
WholeWeights == \A r \in Requests : NoWeights \notin fresh[r] \cup gen[r]

\* The min_global_steps and max_global_steps of a trajectory enclose every version that
\* generated one of its tokens on such a server, over all turns, aborts and servers, even
\* if other turns ran across an update and reported only the version at their end.
VersionSpan ==
  \A r \in Requests : at[r] = "done" =>
    \A v \in gen[r] : span[r].lo <= v /\ v <= span[r].hi

\* Every turn returns to its agent loop, however often it is aborted or its server leaves
\* the pool ("making rollout interruption invisible to the AgentLoop").
TurnsReturn ==
  \A r \in Requests :
    at[r] \in {"routed", "serving", "answered", "sleeping"} ~> at[r] \in {"idle", "done", "failed"}
=============================================================================
