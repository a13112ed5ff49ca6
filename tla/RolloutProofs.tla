--------------------------- MODULE RolloutProofs ----------------------------
(***************************************************************************)
(* Proofs about Rollout, for any number of servers, conversations, turns   *)
(* and steps.                                                              *)
(***************************************************************************)
EXTENDS Rollout, FiniteSetTheorems, TLAPS

-----------------------------------------------------------------------------
(* The inductive invariants. *)

\* A gather goes to the replicas of one kind.
GatherInv ==
  /\ pc \in {"abort_hybrid", "sleep", "reload", "resume_hybrid"} => todo \subseteq Hybrid
  /\ pc \in {"abort", "resume"} => todo \subseteq Standalone

\* A step is in progress until the trainer is done.
StepInv == pc # "done" => step <= TotalSteps

\* A conversation holds a server from its routing to its release.
HeldInv == \A r \in Requests : at[r] \in {"routed", "serving", "answered"} => held[r] \in Servers

TypeInv == TypeOK /\ GatherInv /\ StepInv /\ HeldInv

\* Servers outside the pool have no count, standalone servers never leave the pool.
CountInv ==
  /\ Standalone \subseteq pool
  /\ \A s \in Servers :
       /\ s \notin pool => inflight[s] = 0
       /\ inflight[s] <= Cardinality(Holders(s))
       /\ s \in Standalone => inflight[s] = Cardinality(Holders(s))

\* The engine of a server that is not dirty works only while it is not paused; of the others
\* there is no history.
ServingInv ==
  \A r \in Requests :
    /\ at[r] # "serving" => fresh[r] = {}
    /\ at[r] = "serving" /\ held[r] \in Dirty => fresh[r] = {}
    /\ at[r] = "serving" /\ held[r] \notin Dirty => ~ paused[held[r]]

\* An engine without weights is paused, unless its server is dirty: the aborts come before
\* the weights go, the weights come back before the engines resume.
WeightInv ==
  /\ \A s \in Servers : weights[s] = NoWeights => s \in Dirty \/ paused[s]
  /\ \A s \in Standalone :
       /\ weights[s] = NoWeights => pc = "transfer"
       /\ pc \in {"sync", "transfer"} => s \in Dirty \/ paused[s]
       /\ pc = "abort" => s \in todo \/ s \in Dirty \/ paused[s]
  /\ \A s \in Hybrid :
       /\ pc = "abort_hybrid" => s \in todo \/ s \in Dirty \/ paused[s]
       /\ pc = "sleep" => s \in Dirty \/ paused[s]
       /\ pc = "reload" => s \in todo \/ weights[s] # NoWeights
       /\ pc = "resume_hybrid" => weights[s] # NoWeights

-----------------------------------------------------------------------------
(* Types. *)

\* The variables start with values of their types.
LEMMA InitType == Init => TypeInv
BY BalancerAssumption, RolloutAssumption
   DEF Init, LbInit, TypeInv, TypeOK, LbTypeOK, GatherInv, StepInv, HeldInv, Version, Span, UnsetSpan,
       Unset, NoWeights, NoAnswer, Standalone

\* The balancer keeps its types.
LEMMA BalancerType ==
  ASSUME LbTypeOK
  PROVE  /\ \A r \in Requests, s \in Servers : AcquireServer(r, s) => LbTypeOK'
         /\ \A s \in Servers : ReleaseServer(s) => LbTypeOK'
         /\ \A S \in SUBSET Servers : AddServers(S) \/ RemoveServers(S) => LbTypeOK'
<1>1. ASSUME NEW r \in Requests, NEW s \in Servers, AcquireServer(r, s) PROVE LbTypeOK'
  <2>1. route' \in [Requests -> Servers \cup {NoServer}]
    BY <1>1 DEF AcquireServer, RouteTo, LbTypeOK
  <2>2. since' \in [Requests -> SUBSET Requests]
    BY <1>1 DEF AcquireServer, Use, LbTypeOK
  <2> QED
    BY <1>1, <2>1, <2>2 DEF AcquireServer, LbTypeOK
<1>2. ASSUME NEW s \in Servers, ReleaseServer(s) PROVE LbTypeOK'
  BY <1>2 DEF ReleaseServer, Released, LbTypeOK
<1>3. ASSUME NEW S \in SUBSET Servers, AddServers(S) \/ RemoveServers(S) PROVE LbTypeOK'
  BY <1>3 DEF AddServers, RemoveServers, LbTypeOK
<1> QED
  BY <1>1, <1>2, <1>3

\* The versions of a trajectory after another turn.
LEMMA CommittedType == ASSUME NEW t \in Span, NEW p \in Span PROVE Committed(t, p) \in Span
BY DEF Committed, Span

\* The steps of a conversation keep the types.
LEMMA ClientType ==
  ASSUME TypeInv, NEW r \in Requests, Client(r) \/ Engine(r)
  PROVE  TypeInv'
<1> USE DEF TypeInv, TypeOK, GatherInv, StepInv, HeldInv, trainerVars, engineVars
<1>1. CASE Acquire(r)
  <2>1. LbTypeOK'
    BY <1>1, BalancerType DEF Acquire
  <2> QED
    BY <1>1, <2>1 DEF Acquire, Span, UnsetSpan, Unset, Version
<1>2. CASE Arrive(r)
  BY <1>2 DEF Arrive, lbVars, LbTypeOK
<1>3. CASE Retry(r)
  BY <1>3, RolloutAssumption DEF Retry, lbVars, LbTypeOK, Merged, Span, Unset, NoAnswer, Version
<1>4. CASE Return(r)
  <2>1. part' \in [Requests -> Span]
    BY <1>4 DEF Return, Span, UnsetSpan, Unset, Version
  <2>2. span' \in [Requests -> Span]
    <3>1. Merged(part[r], answer[r].steps) \in Span
      BY DEF Merged, Span
    <3>2. Committed(span[r], Merged(part[r], answer[r].steps)) \in Span
      BY <3>1, CommittedType
    <3> QED
      BY <1>4, <3>2 DEF Return
  <2>3. /\ turn' \in [Requests -> 1 .. MaxTurns]
        /\ at' \in [Requests -> {"idle", "routed", "serving", "answered", "sleeping", "done", "failed"}]
    <3>1. CASE at' = [at EXCEPT ![r] = "done"] /\ UNCHANGED turn
      BY <3>1
    <3>2. CASE /\ r \in ToolLoops /\ turn[r] < MaxTurns
               /\ turn' = [turn EXCEPT ![r] = @ + 1]
               /\ at' = [at EXCEPT ![r] = "idle"]
      BY <3>2, RolloutAssumption
    <3> QED
      BY <1>4, <3>1, <3>2 DEF Return
  <2> QED
    BY <1>4, <2>1, <2>2, <2>3, RolloutAssumption DEF Return, lbVars, LbTypeOK, NoAnswer, Version
<1>5. CASE Release(r)
  <2>1. LbTypeOK'
    BY <1>5, BalancerType DEF Release
  <2> QED
    BY <1>5, <2>1 DEF Release
<1>6. CASE Generate(r) \/ Complete(r)
  <2>1. held[r] \in Servers
    BY <1>6, BalancerAssumption DEF Generate, Complete, Running, LbTypeOK
  <2> QED
    <3>1. weights[held[r]] \in Version \cup {NoWeights} /\ version[held[r]] \in Version
      BY <2>1
    <3>2. CASE Generate(r)
      BY <3>1, <3>2 DEF Generate, lbVars, LbTypeOK
    <3>3. CASE Complete(r)
      <4>1. [stop |-> "completed", steps |-> version[held[r]]]
              \in [stop : {"none", "aborted", "completed"}, steps : Version]
        BY <3>1
      <4>2. answer' \in [Requests -> [stop : {"none", "aborted", "completed"}, steps : Version]]
        BY <3>3, <4>1 DEF Complete
      <4>3. /\ gen' \in [Requests -> SUBSET (Version \cup {NoWeights})]
            /\ fresh' \in [Requests -> SUBSET (Version \cup {NoWeights})]
            /\ at' = [at EXCEPT ![r] = "answered"]
            /\ UNCHANGED <<lbVars, trainerVars, engineVars, held, turn, part, span>>
        BY <3>1, <3>3 DEF Complete
      <4> QED
        BY <2>1, <4>2, <4>3 DEF lbVars, LbTypeOK
    <3> QED
      BY <1>6, <3>2, <3>3
<1>7. CASE ServerError(r)
  BY <1>7 DEF ServerError, lbVars, LbTypeOK, Span, UnsetSpan, Unset, Version
<1> QED
  BY <1>1, <1>2, <1>3, <1>4, <1>5, <1>6, <1>7 DEF Client, Engine

\* An abort answers some of the requests that run.  On a server that is not dirty
\* afterwards it answers all of them and pauses.
LEMMA AbortCases ==
  ASSUME paused \in [Servers -> BOOLEAN], botched \in SUBSET Servers,
         NEW s \in Servers, AbortAllRequests(s)
  PROVE  /\ \E A \in SUBSET Running(s) : Abort(s, A) /\ (s \notin Dirty' => A = Running(s))
         /\ paused' \in [Servers -> BOOLEAN] /\ (s \notin Dirty' => paused'[s])
         /\ \A t \in Servers \ {s} : paused'[t] = paused[t]
         /\ botched' \in SUBSET Servers /\ botched \subseteq botched' /\ Dirty \subseteq Dirty'
         /\ \A t \in Servers \ {s} : t \in Dirty' => t \in Dirty
<1>1. CASE AbortAll(s)
  <2>1. Abort(s, Running(s)) /\ Running(s) \in SUBSET Running(s)
    BY <1>1 DEF AbortAll
  <2>2. botched' = botched /\ Dirty' = Dirty
    BY <1>1 DEF AbortAll, Dirty
  <2>3. paused' = [paused EXCEPT ![s] = (s \in Pausing)]
    BY <1>1 DEF AbortAll
  <2>4. /\ paused' \in [Servers -> BOOLEAN]
        /\ \A t \in Servers \ {s} : paused'[t] = paused[t]
    BY <2>3
  <2>5. s \notin Dirty => paused'[s]
    BY <2>3 DEF Dirty
  <2> QED
    BY <2>1, <2>2, <2>4, <2>5
<1>2. CASE AbortRaises(s)
  <2>1. PICK A \in SUBSET Running(s) : Abort(s, A)
    BY <1>2 DEF AbortRaises
  <2>2. botched' = botched \cup {s}
    BY <1>2 DEF AbortRaises
  <2>3. Dirty' = Dirty \cup {s}
    BY <2>2 DEF Dirty
  <2>4. PICK p \in BOOLEAN : paused' = [paused EXCEPT ![s] = p]
    <3>1. PICK p \in {FALSE, (s \in Pausing)} : paused' = [paused EXCEPT ![s] = p]
      BY <1>2 DEF AbortRaises
    <3>2. p = TRUE \/ p = FALSE
      <4>1. CASE s \in Pausing
        BY <3>1, <4>1
      <4>2. CASE s \notin Pausing
        BY <3>1, <4>2
      <4> QED
        BY <4>1, <4>2
    <3> QED
      BY <3>1, <3>2
  <2>5. /\ paused' \in [Servers -> BOOLEAN]
        /\ \A t \in Servers \ {s} : paused'[t] = paused[t]
    BY <2>4
  <2> QED
    BY <2>1, <2>2, <2>3, <2>5
<1> QED
  BY <1>1, <1>2 DEF AbortAllRequests

\* The steps of the trainer keep the types.
LEMMA TrainerType ==
  ASSUME TypeInv, Trainer
  PROVE  TypeInv'
<1> USE RolloutAssumption DEF TypeInv, TypeOK, GatherInv, StepInv, HeldInv, Standalone, clientVars,
      engineVars
<1>1. CASE OnSampleEnd
  BY <1>1 DEF OnSampleEnd, lbVars, LbTypeOK
<1>2. CASE RemoveReplicasFromBalancer
  <2>1. LbTypeOK'
    BY <1>2, BalancerType DEF RemoveReplicasFromBalancer
  <2> QED
    BY <1>2, <2>1 DEF RemoveReplicasFromBalancer
<1>3. CASE BeginUpdate
  BY <1>3 DEF BeginUpdate, lbVars, LbTypeOK
<1>4. CASE EndUpdate
  BY <1>4 DEF EndUpdate, lbVars, LbTypeOK, Version
<1>5. CASE AddReplicasToBalancer
  <2>1. LbTypeOK'
    BY <1>5, BalancerType DEF AddReplicasToBalancer
  <2> QED
    BY <1>5, <2>1 DEF AddReplicasToBalancer
<1>6. CASE StepEnd
  BY <1>6 DEF StepEnd, lbVars, LbTypeOK
<1>7. ASSUME NEW s \in Servers, AbortHybrid(s) \/ AbortStandalone(s) PROVE TypeInv'
  <2>0. PICK A \in SUBSET Running(s) : Abort(s, A)
    BY <1>7, AbortCases DEF AbortHybrid, AbortStandalone
  <2>1. answer' \in [Requests -> [stop : {"none", "aborted", "completed"}, steps : Version]]
    <3>1. [stop |-> "aborted", steps |-> version[s]]
            \in [stop : {"none", "aborted", "completed"}, steps : Version]
      OBVIOUS
    <3> QED
      BY <2>0, <3>1 DEF Abort
  <2>2. /\ LbTypeOK'
        /\ at' \in [Requests -> {"idle", "routed", "serving", "answered", "sleeping", "done", "failed"}]
        /\ UNCHANGED <<mode, step, weights, version, held, turn, part, span>>
    BY <2>0 DEF Abort, lbVars, LbTypeOK
  <2>3. /\ fresh' \in [Requests -> SUBSET (Version \cup {NoWeights})]
        /\ gen' \in [Requests -> SUBSET (Version \cup {NoWeights})]
    BY <2>0 DEF Abort
  <2>4. paused' \in [Servers -> BOOLEAN] /\ botched' \in SUBSET Servers
    BY <1>7, AbortCases DEF AbortHybrid, AbortStandalone
  <2>5. HeldInv'
    BY <2>0, <2>2 DEF Abort, Running
  <2> QED
    BY <1>7, <2>1, <2>2, <2>3, <2>4, <2>5 DEF AbortHybrid, AbortStandalone, Gather
<1>8. ASSUME NEW s \in Servers, SleepReplica(s) PROVE TypeInv'
  BY <1>8 DEF SleepReplica, Gather, lbVars, LbTypeOK
<1>9. ASSUME NEW s \in Servers, ResumeStandalone(s) PROVE TypeInv'
  BY <1>9 DEF ResumeStandalone, ResumeGeneration, Gather, Validation, lbVars, LbTypeOK
<1>10. ASSUME NEW s \in Servers, ReloadReplica(s) PROVE TypeInv'
  BY <1>10 DEF ReloadReplica, Gather, lbVars, LbTypeOK, Version
<1>11. ASSUME NEW s \in Servers, ResumeHybrid(s) PROVE TypeInv'
  BY <1>11 DEF ResumeHybrid, ResumeGeneration, Gather, lbVars, LbTypeOK
<1> QED
  BY <1>1, <1>2, <1>3, <1>4, <1>5, <1>6, <1>7, <1>8, <1>9, <1>10, <1>11 DEF Trainer

\* A step that changes nothing keeps the types.
LEMMA StutterType == ASSUME TypeInv, UNCHANGED vars PROVE TypeInv'
BY DEF TypeInv, TypeOK, LbTypeOK, GatherInv, StepInv, HeldInv, vars, lbVars, trainerVars,
       engineVars, clientVars

\* Every step keeps the types.
LEMMA NextType == TypeInv /\ [Next]_vars => TypeInv'
BY ClientType, TrainerType, StutterType DEF Next, Terminated

\* Every variable of the balancer, the trainer, the engines and the conversations keeps
\* its type, and the step of the trainer stays within total_training_steps.
THEOREM TypeCorrect == Spec => []TypeOK
<1>1. TypeInv => TypeOK
  BY DEF TypeInv
<1> QED
  BY <1>1, InitType, NextType, PTL DEF Spec

-----------------------------------------------------------------------------
(* The counts of the balancer. *)

\* Finitely many requests hold a server, so that they can be counted.
LEMMA HoldersFinite ==
  ASSUME NEW s PROVE IsFiniteSet(Holders(s)) /\ Cardinality(Holders(s)) \in Nat
<1>1. IsFiniteSet(Holders(s))
  BY BalancerAssumption, FS_Subset DEF Holders
<1> QED
  BY <1>1, FS_CardinalityType

\* No request holds a server at the start.
LEMMA InitCount == Init => CountInv
BY FS_EmptySet, BalancerAssumption DEF Init, LbInit, CountInv, Holders, Standalone

\* An acquire adds one holder and one to the count of the same server.
LEMMA AcquireCount ==
  ASSUME TypeInv, CountInv, NEW r \in Requests, Acquire(r)
  PROVE  CountInv'
<1>1. PICK t \in Servers : AcquireServer(r, t) /\ held' = [held EXCEPT ![r] = t]
  BY DEF Acquire
<1>2. held \in [Requests -> Servers \cup {NoServer}] /\ held[r] = NoServer /\ NoServer \notin Servers
  BY BalancerAssumption DEF Acquire, TypeInv, TypeOK
<1>3. Holders(t)' = Holders(t) \cup {r} /\ r \notin Holders(t)
  BY <1>1, <1>2 DEF Holders
<1>4. Cardinality(Holders(t)') = Cardinality(Holders(t)) + 1
  BY <1>3, HoldersFinite, FS_AddElement
<1>5. \A s \in Servers \ {t} : Holders(s)' = Holders(s)
  BY <1>1, <1>2 DEF Holders
<1>6. t \in pool
  BY <1>1 DEF AcquireServer, RouteTo, StickyHit, LeastLoaded
<1>7. inflight' = [inflight EXCEPT ![t] = @ + 1] /\ pool' = pool
  BY <1>1 DEF AcquireServer
<1>8. inflight \in [Servers -> Nat] /\ Standalone \subseteq Servers
  BY DEF TypeInv, TypeOK, LbTypeOK, Standalone
<1>9. \A s \in Servers : Cardinality(Holders(s)) \in Nat
  BY HoldersFinite
<1>10. ASSUME NEW s \in Servers
       PROVE  /\ s \notin pool' => inflight'[s] = 0
              /\ inflight'[s] <= Cardinality(Holders(s)')
              /\ s \in Standalone => inflight'[s] = Cardinality(Holders(s)')
  BY <1>4, <1>5, <1>6, <1>7, <1>8, <1>9 DEF CountInv
<1> QED
  BY <1>7, <1>10 DEF CountInv

\* A release removes one holder and subtracts one, unless the server has left the pool.
LEMMA ReleaseCount ==
  ASSUME TypeInv, CountInv, NEW r \in Requests, Release(r)
  PROVE  CountInv'
<1> PICK t \in Servers : t = held[r]
  BY BalancerAssumption DEF Release, TypeInv, TypeOK
<1>1. t \in Servers /\ held \in [Requests -> Servers \cup {NoServer}] /\ NoServer \notin Servers
  BY BalancerAssumption DEF Release, TypeInv, TypeOK
<1>2. held' = [held EXCEPT ![r] = NoServer]
  BY DEF Release
<1>3. Holders(t)' = Holders(t) \ {r} /\ r \in Holders(t)
  BY <1>1, <1>2 DEF Holders
<1>4. Cardinality(Holders(t)') = Cardinality(Holders(t)) - 1
  BY <1>3, HoldersFinite, FS_RemoveElement
<1>5. \A s \in Servers \ {t} : Holders(s)' = Holders(s)
  BY <1>1, <1>2 DEF Holders
<1>6. inflight' = [inflight EXCEPT ![t] = Released(t)] /\ pool' = pool
  BY DEF Release, ReleaseServer
<1>7. inflight \in [Servers -> Nat] /\ Standalone \subseteq Servers
  BY DEF TypeInv, TypeOK, LbTypeOK, Standalone
<1>8. /\ \A s \in Servers : Cardinality(Holders(s)) \in Nat
      /\ Cardinality(Holders(t)') \in Nat
  <2>1. IsFiniteSet(Holders(t)')
    BY <1>3, HoldersFinite, FS_RemoveElement
  <2> QED
    BY <2>1, HoldersFinite, FS_CardinalityType
<1>9. ASSUME NEW s \in Servers
      PROVE  /\ s \notin pool' => inflight'[s] = 0
             /\ inflight'[s] <= Cardinality(Holders(s)')
             /\ s \in Standalone => inflight'[s] = Cardinality(Holders(s)')
  BY <1>1, <1>4, <1>5, <1>6, <1>7, <1>8 DEF CountInv, Released
<1> QED
  BY <1>6, <1>9 DEF CountInv

\* All other steps leave the conversations with their servers.
LEMMA OtherCount ==
  ASSUME TypeInv, CountInv, UNCHANGED held,
         \/ UNCHANGED <<pool, inflight>>
         \/ RemoveServers(Hybrid)
         \/ AddServers(Hybrid)
  PROVE  CountInv'
<1>1. \A s \in Servers : Holders(s)' = Holders(s) /\ Cardinality(Holders(s)) \in Nat
  BY HoldersFinite DEF Holders
<1> QED
  BY <1>1, RolloutAssumption
     DEF CountInv, RemoveServers, AddServers, Standalone, TypeInv, TypeOK, LbTypeOK

\* Every step keeps the counts, the removal and return of a server included.
LEMMA NextCount == TypeInv /\ CountInv /\ [Next]_vars => CountInv'
<1> SUFFICES ASSUME TypeInv, CountInv, [Next]_vars PROVE CountInv'
  OBVIOUS
<1>1. ASSUME NEW r \in Requests, Client(r) \/ Engine(r) PROVE CountInv'
  <2>1. CASE Arrive(r) \/ Retry(r) \/ Return(r) \/ Engine(r)
    BY <2>1, OtherCount DEF Arrive, Retry, Return, Engine, Generate, Complete, ServerError, lbVars
  <2> QED
    BY <1>1, <2>1, AcquireCount, ReleaseCount DEF Client
<1>2. CASE Trainer
  BY <1>2, OtherCount
     DEF Trainer, OnSampleEnd, RemoveReplicasFromBalancer, BeginUpdate, EndUpdate,
         AddReplicasToBalancer, StepEnd, AbortHybrid, SleepReplica, AbortStandalone,
         ResumeStandalone, ReloadReplica, ResumeHybrid, AbortAllRequests, AbortAll, AbortRaises,
         Abort, lbVars, clientVars
<1>3. CASE UNCHANGED vars
  BY <1>3, OtherCount DEF vars, lbVars, clientVars
<1> QED
  BY <1>1, <1>2, <1>3 DEF Next, Terminated

\* The balancer never counts a request that no conversation holds, and counts exactly
\* those of a standalone server: no acquire of LLMServerClient.generate goes without its
\* release.
THEOREM InflightCounts == Spec => []InflightAccurate
<1>1. TypeInv /\ CountInv => InflightAccurate
  BY DEF TypeInv, TypeOK, LbTypeOK, CountInv, InflightAccurate
<1> QED
  BY <1>1, InitType, NextType, InitCount, NextCount, PTL DEF Spec

-----------------------------------------------------------------------------
(* The weights of the engines. *)

WeightsInv == ServingInv /\ WeightInv /\ WholeWeights

\* All engines start with weights.
LEMMA InitWeights == Init => WeightsInv
BY RolloutAssumption DEF Init, WeightsInv, ServingInv, WeightInv, WholeWeights, NoWeights, Standalone

\* Conversations do not touch weights, and generate on a server that is not dirty only while
\* its engine is not paused.
LEMMA ClientWeights ==
  ASSUME TypeInv, WeightsInv, NEW r \in Requests, Client(r) \/ Engine(r)
  PROVE  WeightsInv'
<1>t. /\ at \in [Requests -> {"idle", "routed", "serving", "answered", "sleeping", "done", "failed"}]
      /\ held \in [Requests -> Servers \cup {NoServer}]
      /\ fresh \in [Requests -> SUBSET (Version \cup {NoWeights})]
      /\ gen \in [Requests -> SUBSET (Version \cup {NoWeights})]
  BY DEF TypeInv, TypeOK
<1>1. UNCHANGED <<pc, todo, mode, step, botched, paused, weights, version>>
  BY DEF Client, Engine, Acquire, Arrive, Retry, Return, Release, Generate, Complete, ServerError,
     trainerVars, engineVars
<1>2. Dirty' = Dirty
  BY <1>1 DEF Dirty
<1>3. WeightInv'
  BY <1>1, <1>2 DEF WeightsInv, WeightInv
<1>4. ASSUME NEW q \in Requests
      PROVE  /\ at'[q] # "serving" => fresh'[q] = {}
             /\ at'[q] = "serving" /\ held'[q] \in Dirty => fresh'[q] = {}
             /\ at'[q] = "serving" /\ held'[q] \notin Dirty => ~ paused[held'[q]]
             /\ NoWeights \notin fresh'[q] \cup gen'[q]
  <2>0. /\ at[q] # "serving" => fresh[q] = {}
        /\ at[q] = "serving" /\ held[q] \in Dirty => fresh[q] = {}
        /\ at[q] = "serving" /\ held[q] \notin Dirty => ~ paused[held[q]]
        /\ NoWeights \notin fresh[q] \cup gen[q]
    BY DEF WeightsInv, ServingInv, WholeWeights
  <2>1. CASE q # r
    <3>1. UNCHANGED <<at[q], held[q], fresh[q], gen[q]>>
      BY <1>t, <2>1 DEF Client, Engine, Acquire, Arrive, Retry, Return, Release, Generate, Complete,
         ServerError
    <3> QED
      BY <2>0, <3>1
  <2>2. CASE q = r /\ (Acquire(r) \/ Retry(r) \/ Return(r) \/ Release(r))
    <3>1. UNCHANGED <<fresh, gen>> /\ at[r] # "serving" /\ at'[r] # "serving"
      BY <1>t, <2>2 DEF Acquire, Retry, Return, Release
    <3> QED
      BY <2>0, <2>2, <3>1
  <2>3. CASE q = r /\ Arrive(r)
    BY <1>t, <2>0, <2>3 DEF Arrive
  <2>4. CASE q = r /\ ServerError(r)
    BY <1>t, <2>4 DEF ServerError
  <2>5. CASE q = r /\ (Generate(r) \/ Complete(r))
    <3>1. at[r] = "serving" /\ held[r] \in Servers
      BY <2>5 DEF Generate, Complete, Running, TypeInv, HeldInv
    <3>2. held[r] \notin Dirty => weights[held[r]] # NoWeights
      BY <2>0, <2>5, <3>1 DEF WeightsInv, WeightInv
    <3>3. CASE Generate(r)
      BY <1>t, <2>0, <2>5, <3>1, <3>2, <3>3 DEF Generate
    <3>4. CASE Complete(r)
      BY <1>t, <2>0, <2>5, <3>1, <3>2, <3>4 DEF Complete
    <3> QED
      BY <2>5, <3>3, <3>4
  <2> QED
    BY <2>1, <2>2, <2>3, <2>4, <2>5 DEF Client, Engine
<1> QED
  BY <1>1, <1>2, <1>3, <1>4 DEF WeightsInv, ServingInv, WholeWeights

\* An abort stops all that a server works on, or leaves it dirty.
LEMMA AbortServing ==
  ASSUME TypeInv, ServingInv, WholeWeights, NEW s \in Servers, AbortAllRequests(s)
  PROVE  ServingInv' /\ WholeWeights'
<1>1. /\ paused \in [Servers -> BOOLEAN] /\ botched \in SUBSET Servers
      /\ held \in [Requests -> Servers \cup {NoServer}]
      /\ \A r \in Requests : at[r] = "serving" => held[r] \in Servers
  BY DEF TypeInv, TypeOK, HeldInv
<1>2. PICK A \in SUBSET Running(s) : Abort(s, A) /\ (s \notin Dirty' => A = Running(s))
  BY <1>1, AbortCases
<1>3. /\ \A t \in Servers \ {s} : paused'[t] = paused[t]
      /\ Dirty \subseteq Dirty' /\ \A t \in Servers \ {s} : t \in Dirty' => t \in Dirty
  BY <1>1, AbortCases
<1>4. /\ held' = held
      /\ \A r \in Requests :
           /\ at'[r] = (IF r \in A THEN "answered" ELSE at[r])
           /\ fresh'[r] = (IF r \in Running(s) THEN {} ELSE fresh[r])
           /\ gen'[r] = (IF r \in A /\ s \notin Dirty THEN gen[r] \cup fresh[r] ELSE gen[r])
  BY <1>2 DEF Abort
<1>5. ASSUME NEW r \in Requests
      PROVE  /\ at'[r] # "serving" => fresh'[r] = {}
             /\ at'[r] = "serving" /\ held'[r] \in Dirty' => fresh'[r] = {}
             /\ at'[r] = "serving" /\ held'[r] \notin Dirty' => ~ paused'[held'[r]]
             /\ NoWeights \notin fresh'[r] \cup gen'[r]
  <2>1. CASE r \in Running(s)
    BY <1>2, <1>4, <2>1 DEF Running, WholeWeights
  <2>2. CASE r \notin Running(s)
    <3>1. r \notin A /\ at'[r] = at[r] /\ fresh'[r] = fresh[r] /\ gen'[r] = gen[r]
      BY <1>2, <1>4, <2>2
    <3>2. at[r] = "serving" => held[r] \in Servers \ {s}
      BY <1>1, <2>2 DEF Running
    <3> QED
      BY <1>3, <1>4, <3>1, <3>2 DEF ServingInv, WholeWeights
  <2> QED
    BY <2>1, <2>2
<1> QED
  BY <1>5 DEF ServingInv, WholeWeights

\* A resume keeps a conversation running, and nothing else touches it.
LEMMA TrainerServing ==
  ASSUME TypeInv, ServingInv, WholeWeights, Trainer
  PROVE  ServingInv' /\ WholeWeights'
<1>1. ASSUME NEW s \in Servers, AbortHybrid(s) \/ AbortStandalone(s) PROVE ServingInv' /\ WholeWeights'
  BY <1>1, AbortServing DEF AbortHybrid, AbortStandalone
<1>2. ASSUME UNCHANGED <<clientVars, botched>>,
             paused' = paused \/ \E s \in Servers : paused' = [paused EXCEPT ![s] = FALSE]
      PROVE  ServingInv' /\ WholeWeights'
  <2>1. /\ paused \in [Servers -> BOOLEAN] /\ Dirty' = Dirty
        /\ \A r \in Requests : at[r] = "serving" => held[r] \in Servers
    BY <1>2 DEF TypeInv, TypeOK, HeldInv, Dirty
  <2>2. \A s \in Servers : ~ paused[s] => ~ paused'[s]
    BY <1>2, <2>1
  <2> QED
    BY <1>2, <2>1, <2>2 DEF ServingInv, WholeWeights, clientVars
<1> QED
  BY <1>1, <1>2 DEF Trainer, OnSampleEnd, RemoveReplicasFromBalancer, BeginUpdate, EndUpdate,
     AddReplicasToBalancer, StepEnd, SleepReplica, ResumeStandalone, ReloadReplica, ResumeHybrid,
     ResumeGeneration, engineVars

\* Except on dirty servers the trainer discards and overwrites only the weights of paused
\* engines, and it resumes only engines that have weights again.
LEMMA TrainerWeights ==
  ASSUME TypeInv, WeightInv, Trainer
  PROVE  WeightInv'
<1>t. /\ paused \in [Servers -> BOOLEAN] /\ weights \in [Servers -> Version \cup {NoWeights}]
      /\ botched \in SUBSET Servers /\ GatherInv /\ step \in Nat
      /\ Standalone = Servers \ Hybrid /\ Hybrid \subseteq Servers /\ NoWeights = -1
  BY RolloutAssumption DEF TypeInv, TypeOK, Standalone, NoWeights
<1>1. CASE \/ OnSampleEnd \/ RemoveReplicasFromBalancer \/ BeginUpdate \/ EndUpdate
           \/ AddReplicasToBalancer \/ StepEnd
  <2>1. Dirty' = Dirty
    BY <1>1 DEF OnSampleEnd, RemoveReplicasFromBalancer, BeginUpdate, EndUpdate,
              AddReplicasToBalancer, StepEnd, Dirty
  <2> QED
    BY <1>1, <1>t, <2>1 DEF OnSampleEnd, RemoveReplicasFromBalancer, BeginUpdate, EndUpdate,
              AddReplicasToBalancer, StepEnd, WeightInv, engineVars
<1>2. ASSUME NEW s \in Servers, AbortHybrid(s) \/ AbortStandalone(s) PROVE WeightInv'
  <2>1. AbortAllRequests(s)
    BY <1>2 DEF AbortHybrid, AbortStandalone
  <2>2. /\ weights' = weights
        /\ s \in Dirty' \/ paused'[s]
        /\ \A t \in Servers \ {s} : paused'[t] = paused[t]
        /\ Dirty \subseteq Dirty'
    BY <1>t, <2>1, AbortCases DEF Abort
  <2>3. \/ /\ pc = "abort_hybrid" /\ s \in Hybrid
           /\ \/ pc' = "abort_hybrid" /\ todo' = todo \ {s}
              \/ pc' = "sleep" /\ todo = {s}
        \/ /\ pc = "abort" /\ s \in Standalone
           /\ \/ pc' = "abort" /\ todo' = todo \ {s}
              \/ pc' = "sync" /\ todo = {s}
    BY <1>2, <1>t DEF AbortHybrid, AbortStandalone, Gather, GatherInv
  <2>4. ASSUME NEW t \in Servers, t \in Dirty \/ paused[t] PROVE t \in Dirty' \/ paused'[t]
    BY <2>2, <2>4
  <2> QED
    BY <1>t, <2>2, <2>3, <2>4 DEF WeightInv
<1>3. ASSUME NEW s \in Servers, SleepReplica(s) PROVE WeightInv'
  <2>1. Dirty' = Dirty
    BY <1>3 DEF SleepReplica, Dirty
  <2> QED
    BY <1>3, <1>t, <2>1 DEF SleepReplica, Gather, GatherInv, WeightInv
<1>4. ASSUME NEW s \in Servers, ResumeStandalone(s) PROVE WeightInv'
  <2>1. Dirty' = Dirty
    BY <1>4 DEF ResumeStandalone, Dirty
  <2> QED
    BY <1>4, <1>t, <2>1 DEF ResumeStandalone, ResumeGeneration, Gather, GatherInv, Validation, WeightInv
<1>5. ASSUME NEW s \in Servers, ReloadReplica(s) PROVE WeightInv'
  <2>1. Dirty' = Dirty
    BY <1>5 DEF ReloadReplica, Dirty
  <2> QED
    BY <1>5, <1>t, <2>1 DEF ReloadReplica, Gather, GatherInv, WeightInv
<1>6. ASSUME NEW s \in Servers, ResumeHybrid(s) PROVE WeightInv'
  <2>1. Dirty' = Dirty
    BY <1>6 DEF ResumeHybrid, Dirty
  <2> QED
    BY <1>6, <1>t, <2>1 DEF ResumeHybrid, ResumeGeneration, Gather, GatherInv, WeightInv
<1> QED
  BY <1>1, <1>2, <1>3, <1>4, <1>5, <1>6 DEF Trainer

\* Every step keeps the weights whole where they are used.
LEMMA NextWeights == TypeInv /\ WeightsInv /\ [Next]_vars => WeightsInv'
<1> SUFFICES ASSUME TypeInv, WeightsInv, [Next]_vars PROVE WeightsInv'
  OBVIOUS
<1>1. CASE UNCHANGED vars
  BY <1>1 DEF WeightsInv, ServingInv, WeightInv, WholeWeights, Dirty, vars, trainerVars, engineVars,
     clientVars
<1>2. CASE Trainer
  BY <1>2, TrainerServing, TrainerWeights DEF WeightsInv
<1> QED
  BY <1>1, <1>2, ClientWeights DEF Next, Terminated

\* On servers whose abort pauses and has not raised, no token is generated from discarded or
\* half overwritten weights: update_weights and switch_to_trainer pause such an engine before
\* its weights go and resume it after they are back.
THEOREM TokensFromWholeWeights == Spec => []WholeWeights
<1>1. WeightsInv => WholeWeights
  BY DEF WeightsInv
<1> QED
  BY <1>1, InitType, NextType, InitWeights, NextWeights, PTL DEF Spec

-----------------------------------------------------------------------------
(* The versions of a trajectory. *)

\* The version of the last update.
Current == IF pc \in {"resume", "reload", "resume_hybrid", "add", "step_end"} THEN step ELSE step - 1

\* Engines that serve and are not dirty have the current version, and so have all servers of
\* the pool; the hybrid replicas are out of the pool, and paused unless they are dirty, from
\* their abort until they are loaded again.
EngineInv ==
  /\ \A s \in Servers :
       /\ version[s] <= Current
       /\ s \in pool => version[s] = Current
       /\ s \notin Dirty /\ ~ paused[s] => weights[s] = Current /\ version[s] = Current
  /\ \A s \in Standalone :
       /\ version[s] = Current
       /\ pc # "transfer" => weights[s] = Current
  /\ \A s \in Hybrid :
       /\ pc \in {"sleep", "abort", "sync", "transfer", "resume", "reload"} => s \in Dirty \/ paused[s]
       /\ pc \in {"sample", "step_end"} /\ mode = "trainer" => s \in Dirty \/ paused[s]
       /\ pc = "reload" => s \in todo \/ (weights[s] = step /\ version[s] = step)
       /\ pc \in {"resume_hybrid", "add"} => version[s] = step
       /\ pc = "resume_hybrid" => weights[s] = step
       /\ s \in pool => /\ pc \in {"sample", "remove", "step_end", "done"}
                        /\ pc \in {"sample", "step_end"} => mode = "rollout"

\* No version is reported or used before it exists.
Reported(r) ==
  /\ fresh[r] \subseteq {Current} /\ gen[r] \subseteq 0..Current
  /\ span[r].lo <= Current /\ part[r].lo <= Current /\ answer[r].steps <= Current

\* The first answer bounds the versions from below.
BoundedBelow(r) ==
  /\ span[r].lo # Unset => span[r].hi # Unset /\ \A v \in gen[r] : span[r].lo <= v
  /\ span[r].lo = Unset =>
       /\ at[r] = "sleeping" => part[r].lo # Unset
       /\ part[r].lo # Unset => \A v \in gen[r] : part[r].lo <= v
       /\ part[r].lo = Unset =>
            /\ at[r] \in {"idle", "routed", "serving"} => gen[r] = {}
            /\ at[r] = "answered" => \A v \in gen[r] : answer[r].steps <= v

\* The last answer bounds them from above: a server that is routed to has the current version.
BoundedAbove(r) ==
  /\ at[r] \in {"routed", "serving"} => \A v \in gen[r] : v <= version[held[r]]
  /\ at[r] = "answered" /\ answer[r].stop = "completed" => \A v \in gen[r] : v <= answer[r].steps
  /\ at[r] = "done" => span[r].lo # Unset /\ \A v \in gen[r] : v <= span[r].hi

RequestInv(r) == Reported(r) /\ BoundedBelow(r) /\ BoundedAbove(r)

VersionInv == EngineInv /\ \A r \in Requests : RequestInv(r)

\* The current version is a version.
LEMMA CurrentType == ASSUME TypeInv PROVE Current \in Nat /\ step \in Nat
BY RolloutAssumption DEF TypeInv, TypeOK, Current

\* At the start all versions are 0.
LEMMA InitVersions == Init => VersionInv
<1> SUFFICES ASSUME Init PROVE VersionInv
  OBVIOUS
<1>1. Current = 0
  BY DEF Init, Current
<1>2. EngineInv
  BY <1>1, RolloutAssumption DEF Init, EngineInv, Standalone
<1>3. ASSUME NEW r \in Requests PROVE RequestInv(r)
  BY <1>1 DEF Init, RequestInv, Reported, BoundedBelow, BoundedAbove, UnsetSpan, Unset, NoAnswer
<1> QED
  BY <1>2, <1>3 DEF VersionInv

\* The versions of a conversation and of its answers are numbers.
LEMMA RequestNumbers ==
  ASSUME TypeInv, NEW r \in Requests
  PROVE  /\ span[r].lo \in Int /\ span[r].hi \in Int /\ part[r].lo \in Int /\ part[r].hi \in Int
         /\ answer[r].steps \in Nat
         /\ span[r].lo # Unset => span[r].lo \in Nat
         /\ span[r].hi # Unset => span[r].hi \in Nat
         /\ part[r].lo # Unset => part[r].lo \in Nat
         /\ at[r] \in {"routed", "serving"} => held[r] \in Servers
BY RolloutAssumption DEF TypeInv, TypeOK, HeldInv, Span, Version, Unset

\* A conversation that does not move keeps its bounds, unless an update runs across it.
LEMMA KeepRequest ==
  ASSUME TypeInv, NEW q \in Requests, RequestInv(q),
         UNCHANGED <<at[q], held[q], answer[q], part[q], span[q], fresh[q], gen[q]>>,
         Current' \in Nat, Current <= Current', fresh[q] = {} \/ Current' = Current,
         \A s \in Servers : version[s] <= version'[s], version' \in [Servers -> Version]
  PROVE  RequestInv(q)'
<1>1. Current \in Nat
  BY CurrentType
<1>2. /\ fresh[q] \subseteq {Current} /\ gen[q] \subseteq 0..Current
      /\ span[q].lo <= Current /\ part[q].lo <= Current /\ answer[q].steps <= Current
  BY DEF RequestInv, Reported
<1>3. /\ span[q].lo \in Int /\ part[q].lo \in Int /\ answer[q].steps \in Int
  BY RequestNumbers
<1>4. Reported(q)'
  BY <1>1, <1>2, <1>3 DEF Reported
<1>5. BoundedBelow(q)'
  BY DEF RequestInv, BoundedBelow
<1>6. at[q] \in {"routed", "serving"} => \A v \in gen[q] : v <= version'[held[q]]
  <2> SUFFICES ASSUME at[q] \in {"routed", "serving"}, NEW v \in gen[q] PROVE v <= version'[held[q]]
    OBVIOUS
  <2>1. held[q] \in Servers
    BY RequestNumbers
  <2>2. v \in Int /\ version[held[q]] \in Int /\ version'[held[q]] \in Int
    BY <1>1, <1>2, <2>1 DEF TypeInv, TypeOK, Version
  <2>3. v <= version[held[q]] /\ version[held[q]] <= version'[held[q]]
    BY <2>1 DEF RequestInv, BoundedAbove
  <2> QED
    BY <2>2, <2>3
<1>7. BoundedAbove(q)'
  BY <1>6 DEF RequestInv, BoundedAbove
<1> QED
  BY <1>4, <1>5, <1>7 DEF RequestInv

\* The clients leave trainer and engines alone, and the pool.
LEMMA ClientFrame ==
  ASSUME NEW r \in Requests, Client(r) \/ Engine(r), EngineInv
  PROVE  /\ UNCHANGED <<pc, todo, mode, step, botched, paused, weights, version, pool>>
         /\ Current' = Current /\ EngineInv'
<1>1. UNCHANGED <<pc, todo, mode, step, botched, paused, weights, version>>
  BY DEF Client, Engine, Acquire, Arrive, Retry, Return, Release, Generate, Complete, ServerError,
     trainerVars, engineVars
<1>2. UNCHANGED pool
  BY DEF Client, Engine, Acquire, Arrive, Retry, Return, Release, Generate, Complete, ServerError,
     AcquireServer, ReleaseServer, lbVars
<1>3. Current' = Current /\ Dirty' = Dirty
  BY <1>1 DEF Current, Dirty
<1> QED
  BY <1>1, <1>2, <1>3 DEF EngineInv

\* Routing: a server of the pool has the current version.
LEMMA RouteRequest ==
  ASSUME TypeInv, EngineInv, NEW r \in Requests, RequestInv(r),
         Acquire(r) \/ Arrive(r) \/ Release(r),
         Current' = Current, version' = version
  PROVE  RequestInv(r)'
<1>1. Current \in Nat
  BY CurrentType
<1>t. /\ at \in [Requests -> {"idle", "routed", "serving", "answered", "sleeping", "done", "failed"}]
      /\ held \in [Requests -> Servers \cup {NoServer}]
  BY DEF TypeInv, TypeOK
<1>2. UNCHANGED <<answer, part, span, fresh, gen>>
  BY DEF Acquire, Arrive, Release
<1>3. \/ at[r] \in {"idle", "sleeping"} /\ at'[r] = "routed"
      \/ at[r] = "routed" /\ at'[r] = "serving"
      \/ at[r] \in {"idle", "sleeping", "done", "failed"} /\ at'[r] = at[r]
  BY <1>t DEF Acquire, Arrive, Release
<1>4. Reported(r)'
  BY <1>2 DEF RequestInv, Reported
<1>5. BoundedBelow(r)'
  BY <1>2, <1>3 DEF RequestInv, BoundedBelow
<1>6. at'[r] \in {"routed", "serving"} => \A v \in gen[r] : v <= version[held'[r]]
  <2>1. CASE Acquire(r)
    <3>1. PICK s \in Servers : AcquireServer(r, s) /\ held' = [held EXCEPT ![r] = s]
      BY <2>1 DEF Acquire
    <3>2. s \in pool /\ held'[r] = s
      BY <1>t, <3>1 DEF AcquireServer, RouteTo, StickyHit, LeastLoaded
    <3>3. version[held'[r]] = Current
      BY <3>2 DEF EngineInv
    <3> QED
      BY <1>1, <3>3 DEF RequestInv, Reported
  <2>2. CASE Arrive(r)
    BY <1>t, <2>2 DEF Arrive, RequestInv, BoundedAbove
  <2>3. CASE Release(r)
    BY <1>3, <2>3 DEF Release
  <2> QED
    BY <2>1, <2>2, <2>3
<1>7. BoundedAbove(r)'
  BY <1>2, <1>3, <1>6 DEF RequestInv, BoundedAbove
<1> QED
  BY <1>4, <1>5, <1>7 DEF RequestInv

\* Of a session that failed nothing is left.
LEMMA FailRequest ==
  ASSUME TypeInv, NEW r \in Requests, RequestInv(r), ServerError(r), Current' = Current
  PROVE  RequestInv(r)'
<1>1. Current \in Nat
  BY CurrentType
<1>2. /\ at'[r] = "failed" /\ part'[r] = UnsetSpan /\ span'[r] = UnsetSpan
      /\ fresh'[r] = {} /\ gen'[r] = {} /\ answer' = answer
  BY DEF ServerError, TypeInv, TypeOK
<1>3. part'[r].lo = Unset /\ span'[r].lo = Unset /\ Unset = -1
  BY <1>2 DEF UnsetSpan, Unset
<1>4. Reported(r)'
  BY <1>1, <1>2, <1>3 DEF RequestInv, Reported
<1>5. BoundedBelow(r)' /\ BoundedAbove(r)'
  BY <1>2, <1>3 DEF BoundedBelow, BoundedAbove
<1> QED
  BY <1>4, <1>5 DEF RequestInv

\* What runs on a server that is not dirty comes from the current version, and an answer
\* reports it.
LEMMA CleanVersion ==
  ASSUME TypeInv, ServingInv, EngineInv, NEW r \in Requests, at[r] = "serving", held[r] \notin Dirty
  PROVE  weights[held[r]] = Current /\ version[held[r]] = Current
<1>1. held[r] \in Servers /\ ~ paused[held[r]]
  BY RequestNumbers DEF ServingInv
<1> QED
  BY <1>1 DEF EngineInv

\* A request that is answered: tokens W of the current version are added to its history,
\* none on a dirty server.
LEMMA EndAttempt ==
  ASSUME TypeInv, ServingInv, EngineInv, NEW r \in Requests, RequestInv(r), at[r] = "serving",
         NEW W, W \subseteq {Current}, held[r] \in Dirty => W = {},
         at'[r] = "answered", answer'[r].steps = version[held[r]], fresh'[r] = {},
         gen'[r] = gen[r] \cup W, UNCHANGED <<part[r], span[r]>>, Current' = Current
  PROVE  RequestInv(r)'
<1>1. Current \in Nat /\ held[r] \in Servers /\ part[r].lo \in Int /\ span[r].lo \in Int
  BY CurrentType, RequestNumbers
<1>2. version[held[r]] \in Nat /\ version[held[r]] <= Current
  BY <1>1 DEF TypeInv, TypeOK, Version, EngineInv
<1>3. /\ gen[r] \subseteq 0..Current /\ span[r].lo <= Current /\ part[r].lo <= Current
  BY DEF RequestInv, Reported
<1>4. W # {} => version[held[r]] = Current
  BY CleanVersion
<1> PICK c \in Nat : c = Current
  BY <1>1
<1> PICK u \in Nat : u = version[held[r]]
  BY <1>2
<1>w. \A v \in W : v = c /\ u = c
  BY <1>4
<1>5. Reported(r)'
  <2>1. gen'[r] \subseteq 0..c
    <3>1. c \in 0..c
      OBVIOUS
    <3>2. gen[r] \subseteq 0..c /\ W \subseteq {c}
      BY <1>3
    <3> QED
      BY <3>1, <3>2
  <2>2. u <= c
    BY <1>2
  <2> QED
    BY <1>3, <2>1, <2>2 DEF Reported
<1>6. BoundedBelow(r)'
  <2>1. CASE span[r].lo # Unset
    BY <1>1, <1>3, <2>1 DEF RequestInv, BoundedBelow
  <2>2. CASE span[r].lo = Unset /\ part[r].lo # Unset
    BY <1>1, <1>3, <2>2 DEF RequestInv, BoundedBelow
  <2>3. CASE span[r].lo = Unset /\ part[r].lo = Unset
    <3>1. gen'[r] = W
      BY <2>3 DEF RequestInv, BoundedBelow
    <3>2. \A v \in gen'[r] : u <= v
      BY <1>w, <3>1
    <3> QED
      BY <2>3, <3>2 DEF BoundedBelow
  <2> QED
    BY <2>1, <2>2, <2>3
<1>7. \A v \in gen'[r] : v <= version[held[r]]
  <2>1. \A v \in gen[r] : v <= version[held[r]]
    BY DEF RequestInv, BoundedAbove
  <2> QED
    BY <1>w, <2>1
<1>8. BoundedAbove(r)'
  BY <1>7 DEF BoundedAbove
<1> QED
  BY <1>5, <1>6, <1>8 DEF RequestInv

\* Tokens, and the last one with its answer.
LEMMA GenerateRequest ==
  ASSUME TypeInv, ServingInv, EngineInv, NEW r \in Requests, RequestInv(r), Generate(r) \/ Complete(r),
         Current' = Current, version' = version
  PROVE  RequestInv(r)'
<1>t. /\ at \in [Requests -> {"idle", "routed", "serving", "answered", "sleeping", "done", "failed"}]
      /\ answer \in [Requests -> [stop : {"none", "aborted", "completed"}, steps : Version]]
      /\ fresh \in [Requests -> SUBSET (Version \cup {NoWeights})]
      /\ gen \in [Requests -> SUBSET (Version \cup {NoWeights})]
  BY DEF TypeInv, TypeOK
<1>1. at[r] = "serving" /\ UNCHANGED <<held, part, span>>
  BY DEF Generate, Complete, Running
<1>2. held[r] \notin Dirty => weights[held[r]] = Current
  BY <1>1, CleanVersion
<1>3. fresh[r] \subseteq {Current}
  BY DEF RequestInv, Reported
<1>4. CASE Generate(r)
  <2>1. fresh'[r] \subseteq {Current} /\ UNCHANGED <<at, held, answer, part, span, gen>>
    BY <1>2, <1>3, <1>4, <1>t DEF Generate
  <2> QED
    BY <2>1 DEF RequestInv, Reported, BoundedBelow, BoundedAbove
<1>5. CASE Complete(r)
  <2> DEFINE W == IF held[r] \in Dirty THEN {} ELSE fresh[r] \cup {weights[held[r]]}
  <2>1. W \subseteq {Current} /\ (held[r] \in Dirty => W = {})
    BY <1>2, <1>3
  <2>2. /\ at'[r] = "answered" /\ answer'[r].steps = version[held[r]] /\ fresh'[r] = {}
        /\ gen'[r] = gen[r] \cup W
    BY <1>5, <1>t DEF Complete
  <2> HIDE DEF W
  <2> QED
    BY <1>1, <2>1, <2>2, EndAttempt
<1> QED
  BY <1>4, <1>5

\* The versions after an answer: the first one's below, the last one's above.
LEMMA AnswerRequest ==
  ASSUME TypeInv, ServingInv, NEW r \in Requests, RequestInv(r), Retry(r) \/ Return(r),
         Current' = Current
  PROVE  RequestInv(r)'
<1>1. /\ Current \in Nat /\ part[r].lo \in Int /\ span[r].lo \in Int /\ span[r].hi \in Int
      /\ answer[r].steps \in Nat /\ (span[r].hi # Unset => span[r].hi \in Nat) /\ Unset = -1
  BY CurrentType, RequestNumbers DEF Unset
<1>t. /\ at \in [Requests -> {"idle", "routed", "serving", "answered", "sleeping", "done", "failed"}]
      /\ answer \in [Requests -> [stop : {"none", "aborted", "completed"}, steps : Version]]
      /\ part \in [Requests -> Span] /\ span \in [Requests -> Span]
  BY DEF TypeInv, TypeOK
<1> DEFINE a == answer[r].steps
           p == IF part[r].lo = Unset THEN a ELSE part[r].lo
<1>2. /\ at[r] = "answered" /\ gen' = gen /\ fresh' = fresh /\ answer'[r].steps = 0
  BY <1>t DEF Retry, Return, NoAnswer
<1>3. Merged(part[r], a) = [lo |-> p, hi |-> a]
  BY DEF Merged
<1>4. /\ gen[r] \subseteq 0..Current /\ span[r].lo <= Current /\ part[r].lo <= Current /\ a <= Current
      /\ fresh[r] \subseteq {Current}
  BY DEF RequestInv, Reported
<1>5. p # Unset /\ p <= Current
  BY <1>1, <1>4
<1>6. span[r].lo = Unset => \A v \in gen[r] : p <= v
  BY <1>2 DEF RequestInv, BoundedBelow
<1>7. CASE Retry(r)
  <2>1. at'[r] = "sleeping" /\ span' = span /\ part'[r] = [lo |-> p, hi |-> a]
    BY <1>3, <1>7, <1>t DEF Retry
  <2>2. part'[r].lo = p
    BY <2>1
  <2>3. Reported(r)'
    BY <1>1, <1>2, <1>4, <1>5, <2>1, <2>2 DEF Reported
  <2>4. BoundedBelow(r)'
    <3> HIDE DEF p
    <3> QED
      BY <1>2, <1>5, <1>6, <2>1, <2>2 DEF RequestInv, BoundedBelow
  <2>5. BoundedAbove(r)'
    BY <2>1 DEF BoundedAbove
  <2> QED
    BY <2>3, <2>4, <2>5 DEF RequestInv
<1>8. CASE Return(r)
  <2>1. /\ at'[r] \in {"done", "idle"} /\ answer[r].stop = "completed"
        /\ span'[r] = Committed(span[r], [lo |-> p, hi |-> a]) /\ part'[r] = UnsetSpan
    BY <1>3, <1>8, <1>t DEF Return
  <2>2. part'[r].lo = Unset
    BY <2>1 DEF UnsetSpan
  <2>3. \A v \in gen[r] : v <= a
    BY <1>2, <2>1 DEF RequestInv, BoundedAbove
  <2>4. CASE span[r].lo = Unset
    <3>1. span'[r] = [lo |-> p, hi |-> a]
      BY <2>1, <2>4 DEF Committed
    <3>2. span'[r].lo = p /\ span'[r].hi = a
      BY <3>1
    <3>3. Reported(r)'
      BY <1>1, <1>2, <1>4, <1>5, <2>2, <3>2 DEF Reported
    <3>4. BoundedBelow(r)'
      <4>1. a # Unset
        BY <1>1
      <4> HIDE DEF p, a
      <4> QED
        BY <1>2, <1>5, <1>6, <2>4, <3>2, <4>1 DEF BoundedBelow
    <3>5. BoundedAbove(r)'
      <4> HIDE DEF p, a
      <4> QED
        BY <1>2, <1>5, <2>1, <2>3, <3>2 DEF BoundedAbove
    <3> QED
      BY <3>3, <3>4, <3>5 DEF RequestInv
  <2>5. CASE span[r].lo # Unset
    <3>1. span'[r] = [span[r] EXCEPT !.hi = IF a # 0 THEN a ELSE @]
      BY <2>1, <2>5 DEF Committed
    <3>2. span'[r].lo = span[r].lo /\ span'[r].hi = (IF a # 0 THEN a ELSE span[r].hi)
      <4>1. span[r] \in Span
        BY <1>t
      <4> QED
        BY <3>1, <4>1 DEF Span
    <3>3. span[r].hi # Unset /\ \A v \in gen[r] : span[r].lo <= v
      BY <2>5 DEF RequestInv, BoundedBelow
    <3>4. Reported(r)'
      BY <1>1, <1>2, <1>4, <1>5, <2>2, <3>2 DEF Reported
    <3>5. span'[r].hi # Unset
      BY <1>1, <3>2, <3>3
    <3>6. BoundedBelow(r)'
      BY <1>2, <2>5, <3>2, <3>3, <3>5 DEF BoundedBelow
    <3>7. \A v \in gen[r] : v <= span'[r].hi
      BY <1>1, <1>4, <2>3, <3>2, <3>3
    <3>8. BoundedAbove(r)'
      BY <1>2, <2>1, <2>5, <3>2, <3>7 DEF BoundedAbove
    <3> QED
      BY <3>4, <3>6, <3>8 DEF RequestInv
  <2> QED
    BY <2>4, <2>5
<1> QED
  BY <1>7, <1>8

\* A step of a conversation keeps the bounds of all.
LEMMA ClientVersions ==
  ASSUME TypeInv, ServingInv, VersionInv, NEW r \in Requests, Client(r) \/ Engine(r)
  PROVE  VersionInv'
<1>1. EngineInv' /\ Current' = Current /\ version' = version /\ EngineInv
  BY ClientFrame DEF VersionInv
<1>2. RequestInv(r)'
  BY <1>1, RouteRequest, FailRequest, GenerateRequest, AnswerRequest DEF VersionInv, Client, Engine
<1>3. ASSUME NEW q \in Requests, q # r PROVE RequestInv(q)'
  <2>1. UNCHANGED <<at[q], held[q], answer[q], part[q], span[q], fresh[q], gen[q]>>
    <3>t. /\ at \in [Requests -> {"idle", "routed", "serving", "answered", "sleeping", "done", "failed"}]
          /\ held \in [Requests -> Servers \cup {NoServer}]
          /\ answer \in [Requests -> [stop : {"none", "aborted", "completed"}, steps : Version]]
          /\ part \in [Requests -> Span] /\ span \in [Requests -> Span]
          /\ fresh \in [Requests -> SUBSET (Version \cup {NoWeights})]
          /\ gen \in [Requests -> SUBSET (Version \cup {NoWeights})]
      BY DEF TypeInv, TypeOK
    <3> QED
      BY <1>3, <3>t DEF Client, Engine, Acquire, Arrive, Retry, Return, Release, Generate, Complete,
         ServerError
  <2>2. Current \in Nat /\ Current <= Current
    BY CurrentType
  <2>3. \A s \in Servers : version[s] \in Int /\ version[s] <= version'[s]
    BY <1>1 DEF TypeInv, TypeOK, Version
  <2>4. version' \in [Servers -> Version]
    BY <1>1 DEF TypeInv, TypeOK
  <2> QED
    BY <1>1, <2>1, <2>2, <2>3, <2>4, KeepRequest DEF VersionInv
<1> QED
  BY <1>1, <1>2, <1>3 DEF VersionInv

\* The trainer changes the version of a clean engine only while it is paused.
LEMMA TrainerEngines ==
  ASSUME TypeInv, WeightInv, EngineInv, Trainer
  PROVE  EngineInv'
<1>t. /\ paused \in [Servers -> BOOLEAN] /\ weights \in [Servers -> Version \cup {NoWeights}]
      /\ version \in [Servers -> Version] /\ step \in Int /\ GatherInv /\ pool \subseteq Servers
      /\ Standalone = Servers \ Hybrid /\ Hybrid \subseteq Servers /\ botched \in SUBSET Servers
      /\ Version \subseteq Int /\ mode \in {"trainer", "rollout"}
  BY RolloutAssumption DEF TypeInv, TypeOK, LbTypeOK, Standalone, Version
<1>1. CASE OnSampleEnd
  <2>1. /\ pc = "sample" /\ UNCHANGED <<mode, step, botched, paused, weights, version, pool>>
        /\ pc' = (IF mode = "rollout" THEN "remove" ELSE "abort")
    BY <1>1 DEF OnSampleEnd, engineVars, lbVars
  <2>2. Current' = Current /\ Dirty' = Dirty
    BY <2>1 DEF Current, Dirty
  <2> QED
    BY <1>t, <2>1, <2>2 DEF EngineInv
<1>2. CASE RemoveReplicasFromBalancer
  <2>1. /\ UNCHANGED <<mode, step, botched, paused, weights, version>>
        /\ pc = "remove" /\ pc' = "abort_hybrid" /\ pool' = pool \ Hybrid
    BY <1>2 DEF RemoveReplicasFromBalancer, RemoveServers, engineVars
  <2>2. Current' = Current /\ Dirty' = Dirty
    BY <2>1 DEF Current, Dirty
  <2> QED
    BY <1>t, <2>1, <2>2 DEF EngineInv
<1>3. CASE AddReplicasToBalancer
  <2>1. /\ UNCHANGED <<step, botched, paused, weights, version>>
        /\ pc = "add" /\ pc' = "step_end" /\ mode' = "rollout" /\ pool' = pool \cup Hybrid
    BY <1>3 DEF AddReplicasToBalancer, AddServers, engineVars
  <2>2. Current' = Current /\ Dirty' = Dirty /\ Current = step
    BY <2>1 DEF Current, Dirty
  <2> QED
    BY <1>t, <2>1, <2>2 DEF EngineInv
<1>4. CASE BeginUpdate
  <2>1. /\ pc = "sync" /\ pc' = "transfer" /\ UNCHANGED <<step, mode, botched, paused, version, pool>>
        /\ weights' = [s \in Servers |-> IF s \in Standalone THEN NoWeights ELSE weights[s]]
    BY <1>4 DEF BeginUpdate, lbVars
  <2>2. Current' = Current /\ Dirty' = Dirty
    BY <2>1 DEF Current, Dirty
  <2>3. \A s \in Standalone : s \in Dirty \/ paused[s]
    BY <2>1 DEF WeightInv
  <2> QED
    BY <1>t, <2>1, <2>2, <2>3 DEF EngineInv
<1>5. CASE EndUpdate
  <2>1. /\ pc = "transfer" /\ pc' = "resume" /\ UNCHANGED <<step, mode, botched, paused, pool>>
        /\ weights' = [s \in Servers |-> IF s \in Standalone THEN step ELSE weights[s]]
        /\ version' = [s \in Servers |-> IF s \in Standalone THEN step ELSE version[s]]
    BY <1>5 DEF EndUpdate, lbVars
  <2>2. Current' = step /\ Dirty' = Dirty /\ Current = step - 1
    BY <2>1 DEF Current, Dirty
  <2>3. \A s \in Servers : s \in Dirty \/ paused[s]
    BY <1>t, <2>1 DEF WeightInv, EngineInv
  <2>4. \A s \in Servers : version[s] <= step
    <3> SUFFICES ASSUME NEW s \in Servers PROVE version[s] <= step
      OBVIOUS
    <3>1. version[s] \in Int /\ version[s] <= Current
      BY <1>t DEF EngineInv
    <3> QED
      BY <1>t, <2>2, <3>1
  <2> QED
    BY <1>t, <2>1, <2>2, <2>3, <2>4 DEF EngineInv
<1>6. CASE StepEnd
  <2>1. /\ pc = "step_end" /\ pc' \in {"done", "sample"} /\ step' = step + 1
        /\ UNCHANGED <<mode, botched, paused, weights, version, pool>>
    BY <1>6 DEF StepEnd, engineVars, lbVars
  <2>2. Current' = Current /\ Dirty' = Dirty
    BY <1>t, <2>1 DEF Current, Dirty
  <2> QED
    BY <1>t, <2>1, <2>2 DEF EngineInv
<1>7. ASSUME NEW s \in Servers, AbortHybrid(s) \/ AbortStandalone(s) PROVE EngineInv'
  <2>1. AbortAllRequests(s)
    BY <1>7 DEF AbortHybrid, AbortStandalone
  <2>2. /\ UNCHANGED <<step, mode, weights, version, pool>>
        /\ s \in Dirty' \/ paused'[s]
        /\ \A h \in Servers \ {s} : paused'[h] = paused[h]
        /\ Dirty \subseteq Dirty'
    BY <1>t, <2>1, AbortCases DEF Abort, lbVars
  <2>3. \/ pc = "abort_hybrid" /\ pc' = "abort_hybrid"
        \/ pc = "abort_hybrid" /\ pc' = "sleep" /\ todo = {s}
        \/ pc = "abort" /\ pc' \in {"abort", "sync"}
    BY <1>7 DEF AbortHybrid, AbortStandalone, Gather
  <2>4. Current' = Current
    BY <2>2, <2>3 DEF Current
  <2>5. ASSUME NEW h \in Servers, h \in Dirty \/ paused[h] PROVE h \in Dirty' \/ paused'[h]
    BY <2>2, <2>5
  <2>6. pc' = "sleep" => \A h \in Hybrid : h \in Dirty' \/ paused'[h]
    BY <1>t, <2>2, <2>3, <2>5 DEF WeightInv
  <2> QED
    BY <1>t, <2>2, <2>3, <2>4, <2>5, <2>6 DEF EngineInv
<1>8. ASSUME NEW s \in Servers, SleepReplica(s) PROVE EngineInv'
  <2>1. /\ pc = "sleep" /\ pc' \in {"sleep", "abort"} /\ s \in Hybrid
        /\ UNCHANGED <<step, botched, paused, version, pool>>
        /\ weights' = [weights EXCEPT ![s] = NoWeights]
    BY <1>8, <1>t DEF SleepReplica, Gather, GatherInv, lbVars
  <2>2. Current' = Current /\ Dirty' = Dirty
    BY <2>1 DEF Current, Dirty
  <2> QED
    BY <1>t, <2>1, <2>2 DEF EngineInv
<1>9. ASSUME NEW s \in Servers, ResumeStandalone(s) PROVE EngineInv'
  <2>1. /\ pc = "resume" /\ s \in Standalone /\ UNCHANGED <<step, mode, botched, weights, version, pool>>
        /\ paused' = [paused EXCEPT ![s] = FALSE]
    BY <1>9, <1>t DEF ResumeStandalone, ResumeGeneration, Gather, GatherInv, lbVars
  <2>2. \/ pc' \in {"resume", "step_end"}
        \/ pc' = "reload" /\ todo' = Hybrid
    BY <1>9, <2>1 DEF ResumeStandalone, Gather, Validation
  <2>3. Current' = Current /\ Dirty' = Dirty
    BY <2>1, <2>2 DEF Current, Dirty
  <2> QED
    BY <1>t, <2>1, <2>2, <2>3 DEF EngineInv
<1>10. ASSUME NEW s \in Servers, ReloadReplica(s) PROVE EngineInv'
  <2>1. /\ pc = "reload" /\ s \in Hybrid /\ UNCHANGED <<step, mode, botched, paused, pool>>
        /\ weights' = [weights EXCEPT ![s] = step] /\ version' = [version EXCEPT ![s] = step]
    BY <1>10, <1>t DEF ReloadReplica, Gather, GatherInv, lbVars
  <2>2. \/ pc' = "reload" /\ todo' = todo \ {s}
        \/ pc' = "resume_hybrid" /\ todo = {s}
    BY <1>10, <2>1 DEF ReloadReplica, Gather
  <2>3. Current' = Current /\ Dirty' = Dirty /\ Current = step
    BY <2>1, <2>2 DEF Current, Dirty
  <2>4. /\ \A h \in Standalone : weights'[h] = weights[h] /\ version'[h] = version[h]
        /\ \A h \in Hybrid \ {s} : weights'[h] = weights[h] /\ version'[h] = version[h]
        /\ weights'[s] = step /\ version'[s] = step /\ step <= step
    BY <1>t, <2>1
  <2> QED
    BY <1>t, <2>1, <2>2, <2>3, <2>4 DEF EngineInv
<1>11. ASSUME NEW s \in Servers, ResumeHybrid(s) PROVE EngineInv'
  <2>1. /\ pc = "resume_hybrid" /\ s \in Hybrid /\ UNCHANGED <<step, mode, botched, weights, version, pool>>
        /\ paused' = [paused EXCEPT ![s] = FALSE] /\ pc' \in {"resume_hybrid", "add"}
    BY <1>11, <1>t DEF ResumeHybrid, ResumeGeneration, Gather, GatherInv, lbVars
  <2>2. Current' = Current /\ Dirty' = Dirty /\ Current = step
    BY <2>1 DEF Current, Dirty
  <2> QED
    BY <1>t, <2>1, <2>2 DEF EngineInv
<1> QED
  BY <1>1, <1>2, <1>3, <1>4, <1>5, <1>6, <1>7, <1>8, <1>9, <1>10, <1>11 DEF Trainer

\* An abort reports the version of the server to all it answers; what it leaves running has
\* no history on that server any more.
LEMMA AbortRequest ==
  ASSUME TypeInv, ServingInv, EngineInv, NEW s \in Servers, AbortAllRequests(s), Current' = Current,
         NEW q \in Requests, RequestInv(q)
  PROVE  RequestInv(q)'
<1>1. Current \in Nat /\ paused \in [Servers -> BOOLEAN] /\ botched \in SUBSET Servers
  BY CurrentType DEF TypeInv, TypeOK
<1>2. PICK A \in SUBSET Running(s) : Abort(s, A)
  BY <1>1, AbortCases
<1>3. /\ UNCHANGED <<held, part, span, version>>
      /\ at'[q] = (IF q \in A THEN "answered" ELSE at[q])
      /\ answer'[q] = (IF q \in A THEN [stop |-> "aborted", steps |-> version[s]] ELSE answer[q])
      /\ fresh'[q] = (IF q \in Running(s) THEN {} ELSE fresh[q])
      /\ gen'[q] = (IF q \in A /\ s \notin Dirty THEN gen[q] \cup fresh[q] ELSE gen[q])
  BY <1>2 DEF Abort
<1>4. CASE q \in A
  <2> DEFINE W == IF s \in Dirty THEN {} ELSE fresh[q]
  <2>1. at[q] = "serving" /\ held[q] = s
    BY <1>2, <1>4 DEF Running
  <2>2. W \subseteq {Current} /\ (held[q] \in Dirty => W = {})
    BY <2>1 DEF RequestInv, Reported
  <2>3. /\ at'[q] = "answered" /\ answer'[q].steps = version[held[q]] /\ fresh'[q] = {}
        /\ gen'[q] = gen[q] \cup W
    BY <1>2, <1>3, <1>4, <2>1
  <2> HIDE DEF W
  <2> QED
    BY <1>3, <2>1, <2>2, <2>3, EndAttempt
<1>5. CASE q \notin A
  <2>1. UNCHANGED <<at[q], held[q], answer[q], part[q], span[q], gen[q], version>>
        /\ (fresh'[q] = {} \/ fresh'[q] = fresh[q])
    BY <1>3, <1>5
  <2>2. fresh'[q] \subseteq {Current}
    BY <2>1 DEF RequestInv, Reported
  <2> QED
    BY <2>1, <2>2 DEF RequestInv, Reported, BoundedBelow, BoundedAbove
<1> QED
  BY <1>4, <1>5

\* The trainer keeps the bounds of all conversations.
LEMMA TrainerVersions ==
  ASSUME TypeInv, ServingInv, WeightInv, VersionInv, Trainer
  PROVE  VersionInv'
<1>n. EngineInv /\ EngineInv' /\ \A q \in Requests : RequestInv(q)
  BY TrainerEngines DEF VersionInv
<1>c. /\ Current \in Nat /\ Current <= Current /\ step \in Nat
      /\ version \in [Servers -> Version] /\ \A s \in Servers : version[s] \in Int /\ version[s] <= version[s]
  BY CurrentType DEF TypeInv, TypeOK, Version
<1>v. version' \in [Servers -> Version]
  BY TrainerType DEF TypeInv, TypeOK
<1>1. ASSUME UNCHANGED <<clientVars, version>>, Current' = Current PROVE VersionInv'
  <2>1. \A q \in Requests : RequestInv(q)'
    BY <1>1, <1>c, <1>n, <1>v, KeepRequest DEF clientVars
  <2> QED
    BY <1>n, <2>1 DEF VersionInv
<1>2. CASE \/ OnSampleEnd \/ RemoveReplicasFromBalancer \/ BeginUpdate \/ AddReplicasToBalancer
           \/ \E s \in Servers : SleepReplica(s) \/ ResumeStandalone(s) \/ ResumeHybrid(s)
  <2>1. UNCHANGED <<clientVars, version>>
    BY <1>2 DEF OnSampleEnd, RemoveReplicasFromBalancer, BeginUpdate, AddReplicasToBalancer,
       SleepReplica, ResumeStandalone, ResumeHybrid, engineVars
  <2>2. Current' = Current
    BY <1>2 DEF OnSampleEnd, RemoveReplicasFromBalancer, BeginUpdate, AddReplicasToBalancer,
       SleepReplica, ResumeStandalone, ResumeHybrid, Gather, Validation, Current
  <2> QED
    BY <1>1, <2>1, <2>2
<1>3. CASE StepEnd
  BY <1>1, <1>3, <1>c DEF StepEnd, Current, engineVars
<1>4. ASSUME NEW s \in Servers, ReloadReplica(s) PROVE VersionInv'
  <2>1. UNCHANGED clientVars /\ version' = [version EXCEPT ![s] = step] /\ Current' = Current /\ Current = step
    BY <1>4 DEF ReloadReplica, Gather, Current
  <2>2. \A h \in Servers : version[h] <= version'[h]
    BY <1>c, <1>n, <2>1 DEF EngineInv
  <2>3. \A q \in Requests : RequestInv(q)'
    BY <1>c, <1>n, <1>v, <2>1, <2>2, KeepRequest DEF clientVars
  <2> QED
    BY <1>n, <2>3 DEF VersionInv
<1>5. CASE EndUpdate
  <2>1. /\ pc = "transfer" /\ pc' = "resume" /\ step' = step /\ UNCHANGED clientVars
        /\ version' = [s \in Servers |-> IF s \in Standalone THEN step ELSE version[s]]
    BY <1>5 DEF EndUpdate
  <2>2. Current' = step /\ Current = step - 1
    BY <2>1 DEF Current
  <2>3. Current' \in Nat /\ Current <= Current'
    BY <1>c, <2>2
  <2>4. \A s \in Servers : s \in Dirty \/ paused[s]
    BY <1>n, <2>1 DEF WeightInv, EngineInv, Standalone
  <2>5. \A h \in Servers : version[h] <= version'[h]
    BY <1>c, <1>n, <2>1, <2>2 DEF EngineInv
  <2>6. ASSUME NEW q \in Requests PROVE RequestInv(q)'
    <3>1. fresh[q] = {}
      BY <2>4, RequestNumbers DEF ServingInv
    <3> QED
      BY <1>n, <1>v, <2>1, <2>3, <2>5, <3>1, KeepRequest DEF clientVars
  <2> QED
    BY <1>n, <2>6 DEF VersionInv
<1>6. ASSUME NEW s \in Servers, AbortHybrid(s) \/ AbortStandalone(s) PROVE VersionInv'
  <2>1. AbortAllRequests(s)
    BY <1>6 DEF AbortHybrid, AbortStandalone
  <2>2. step' = step
    BY <2>1, AbortCases DEF Abort, TypeInv, TypeOK
  <2>3. Current' = Current
    BY <1>6, <2>2 DEF AbortHybrid, AbortStandalone, Gather, Current
  <2> QED
    BY <1>n, <2>1, <2>3, AbortRequest DEF VersionInv
<1> QED
  BY <1>2, <1>3, <1>4, <1>5, <1>6 DEF Trainer

\* The versions after every step.
LEMMA NextVersions == TypeInv /\ WeightsInv /\ VersionInv /\ [Next]_vars => VersionInv'
<1> SUFFICES ASSUME TypeInv, WeightsInv, VersionInv, [Next]_vars PROVE VersionInv'
  OBVIOUS
<1>1. CASE UNCHANGED vars
  <2>1. UNCHANGED <<pc, todo, mode, step, botched, paused, weights, version, pool, at, held, answer,
                    part, span, fresh, gen>>
    BY <1>1 DEF vars, lbVars, trainerVars, engineVars, clientVars
  <2>2. Current' = Current /\ Dirty' = Dirty
    BY <2>1 DEF Current, Dirty
  <2>3. EngineInv'
    BY <2>1, <2>2 DEF VersionInv, EngineInv
  <2>4. \A q \in Requests : RequestInv(q)'
    BY <2>1, <2>2 DEF VersionInv, RequestInv, Reported, BoundedBelow, BoundedAbove
  <2> QED
    BY <2>3, <2>4 DEF VersionInv
<1> QED
  BY <1>1, ClientVersions, TrainerVersions DEF Next, Terminated, WeightsInv

\* The min_global_steps and max_global_steps of a finished trajectory enclose the versions of
\* all its tokens from servers whose abort pauses and has not raised, over any number of
\* turns, aborts, retries and servers, whatever the other servers report in between.
THEOREM SpanEnclosesVersions == Spec => []VersionSpan
<1>1. VersionInv => VersionSpan
  BY DEF VersionInv, RequestInv, BoundedBelow, BoundedAbove, VersionSpan
<1> QED
  BY <1>1, InitType, NextType, InitWeights, NextWeights, InitVersions, NextVersions, PTL DEF Spec

-----------------------------------------------------------------------------
(* The routes of the conversations. *)

\* The step of StickySessions.
StickyStep ==
  \A r \in Requests : route[r] \in pool =>
    /\ held'[r] \in {held[r], NoServer, route[r]}
    /\ route'[r] # route[r] => route'[r] = NoServer /\ Cardinality(since'[r]) >= CacheSize

\* An entry that a full cache evicts was not used for CacheSize other conversations.
LEMMA EvictedLate ==
  ASSUME LbTypeOK, NEW r \in Requests, NEW q \in Evicted(r), Use(r)
  PROVE  Cardinality(since'[q]) >= CacheSize
<1> DEFINE C == Cached \ {r}
           D == Cached \ {q, r}
<1>1. q \in C /\ Cardinality(C) >= CacheSize /\ D \subseteq since[q] /\ q \in Requests /\ q # r
  BY DEF Evicted, Cached
<1>2. since'[q] = since[q] \cup {r} /\ since[q] \subseteq Requests
  BY <1>1 DEF Use, LbTypeOK
<1>3. IsFiniteSet(C) /\ IsFiniteSet(since'[q])
  <2>1. C \subseteq Requests /\ since'[q] \subseteq Requests /\ IsFiniteSet(Requests)
    BY <1>2, BalancerAssumption DEF Cached
  <2> QED
    BY <2>1, FS_Subset
<1>4. D = C \ {q}
  OBVIOUS
<1>5. IsFiniteSet(D) /\ Cardinality(D) = Cardinality(C) - 1
  BY <1>1, <1>3, <1>4, FS_RemoveElement
<1>6. r \notin D
  OBVIOUS
<1>7. IsFiniteSet(D \cup {r}) /\ Cardinality(D \cup {r}) = Cardinality(D) + 1
  BY <1>5, <1>6, FS_AddElement
<1>8. D \cup {r} \subseteq since'[q]
  BY <1>1, <1>2
<1>9. Cardinality(D \cup {r}) <= Cardinality(since'[q])
  BY <1>3, <1>8, FS_Subset
<1>10. /\ Cardinality(C) \in Nat /\ Cardinality(D) \in Nat /\ Cardinality(D \cup {r}) \in Nat
       /\ Cardinality(since'[q]) \in Nat /\ CacheSize \in Nat
  BY <1>3, <1>5, <1>7, FS_CardinalityType, BalancerAssumption
<1> HIDE DEF C, D
<1> QED
  BY <1>1, <1>5, <1>7, <1>9, <1>10

\* Only an acquire changes a route.
LEMMA StickyNext == TypeInv /\ [Next]_vars => StickyStep
<1> SUFFICES ASSUME TypeInv, [Next]_vars PROVE StickyStep
  OBVIOUS
<1>t. LbTypeOK /\ held \in [Requests -> Servers \cup {NoServer}] /\ route \in [Requests -> Servers \cup {NoServer}]
  BY DEF TypeInv, TypeOK, LbTypeOK
<1>1. ASSUME NEW r \in Requests, Acquire(r) PROVE StickyStep
  <2>1. PICK s \in Servers : AcquireServer(r, s) /\ held' = [held EXCEPT ![r] = s]
    BY <1>1 DEF Acquire
  <2>2. RouteTo(r, s) /\ Use(r)
    BY <2>1 DEF AcquireServer
  <2>3. ASSUME NEW q \in Requests, route[q] \in pool
        PROVE  /\ held'[q] \in {held[q], NoServer, route[q]}
               /\ route'[q] # route[q] => route'[q] = NoServer /\ Cardinality(since'[q]) >= CacheSize
    <3>1. CASE q = r
      <4>1. StickyHit(r)
        BY <2>3, <3>1 DEF StickyHit
      <4>2. s = route[r] /\ route' = route
        BY <2>2, <4>1 DEF RouteTo
      <4> QED
        BY <1>t, <2>1, <3>1, <4>2
    <3>2. CASE q # r
      <4>1. held'[q] = held[q]
        BY <1>t, <2>1, <3>2
      <4>2. route'[q] = route[q] \/ (q \in Evicted(r) /\ route'[q] = NoServer)
        BY <2>2, <3>2 DEF RouteTo
      <4> QED
        BY <1>t, <2>2, <4>1, <4>2, EvictedLate
    <3> QED
      BY <3>1, <3>2
  <2> QED
    BY <2>3 DEF StickyStep
<1>2. CASE route' = route /\ held' = held
  BY <1>2 DEF StickyStep
<1>3. ASSUME NEW r \in Requests, Release(r) PROVE StickyStep
  <2>1. route' = route /\ held' = [held EXCEPT ![r] = NoServer]
    BY <1>3 DEF Release, ReleaseServer
  <2> QED
    BY <1>t, <2>1 DEF StickyStep
<1>4. ASSUME NEW r \in Requests, Arrive(r) \/ Retry(r) \/ Return(r) \/ Engine(r) PROVE StickyStep
  BY <1>2, <1>4 DEF Arrive, Retry, Return, Engine, Generate, Complete, ServerError, lbVars
<1>5. CASE Trainer
  BY <1>2, <1>5 DEF Trainer, OnSampleEnd, RemoveReplicasFromBalancer, BeginUpdate, EndUpdate,
     AddReplicasToBalancer, StepEnd, AbortHybrid, SleepReplica, AbortStandalone, ResumeStandalone,
     ReloadReplica, ResumeHybrid, AbortAllRequests, AbortAll, AbortRaises, Abort, AddServers,
     RemoveServers, lbVars, clientVars
<1>6. CASE UNCHANGED vars
  BY <1>2, <1>6 DEF vars, lbVars, clientVars
<1> QED
  BY <1>1, <1>3, <1>4, <1>5, <1>6 DEF Next, Client, Terminated

\* A conversation stays on its server while that is in the pool, and its route is lost
\* only to CacheSize other conversations, for any number of servers and conversations.
THEOREM ConversationsSticky == Spec => StickySessions
<1>1. TypeInv /\ [Next]_vars => [StickyStep]_vars
  BY StickyNext
<1>2. StickySessions <=> [][StickyStep]_vars
  BY DEF StickySessions, StickyStep
<1> QED
  BY <1>1, <1>2, InitType, NextType, PTL DEF Spec
=============================================================================
