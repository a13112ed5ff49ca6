---------------------------- MODULE LoadBalancer ----------------------------
(***************************************************************************)
(* GlobalRequestLoadBalancer (workers/rollout/llm_server.py): one actor    *)
(* that routes the requests of all agent loop workers.  Its methods run    *)
(* one at a time, so each is one action on its state.                      *)
(***************************************************************************)
EXTENDS Integers, FiniteSets

CONSTANTS
  Servers,   \* server ids, of both kinds of replicas
  Requests,  \* request ids: one for each conversation of an agent loop
  NoServer,  \* None
  CacheSize  \* max_cache_size of the routing cache

ASSUME BalancerAssumption ==
  /\ IsFiniteSet(Servers) /\ IsFiniteSet(Requests)
  /\ NoServer \notin Servers /\ CacheSize \in Nat \ {0}

VARIABLES
  pool,      \* the keys of _inflight_requests (and of _servers)
  inflight,  \* the values of _inflight_requests; 0 outside the pool
  route,     \* _request_id_to_server, NoServer for a request without an entry
  since      \* the requests used since r was: the order an LRUCache keeps

lbVars == <<pool, inflight, route, since>>

LbTypeOK ==
  /\ pool \in SUBSET Servers
  /\ inflight \in [Servers -> Nat]
  /\ route \in [Requests -> Servers \cup {NoServer}]
  /\ since \in [Requests -> SUBSET Requests]

LbInit(servers) ==
  /\ pool = servers
  /\ inflight = [s \in Servers |-> 0]
  /\ route = [r \in Requests |-> NoServer]
  /\ since = [r \in Requests |-> {}]

-----------------------------------------------------------------------------
\* LRUCache (cachetools): reading or writing an entry makes it the most recent one.
Use(r) == since' = [q \in Requests |-> IF q = r THEN {} ELSE since[q] \cup {r}]

Cached == {r \in Requests : route[r] # NoServer}

\* Storing one more entry in a full cache evicts the least recently used one: all other
\* entries were used since.
Evicted(r) ==
  {q \in Cached \ {r} : /\ Cardinality(Cached \ {r}) >= CacheSize
                        /\ Cached \ {q, r} \subseteq since[q]}

\* The candidates of acquire_server.  One candidate is the first of the dictionary, or
\* the one hash(request_id) names under full_determinism; both are some candidate.
LeastLoaded == {s \in pool : \A t \in pool : inflight[s] <= inflight[t]}

\* The cached server is still in the pool.
StickyHit(r) == route[r] \in pool

\* Mutant: the cache is not asked, every attempt goes to a least loaded server.
LeastLoadedAlways(r, s) ==
  /\ s \in LeastLoaded
  /\ route' = [route EXCEPT ![r] = s]

\* The server acquire_server picks, and the routing cache afterwards.
RouteTo(r, s) ==
  \/ /\ StickyHit(r)
     /\ s = route[r]
     /\ UNCHANGED route
  \/ /\ ~ StickyHit(r)
     /\ s \in LeastLoaded
     /\ route' = [q \in Requests |-> IF q = r THEN s
                                     ELSE IF q \in Evicted(r) THEN NoServer ELSE route[q]]

AcquireServer(r, s) ==
  /\ RouteTo(r, s)
  /\ Use(r)
  /\ inflight' = [inflight EXCEPT ![s] = @ + 1]
  /\ UNCHANGED pool

\* Mutant: the last request of a server is never released.
ReleasedToOne(s) == IF s \in pool /\ inflight[s] > 1 THEN inflight[s] - 1 ELSE inflight[s]

\* Mutant: a release that comes too late is counted.
ReleasedUnchecked(s) == IF s \in pool THEN inflight[s] - 1 ELSE inflight[s]

\* The count after a release.
Released(s) == IF s \in pool /\ inflight[s] > 0 THEN inflight[s] - 1 ELSE inflight[s]

ReleaseServer(s) ==
  /\ inflight' = [inflight EXCEPT ![s] = Released(s)]
  /\ UNCHANGED <<pool, route, since>>

\* A server that is added starts with no request in flight, whatever happened before.
AddServers(S) ==
  /\ pool' = pool \cup S
  /\ inflight' = [s \in Servers |-> IF s \in S THEN 0 ELSE inflight[s]]
  /\ UNCHANGED <<route, since>>

\* The routes to a removed server stay in the cache until they are used.
RemoveServers(S) ==
  /\ pool' = pool \ S
  /\ inflight' = [s \in Servers |-> IF s \in S THEN 0 ELSE inflight[s]]
  /\ UNCHANGED <<route, since>>
=============================================================================
