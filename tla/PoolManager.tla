---------------------------- MODULE PoolManager -----------------------------
(***************************************************************************)
(* internal/pool/manager.go: requests that acquire and release             *)
(* connections, the lazy creation of the endpoints' pools, the reaper, and *)
(* Close at shutdown.  A critical section that does not block is one step; *)
(* Close blocks in its own, so the manager's lock is held exactly while    *)
(* mgr = "closing".  Acquire's dealings with the shard's breaker are       *)
(* module Breaker: here every call may be let through.                     *)
(*                                                                         *)
(* pgxpool is external.  A pool hands out at most MaxConns connections,    *)
(* Acquire on a closed pool fails, and Close returns when every connection *)
(* has been released.                                                      *)
(***************************************************************************)
EXTENDS Integers, FiniteSets

CONSTANTS
    Calls,         \* goroutines that acquire connections
    Detached,      \* the calls without deadline: secondaries of a dual write
    Endpoints,     \* the endpoints of the shards: the keys of the map
    EndpointOf,    \* the endpoint each call needs
    PoolIds,       \* bound: the pools that exist at the same time
    NoPool,
    MaxConns       \* connections of one pool

ASSUME PoolAssumption ==
    /\ IsFiniteSet(Calls) /\ Detached \subseteq Calls
    /\ EndpointOf \in [Calls -> Endpoints]
    /\ NoPool \notin PoolIds
    /\ MaxConns \in Nat \ {0}

VARIABLES
    pools,      \* Manager.pools: the installed pool of each endpoint
    stale,      \* of each entry: now.Sub(lastUsed) > ttl
    poolState,  \* of each pool: "open", "closing" (in Close), "closed"
    at,         \* where each call is in Acquire, or "holding" a connection
    held,       \* the pool a call has created or is using
    toClose,    \* reapOnce's pools that are evicted and not closed yet
    reaper,     \* reapLoop: "running" or "done"
    mgr         \* Close: "running", "stopping", "closing", "closed"

mapVars == <<pools, stale>>
callVars == <<at, held>>
vars == <<mapVars, poolState, callVars, toClose, reaper, mgr>>

Init ==
    /\ pools = [e \in Endpoints |-> NoPool]
    /\ stale = [e \in Endpoints |-> FALSE]
    /\ poolState = [p \in PoolIds |-> "closed"]
    /\ at = [c \in Calls |-> "idle"]
    /\ held = [c \in Calls |-> NoPool]
    /\ toClose = {}
    /\ reaper = "running"
    /\ mgr = "running"

-----------------------------------------------------------------------------
LockFree == mgr # "closing"

Entry(c) == pools[EndpointOf[c]]

(* The connections of a pool that have not been released. *)
InUse(p) == {c \in Calls : at[c] = "holding" /\ held[c] = p}

Goes(c, label, p) ==
    /\ at' = [at EXCEPT ![c] = label]
    /\ held' = [held EXCEPT ![c] = p]

(* Acquire, let through by the breaker; a refused call changes nothing. *)
AcquireBegins(c) ==
    /\ at[c] = "idle"
    /\ Goes(c, "lookup", NoPool)
    /\ UNCHANGED <<mapVars, poolState, toClose, reaper, mgr>>

(* poolFor's first critical section: the entry is stamped and returned. *)
LookupHits(c) ==
    /\ at[c] = "lookup" /\ LockFree
    /\ Entry(c) # NoPool
    /\ stale' = [stale EXCEPT ![EndpointOf[c]] = FALSE]
    /\ Goes(c, "acquire", Entry(c))
    /\ UNCHANGED <<pools, poolState, toClose, reaper, mgr>>

LookupMisses(c) ==
    /\ at[c] = "lookup" /\ LockFree
    /\ Entry(c) = NoPool
    /\ Goes(c, "create", NoPool)
    /\ UNCHANGED <<mapVars, poolState, toClose, reaper, mgr>>

(* Credentials, DSN or configuration are refused. *)
CreateFails(c) ==
    /\ at[c] = "create"
    /\ Goes(c, "idle", NoPool)
    /\ UNCHANGED <<mapVars, poolState, toClose, reaper, mgr>>

Unused(p) == poolState[p] = "closed" /\ \A c \in Calls : held[c] # p

Creates(c) ==
    /\ at[c] = "create"
    /\ \E p \in PoolIds : Unused(p)
    /\ LET p == CHOOSE q \in PoolIds : Unused(q)
       IN  /\ poolState' = [poolState EXCEPT ![p] = "open"]
           /\ Goes(c, "install", p)
    /\ UNCHANGED <<mapVars, toClose, reaper, mgr>>

(* Faulty: the map is not looked at again before the new pool is stored. *)
InstallWinsUnchecked(c) ==
    /\ at[c] = "install" /\ LockFree
    /\ pools' = [pools EXCEPT ![EndpointOf[c]] = held[c]]
    /\ stale' = [stale EXCEPT ![EndpointOf[c]] = FALSE]
    /\ Goes(c, "acquire", held[c])
    /\ UNCHANGED <<poolState, toClose, reaper, mgr>>

(* poolFor's second critical section: the first to install wins. *)
InstallWins(c) ==
    /\ at[c] = "install" /\ LockFree
    /\ Entry(c) = NoPool
    /\ pools' = [pools EXCEPT ![EndpointOf[c]] = held[c]]
    /\ stale' = [stale EXCEPT ![EndpointOf[c]] = FALSE]
    /\ Goes(c, "acquire", held[c])
    /\ UNCHANGED <<poolState, toClose, reaper, mgr>>

(* Faulty: the loser is not closed. *)
InstallLosesOpen(c) ==
    /\ at[c] = "install" /\ LockFree
    /\ Entry(c) # NoPool
    /\ Goes(c, "acquire", Entry(c))
    /\ UNCHANGED <<mapVars, poolState, toClose, reaper, mgr>>

(* The loser has no connections, its Close returns at once.  The entry it  *)
(* is given is not stamped.                                                *)
InstallLoses(c) ==
    /\ at[c] = "install" /\ LockFree
    /\ Entry(c) # NoPool
    /\ poolState' = [poolState EXCEPT ![held[c]] = "closed"]
    /\ Goes(c, "acquire", Entry(c))
    /\ UNCHANGED <<mapVars, toClose, reaper, mgr>>

(* p.Acquire on an open pool with a connection to spare. *)
AcquireConn(c) ==
    /\ at[c] = "acquire"
    /\ poolState[held[c]] = "open"
    /\ Cardinality(InUse(held[c])) < MaxConns
    /\ Goes(c, "holding", held[c])
    /\ UNCHANGED <<mapVars, poolState, toClose, reaper, mgr>>

(* No connection: the database refuses, the context ends while the pool is *)
(* busy, or the pool was closed since poolFor returned it.                 *)
AcquireFails(c) ==
    /\ at[c] = "acquire"
    /\ Goes(c, "idle", NoPool)
    /\ UNCHANGED <<mapVars, poolState, toClose, reaper, mgr>>

(* Faulty: what is released stamps its entry, for which it takes the lock. *)
ReleaseStampsEntry(c) ==
    /\ at[c] = "holding" /\ LockFree
    /\ stale' = [stale EXCEPT ![EndpointOf[c]] = FALSE]
    /\ Goes(c, "idle", NoPool)
    /\ UNCHANGED <<pools, poolState, toClose, reaper, mgr>>

Release(c) ==
    /\ at[c] = "holding"
    /\ Goes(c, "idle", NoPool)
    /\ UNCHANGED <<mapVars, poolState, toClose, reaper, mgr>>

-----------------------------------------------------------------------------
(* An entry was not looked up for IdlePoolTTL, used or not. *)
Expire(e) ==
    /\ pools[e] # NoPool /\ ~stale[e]
    /\ stale' = [stale EXCEPT ![e] = TRUE]
    /\ UNCHANGED <<pools, poolState, callVars, toClose, reaper, mgr>>

Expired == {e \in Endpoints : pools[e] # NoPool /\ stale[e]}

(* Faulty: the entries of reaped pools stay in the map. *)
ReapOnceKeepsEntry ==
    /\ reaper = "running" /\ toClose = {} /\ LockFree
    /\ Expired # {}
    /\ toClose' = {pools[e] : e \in Expired}
    /\ stale' = [e \in Endpoints |-> FALSE]
    /\ UNCHANGED <<pools, poolState, callVars, reaper, mgr>>

(* reapOnce's critical section: expired entries leave the map. *)
ReapOnce ==
    /\ reaper = "running" /\ toClose = {} /\ LockFree
    /\ Expired # {}
    /\ toClose' = {pools[e] : e \in Expired}
    /\ pools' = [e \in Endpoints |-> IF e \in Expired THEN NoPool ELSE pools[e]]
    /\ stale' = [e \in Endpoints |-> FALSE]
    /\ UNCHANGED <<poolState, callVars, reaper, mgr>>

(* Then, without the lock, one p.Close after the other. *)
ReaperCloses(p) ==
    /\ p \in toClose
    /\ \A q \in toClose : poolState[q] = "open"
    /\ poolState' = [poolState EXCEPT ![p] = "closing"]
    /\ UNCHANGED <<mapVars, callVars, toClose, reaper, mgr>>

(* Faulty: reapLoop ends with its first round. *)
ReaperClosedOnce(p) ==
    /\ p \in toClose /\ poolState[p] = "closing" /\ InUse(p) = {}
    /\ poolState' = [poolState EXCEPT ![p] = "closed"]
    /\ toClose' = toClose \ {p}
    /\ reaper' = "done"
    /\ UNCHANGED <<mapVars, callVars, mgr>>

ReaperClosed(p) ==
    /\ p \in toClose /\ poolState[p] = "closing" /\ InUse(p) = {}
    /\ poolState' = [poolState EXCEPT ![p] = "closed"]
    /\ toClose' = toClose \ {p}
    /\ UNCHANGED <<mapVars, callVars, reaper, mgr>>

ReaperReturns ==
    /\ reaper = "running" /\ toClose = {} /\ mgr # "running"
    /\ reaper' = "done"
    /\ UNCHANGED <<mapVars, poolState, callVars, toClose, mgr>>

-----------------------------------------------------------------------------
(***************************************************************************)
(* Close, deferred by main: requests may still be running, because the     *)
(* server's Shutdown gives up after 10 s and does not know of secondaries. *)
(***************************************************************************)
CloseStopsReaper ==
    /\ mgr = "running"
    /\ mgr' = "stopping"
    /\ UNCHANGED <<mapVars, poolState, callVars, toClose, reaper>>

CloseLocks ==
    /\ mgr = "stopping"
    /\ mgr' = "closing"
    /\ UNCHANGED <<mapVars, poolState, callVars, toClose, reaper>>

ClosePool(e) ==
    /\ mgr = "closing"
    /\ pools[e] # NoPool
    /\ \A f \in Endpoints : pools[f] # NoPool => poolState[pools[f]] = "open"
    /\ poolState' = [poolState EXCEPT ![pools[e]] = "closing"]
    /\ UNCHANGED <<mapVars, callVars, toClose, reaper, mgr>>

ClosedPool(e) ==
    /\ mgr = "closing"
    /\ pools[e] # NoPool /\ poolState[pools[e]] = "closing" /\ InUse(pools[e]) = {}
    /\ poolState' = [poolState EXCEPT ![pools[e]] = "closed"]
    /\ pools' = [pools EXCEPT ![e] = NoPool]
    /\ stale' = [stale EXCEPT ![e] = FALSE]
    /\ UNCHANGED <<callVars, toClose, reaper, mgr>>

CloseUnlocks ==
    /\ mgr = "closing"
    /\ \A e \in Endpoints : pools[e] = NoPool
    /\ mgr' = "closed"
    /\ UNCHANGED <<mapVars, poolState, callVars, toClose, reaper>>

-----------------------------------------------------------------------------
(* From Allow to the outcome that is reported to the breaker. *)
AcquireNext(c) ==
    \/ LookupHits(c) \/ LookupMisses(c)
    \/ CreateFails(c) \/ Creates(c) \/ InstallWins(c) \/ InstallLoses(c)
    \/ AcquireConn(c) \/ AcquireFails(c)

ReaperNext ==
    ReapOnce \/ ReaperReturns \/ \E p \in PoolIds : ReaperCloses(p) \/ ReaperClosed(p)

CloseNext ==
    \/ CloseLocks \/ CloseUnlocks
    \/ \E e \in Endpoints : ClosePool(e) \/ ClosedPool(e)

Next ==
    \/ \E c \in Calls : AcquireBegins(c) \/ AcquireNext(c) \/ Release(c)
    \/ \E e \in Endpoints : Expire(e)
    \/ ReaperNext \/ CloseStopsReaper \/ CloseNext

Spec == Init /\ [][Next]_vars

(***************************************************************************)
(* Fairness: the reaper and Close run on; regular requests complete and    *)
(* release.  A detached call, the secondary of a dual write, has no        *)
(* deadline: it may wait for a connection, or keep it, for ever.  New      *)
(* requests, signals and idle periods are not owed.                        *)
(***************************************************************************)
Fairness ==
    /\ WF_vars(ReaperNext) /\ WF_vars(CloseNext)
    /\ \A c \in Calls \ Detached :
          WF_vars(AcquireNext(c)) /\ WF_vars(Release(c))

FairSpec == Spec /\ Fairness

-----------------------------------------------------------------------------
(* Properties. *)

(* Type correctness of the manager and its calls. *)
TypeOK ==
    /\ pools \in [Endpoints -> PoolIds \cup {NoPool}]
    /\ stale \in [Endpoints -> BOOLEAN]
    /\ poolState \in [PoolIds -> {"open", "closing", "closed"}]
    /\ at \in [Calls -> {"idle", "lookup", "create", "install", "acquire", "holding"}]
    /\ held \in [Calls -> PoolIds \cup {NoPool}]
    /\ toClose \subseteq PoolIds
    /\ reaper \in {"running", "done"}
    /\ mgr \in {"running", "stopping", "closing", "closed"}

(***************************************************************************)
(* No pool leaks: an open pool is in the map, or evicted and about to be   *)
(* closed by the reaper, or in the hands of the call that created it and   *)
(* will install or close it.                                               *)
(***************************************************************************)
NoPoolLeaks ==
    \A p \in PoolIds :
        poolState[p] = "open" =>
            \/ \E e \in Endpoints : pools[e] = p
            \/ p \in toClose
            \/ \E c \in Calls : at[c] = "install" /\ held[c] = p

(***************************************************************************)
(* poolFor never returns a pool that the reaper or Close has closed or is  *)
(* closing: what it finds in the map is open whenever the lock is free.    *)
(***************************************************************************)
MappedPoolsOpen ==
    LockFree => \A e \in Endpoints :
                    pools[e] # NoPool => poolState[pools[e]] = "open" /\ pools[e] \notin toClose

(***************************************************************************)
(* POOL_MAX_CONNS bounds the connections to an endpoint, and not just      *)
(* those of one pool, however creation, reaping and use interleave; only   *)
(* connections of pools that are on their way out come on top.             *)
(***************************************************************************)
ConnsBounded ==
    \A e \in Endpoints :
        Cardinality({c \in Calls : /\ at[c] = "holding" /\ EndpointOf[c] = e
                                   /\ poolState[held[c]] = "open"
                                   /\ held[c] \notin toClose}) <= MaxConns

(* Every connection lent to a detached call comes back some time. *)
ConnsComeBack == \A c \in Detached : []<>(at[c] # "holding")

(***************************************************************************)
(* "A per-endpoint pool that hasn't been used for this long is closed and  *)
(* evicted."  The reaper waits in Close for the connections of one evicted *)
(* pool, and no other pool is evicted meanwhile.                           *)
(***************************************************************************)
IdlePoolsEvicted ==
    \A e \in Endpoints :
        (mgr = "running" /\ e \in Expired) ~> (mgr # "running" \/ e \notin Expired)

(***************************************************************************)
(* If no secondary write keeps its connection for ever, idle pools leave   *)
(* the map and the reaper gets all it evicted closed, whoever still uses   *)
(* or is about to use one of them.                                         *)
(***************************************************************************)
IdlePoolsClosed == ConnsComeBack => IdlePoolsEvicted /\ []<>(toClose = {})

(***************************************************************************)
(* Close returns, although it waits for connections with the lock held     *)
(* that every Acquire needs: no request that owes it a connection waits    *)
(* for the lock.                                                           *)
(***************************************************************************)
CloseReturns == ConnsComeBack => (mgr = "stopping" ~> mgr = "closed")
=============================================================================
