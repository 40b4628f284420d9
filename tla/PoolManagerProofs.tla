------------------------- MODULE PoolManagerProofs --------------------------
(***************************************************************************)
(* The safety of the pool manager for any number of requests, endpoints    *)
(* and connections.                                                        *)
(***************************************************************************)
EXTENDS PoolManager, FiniteSetTheorems, TLAPS

-----------------------------------------------------------------------------
(* The inductive invariant. *)

Waiting == {"idle", "lookup", "create"}

Using == {"acquire", "holding"}

(* A call refers to a pool exactly from its creation or lookup on. *)
CallsInv ==
    \A c \in Calls : IF at[c] \in Waiting THEN held[c] = NoPool ELSE held[c] \in PoolIds

(* Each mapped pool has one entry, is not evicted, and is open unless      *)
(* Close, which holds the lock, is closing it.                             *)
MapInv ==
    /\ \A e, f \in Endpoints : pools[e] # NoPool /\ pools[e] = pools[f] => e = f
    /\ \A e \in Endpoints : pools[e] # NoPool =>
          /\ pools[e] \notin toClose
          /\ poolState[pools[e]] # "closed"
          /\ LockFree => poolState[pools[e]] = "open"

(* The reaper's pools are not closed yet. *)
EvictedInv == \A p \in toClose : poolState[p] # "closed"

(* A pool that waits to be installed is open and known to its creator only. *)
InstallInv ==
    \A c \in Calls : at[c] = "install" =>
        /\ poolState[held[c]] = "open"
        /\ held[c] \notin toClose
        /\ \A e \in Endpoints : pools[e] # held[c]
        /\ \A d \in Calls : d # c => held[d] # held[c]

(* An open pool in use is the installed one of its endpoint, or evicted. *)
UseInv ==
    \A c \in Calls :
        at[c] \in Using /\ poolState[held[c]] = "open" /\ held[c] \notin toClose
          => held[c] = pools[EndpointOf[c]]

Inv == TypeOK /\ CallsInv /\ MapInv /\ EvictedInv /\ InstallInv /\ UseInv /\ NoPoolLeaks

(* Initially there is no pool. *)
LEMMA InitInv == Init => Inv
BY PoolAssumption DEF Init, Inv, TypeOK, CallsInv, MapInv, EvictedInv, InstallInv, UseInv,
    NoPoolLeaks, Waiting, Using, LockFree

-----------------------------------------------------------------------------
(* The steps of a call. *)

(* A call that gives up or releases changes no pool. *)
LEMMA IdleStep ==
    ASSUME Inv, NEW c \in Calls, at[c] # "install", NEW label \in Waiting,
           Goes(c, label, NoPool), UNCHANGED <<mapVars, poolState, toClose, reaper, mgr>>
    PROVE  Inv'
<1> USE PoolAssumption DEF Inv, Goes, mapVars
<1>1. TypeOK' BY DEF TypeOK, Waiting
<1>2. CallsInv' BY DEF TypeOK, CallsInv, Waiting
<1>3. MapInv' BY DEF MapInv, LockFree
<1>4. EvictedInv' BY DEF EvictedInv
<1>5. InstallInv' BY DEF TypeOK, InstallInv, CallsInv, Waiting
<1>6. UseInv' BY DEF TypeOK, UseInv, Using, Waiting
<1>7. NoPoolLeaks' BY DEF TypeOK, NoPoolLeaks
<1>8. QED BY <1>1, <1>2, <1>3, <1>4, <1>5, <1>6, <1>7

(* Lookup, creation and installation. *)
LEMMA LookupHitsInv ==
    ASSUME Inv, NEW c \in Calls, LookupHits(c)
    PROVE  Inv'
<1> USE PoolAssumption DEF Inv, LookupHits, Goes, Entry
<1>1. TypeOK' BY DEF TypeOK
<1>2. CallsInv' BY DEF TypeOK, CallsInv, Waiting
<1>3. MapInv' BY DEF MapInv, LockFree
<1>4. EvictedInv' BY DEF EvictedInv
<1>5. InstallInv' BY DEF TypeOK, InstallInv
<1>6. UseInv' BY DEF TypeOK, UseInv, Using
<1>7. NoPoolLeaks' BY DEF TypeOK, NoPoolLeaks
<1>8. QED BY <1>1, <1>2, <1>3, <1>4, <1>5, <1>6, <1>7

(* A new pool is known to its creator alone. *)
LEMMA CreatesInv ==
    ASSUME Inv, NEW c \in Calls, Creates(c)
    PROVE  Inv'
<1> USE PoolAssumption DEF Inv, mapVars
<1>1. PICK p \in PoolIds : Unused(p) /\ p = CHOOSE q \in PoolIds : Unused(q)
  BY DEF Creates
<1>2. /\ at[c] = "create" /\ poolState[p] = "closed" /\ \A d \in Calls : held[d] # p
      /\ poolState' = [poolState EXCEPT ![p] = "open"]
      /\ at' = [at EXCEPT ![c] = "install"] /\ held' = [held EXCEPT ![c] = p]
      /\ UNCHANGED <<pools, stale, toClose, reaper, mgr>>
  BY <1>1 DEF Creates, Goes, Unused
<1> p # NoPool OBVIOUS
<1>3. TypeOK' BY <1>2 DEF TypeOK
<1>4. CallsInv' BY <1>2 DEF TypeOK, CallsInv, Waiting
<1>5. MapInv' BY <1>2 DEF TypeOK, MapInv, LockFree
<1>6. EvictedInv' BY <1>2 DEF TypeOK, EvictedInv
<1>7. p \notin toClose /\ \A e \in Endpoints : pools[e] # p
  BY <1>2 DEF EvictedInv, MapInv
<1>8. InstallInv' BY <1>2, <1>7 DEF TypeOK, InstallInv, CallsInv, Waiting
<1>9. UseInv' BY <1>2 DEF TypeOK, UseInv, Using, CallsInv, Waiting
<1>10. NoPoolLeaks' BY <1>2 DEF TypeOK, NoPoolLeaks
<1>11. QED BY <1>3, <1>4, <1>5, <1>6, <1>8, <1>9, <1>10

(* poolFor puts the pool it created into the map. *)
LEMMA InstallWinsInv ==
    ASSUME Inv, NEW c \in Calls, InstallWins(c)
    PROVE  Inv'
<1> USE PoolAssumption DEF Inv, InstallWins, Goes, Entry
<1> held[c] \in PoolIds /\ held[c] # NoPool BY DEF CallsInv, Waiting
<1>1. TypeOK' BY DEF TypeOK
<1>2. CallsInv' BY DEF TypeOK, CallsInv, Waiting
<1>3. MapInv'
  BY DEF TypeOK, MapInv, InstallInv, LockFree
<1>4. EvictedInv' BY DEF EvictedInv
<1>5. InstallInv' BY DEF TypeOK, InstallInv
<1>6. UseInv'
  <2> SUFFICES ASSUME NEW d \in Calls, (at[d] \in Using)', (poolState[held[d]] = "open")',
                      (held[d] \notin toClose)'
               PROVE  (held[d] = pools[EndpointOf[d]])'
    BY DEF UseInv
  <2>1. CASE d = c BY <2>1 DEF TypeOK
  <2>2. CASE d # c
    <3>1. held[d] = pools[EndpointOf[d]] /\ held[d] # NoPool
      BY <2>2 DEF TypeOK, UseInv, CallsInv, Using, Waiting
    <3>2. EndpointOf[d] # EndpointOf[c] BY <3>1
    <3>3. QED BY <2>2, <3>1, <3>2 DEF TypeOK
  <2>3. QED BY <2>1, <2>2
<1>7. NoPoolLeaks'
  <2> SUFFICES ASSUME NEW p \in PoolIds, (poolState[p] = "open")'
               PROVE  \/ \E e \in Endpoints : pools'[e] = p
                      \/ p \in toClose'
                      \/ \E d \in Calls : at'[d] = "install" /\ held'[d] = p
    BY DEF NoPoolLeaks
  <2>1. CASE p = held[c] BY <2>1 DEF TypeOK
  <2>2. CASE \E e \in Endpoints : pools[e] = p BY <2>2 DEF TypeOK
  <2>3. CASE \E d \in Calls : at[d] = "install" /\ held[d] = p /\ d # c BY <2>3 DEF TypeOK
  <2>4. QED BY <2>1, <2>2, <2>3 DEF NoPoolLeaks
<1>8. QED BY <1>1, <1>2, <1>3, <1>4, <1>5, <1>6, <1>7

(* poolFor finds that another request was faster and drops its own pool. *)
LEMMA InstallLosesInv ==
    ASSUME Inv, NEW c \in Calls, InstallLoses(c)
    PROVE  Inv'
<1> USE PoolAssumption DEF Inv, InstallLoses, Goes, Entry, mapVars
<1> held[c] \in PoolIds /\ held[c] # NoPool BY DEF CallsInv, Waiting
<1> Entry(c) \in PoolIds /\ EndpointOf[c] \in Endpoints BY DEF TypeOK
<1>1. TypeOK' BY DEF TypeOK
<1>2. CallsInv' BY DEF TypeOK, CallsInv, Waiting
<1>3. MapInv' BY DEF TypeOK, MapInv, InstallInv, LockFree
<1>4. EvictedInv' BY DEF TypeOK, EvictedInv, InstallInv
<1>5. InstallInv' BY DEF TypeOK, InstallInv
<1>6. UseInv' BY DEF TypeOK, UseInv, InstallInv, Using
<1>7. NoPoolLeaks' BY DEF TypeOK, NoPoolLeaks
<1>8. QED BY <1>1, <1>2, <1>3, <1>4, <1>5, <1>6, <1>7

(* A call takes a connection of the pool it looked up. *)
LEMMA AcquireConnInv ==
    ASSUME Inv, NEW c \in Calls, AcquireConn(c)
    PROVE  Inv'
<1> USE PoolAssumption DEF Inv, AcquireConn, Goes, mapVars
<1>1. TypeOK' BY DEF TypeOK
<1>2. CallsInv' BY DEF TypeOK, CallsInv, Waiting
<1>3. MapInv' BY DEF MapInv, LockFree
<1>4. EvictedInv' BY DEF EvictedInv
<1>5. InstallInv' BY DEF TypeOK, InstallInv
<1>6. UseInv' BY DEF TypeOK, UseInv, Using
<1>7. NoPoolLeaks' BY DEF TypeOK, NoPoolLeaks
<1>8. QED BY <1>1, <1>2, <1>3, <1>4, <1>5, <1>6, <1>7

(* Every step of a call keeps the invariant. *)
LEMMA CallInv ==
    ASSUME Inv, NEW c \in Calls, AcquireBegins(c) \/ AcquireNext(c) \/ Release(c)
    PROVE  Inv'
<1>1. CASE AcquireBegins(c) BY <1>1, IdleStep DEF AcquireBegins, Waiting
<1>2. CASE LookupMisses(c) BY <1>2, IdleStep DEF LookupMisses, Waiting
<1>3. CASE CreateFails(c) BY <1>3, IdleStep DEF CreateFails, Waiting
<1>4. CASE AcquireFails(c) BY <1>4, IdleStep DEF AcquireFails, Waiting
<1>5. CASE Release(c) BY <1>5, IdleStep DEF Release, Waiting
<1>6. QED
  BY <1>1, <1>2, <1>3, <1>4, <1>5, LookupHitsInv, CreatesInv, InstallWinsInv, InstallLosesInv,
     AcquireConnInv DEF AcquireNext

-----------------------------------------------------------------------------
(* The reaper and Close. *)

(* Expired entries go from the map to the reaper's list. *)
LEMMA ReapOnceInv == ASSUME Inv, ReapOnce PROVE Inv'
<1> USE PoolAssumption DEF Inv, ReapOnce, callVars
<1>1. TypeOK' BY DEF TypeOK, Expired
<1>2. CallsInv' BY DEF CallsInv
<1>3. MapInv' BY DEF TypeOK, MapInv, Expired, LockFree
<1>4. EvictedInv' BY DEF TypeOK, MapInv, EvictedInv, Expired
<1>5. InstallInv'
  BY DEF TypeOK, CallsInv, InstallInv, Expired, Waiting
<1>6. UseInv'
  <2> SUFFICES ASSUME NEW c \in Calls, at[c] \in Using, poolState[held[c]] = "open",
                      held[c] \notin toClose'
               PROVE  held[c] = pools'[EndpointOf[c]]
    BY DEF UseInv
  <2>1. held[c] = pools[EndpointOf[c]] /\ EndpointOf[c] \in Endpoints BY DEF UseInv
  <2>2. EndpointOf[c] \notin Expired BY <2>1
  <2>3. QED BY <2>1, <2>2
<1>7. NoPoolLeaks'
  <2> SUFFICES ASSUME NEW p \in PoolIds, poolState[p] = "open", NEW e \in Endpoints, pools[e] = p
               PROVE  (\E f \in Endpoints : pools'[f] = p) \/ p \in toClose'
    BY DEF NoPoolLeaks
  <2>1. CASE e \in Expired BY <2>1
  <2>2. CASE e \notin Expired BY <2>2
  <2>3. QED BY <2>1, <2>2
<1>8. QED BY <1>1, <1>2, <1>3, <1>4, <1>5, <1>6, <1>7

(* reapOnce begins to close an evicted pool. *)
LEMMA ReaperClosesInv == ASSUME Inv, NEW p \in PoolIds, ReaperCloses(p) PROVE Inv'
<1> USE PoolAssumption DEF Inv, ReaperCloses, callVars, mapVars
<1>1. TypeOK' BY DEF TypeOK
<1>2. CallsInv' BY DEF CallsInv
<1>3. MapInv' BY DEF TypeOK, MapInv, LockFree
<1>4. EvictedInv' BY DEF TypeOK, EvictedInv
<1>5. InstallInv' BY DEF TypeOK, InstallInv
<1>6. UseInv' BY DEF TypeOK, UseInv
<1>7. NoPoolLeaks' BY DEF TypeOK, NoPoolLeaks
<1>8. QED BY <1>1, <1>2, <1>3, <1>4, <1>5, <1>6, <1>7

(* The evicted pool has its connections back. *)
LEMMA ReaperClosedInv == ASSUME Inv, NEW p \in PoolIds, ReaperClosed(p) PROVE Inv'
<1> USE PoolAssumption DEF Inv, ReaperClosed, callVars, mapVars
<1>1. TypeOK' BY DEF TypeOK
<1>2. CallsInv' BY DEF CallsInv
<1>3. MapInv' BY DEF TypeOK, MapInv, LockFree
<1>4. EvictedInv' BY DEF TypeOK, EvictedInv
<1>5. InstallInv' BY DEF TypeOK, InstallInv
<1>6. UseInv' BY DEF TypeOK, UseInv
<1>7. NoPoolLeaks' BY DEF TypeOK, NoPoolLeaks
<1>8. QED BY <1>1, <1>2, <1>3, <1>4, <1>5, <1>6, <1>7

(* Close begins to close a mapped pool. *)
LEMMA ClosePoolInv == ASSUME Inv, NEW e \in Endpoints, ClosePool(e) PROVE Inv'
<1> USE PoolAssumption DEF Inv, ClosePool, callVars, mapVars
<1> pools[e] \in PoolIds BY DEF TypeOK
<1>1. TypeOK' BY DEF TypeOK
<1>2. CallsInv' BY DEF CallsInv
<1>3. MapInv' BY DEF TypeOK, MapInv, LockFree
<1>4. EvictedInv' BY DEF TypeOK, EvictedInv
<1>5. InstallInv' BY DEF TypeOK, InstallInv
<1>6. UseInv' BY DEF TypeOK, UseInv
<1>7. NoPoolLeaks' BY DEF TypeOK, NoPoolLeaks
<1>8. QED BY <1>1, <1>2, <1>3, <1>4, <1>5, <1>6, <1>7

(* The mapped pool has its connections back. *)
LEMMA ClosedPoolInv == ASSUME Inv, NEW e \in Endpoints, ClosedPool(e) PROVE Inv'
<1> USE PoolAssumption DEF Inv, ClosedPool, callVars
<1> pools[e] \in PoolIds BY DEF TypeOK
<1>1. TypeOK' BY DEF TypeOK
<1>2. CallsInv' BY DEF CallsInv
<1>3. MapInv' BY DEF TypeOK, MapInv, LockFree
<1>4. EvictedInv' BY DEF TypeOK, MapInv, EvictedInv
<1>5. InstallInv' BY DEF TypeOK, InstallInv, CallsInv, Waiting
<1>6. UseInv' BY DEF TypeOK, UseInv, MapInv
<1>7. NoPoolLeaks' BY DEF TypeOK, NoPoolLeaks
<1>8. QED BY <1>1, <1>2, <1>3, <1>4, <1>5, <1>6, <1>7

(* Steps that only move the clock, the reaper's loop or Close's control. *)
LEMMA ControlInv ==
    ASSUME Inv,
           \/ \E e \in Endpoints : Expire(e)
           \/ ReaperReturns \/ CloseStopsReaper \/ CloseLocks \/ CloseUnlocks
           \/ UNCHANGED vars
    PROVE  Inv'
<1>1. /\ UNCHANGED <<pools, poolState, callVars, toClose>>
      /\ TypeOK'
      /\ LockFree' => LockFree \/ \A e \in Endpoints : pools[e] = NoPool
  BY DEF Inv, TypeOK, Expire, ReaperReturns, CloseStopsReaper, CloseLocks, CloseUnlocks, vars,
         mapVars, callVars, LockFree
<1>2. MapInv'
  BY <1>1 DEF Inv, MapInv
<1>3. CallsInv' /\ EvictedInv' /\ InstallInv' /\ UseInv' /\ NoPoolLeaks'
  BY <1>1 DEF Inv, CallsInv, EvictedInv, InstallInv, UseInv, NoPoolLeaks, callVars
<1>4. QED BY <1>1, <1>2, <1>3 DEF Inv

(* Every step keeps the invariant. *)
LEMMA NextInv == Inv /\ [Next]_vars => Inv'
BY CallInv, ReapOnceInv, ReaperClosesInv, ReaperClosedInv, ClosePoolInv, ClosedPoolInv,
   ControlInv DEF Next, ReaperNext, CloseNext

(* The invariant holds in every reachable state. *)
LEMMA AlwaysInv == Spec => []Inv
BY InitInv, NextInv, PTL DEF Spec

(***************************************************************************)
(* No pool leaks, for any number of racing requests: the loser of the race *)
(* in poolFor closes its pool, the reaper closes what it evicts.           *)
(***************************************************************************)
THEOREM PoolsDoNotLeak == Spec => []NoPoolLeaks
BY AlwaysInv, PTL DEF Inv

(* What poolFor finds in the map is open and not about to be closed. *)
THEOREM PoolsMappedAreOpen == Spec => []MappedPoolsOpen
<1>1. Inv => MappedPoolsOpen BY DEF Inv, MapInv, MappedPoolsOpen
<1>2. QED BY <1>1, AlwaysInv, PTL

-----------------------------------------------------------------------------
(* The number of connections. *)

(* pgxpool's bound on the connections of one pool, closed or not. *)
CapInv == \A p \in PoolIds : Cardinality(InUse(p)) <= MaxConns

(* The connections of a pool are finitely many. *)
LEMMA InUseFinite ==
    ASSUME NEW p
    PROVE  IsFiniteSet(InUse(p)) /\ Cardinality(InUse(p)) \in Nat
BY PoolAssumption, FS_Subset, FS_CardinalityType DEF InUse

(* Initially no connection is lent. *)
LEMMA InitCap == Init => CapInv
<1>1. ASSUME Init, NEW p \in PoolIds PROVE InUse(p) = {}
  BY <1>1 DEF Init, InUse
<1>2. QED BY <1>1, PoolAssumption, FS_EmptySet DEF CapInv

(* No step exceeds pgxpool's own bound. *)
LEMMA NextCap == Inv /\ CapInv /\ [Next]_vars => CapInv'
<1> SUFFICES ASSUME Inv, CapInv, [Next]_vars, NEW p \in PoolIds
             PROVE  Cardinality(InUse(p))' <= MaxConns
  BY DEF CapInv
<1> USE PoolAssumption
<1>1. CASE \E c \in Calls : AcquireConn(c) /\ held[c] = p
  <2>1. PICK c \in Calls : AcquireConn(c) /\ held[c] = p BY <1>1
  <2>2. InUse(p)' = InUse(p) \cup {c} /\ c \notin InUse(p)
    BY <2>1 DEF AcquireConn, Goes, InUse, Inv, TypeOK
  <2>3. Cardinality(InUse(p)) < MaxConns BY <2>1 DEF AcquireConn
  <2>4. Cardinality(InUse(p) \cup {c}) = Cardinality(InUse(p)) + 1
    BY <2>2, InUseFinite, FS_AddElement
  <2>5. QED BY <2>2, <2>3, <2>4, InUseFinite
<1>2. CASE ~\E c \in Calls : AcquireConn(c) /\ held[c] = p
  <2>1. ASSUME NEW c \in Calls, AcquireBegins(c) \/ AcquireNext(c) \/ Release(c)
        PROVE  InUse(p)' \subseteq InUse(p)
    BY <1>2, <2>1 DEF Inv, TypeOK, AcquireBegins, AcquireNext, Release, LookupHits, LookupMisses,
       CreateFails, Creates, InstallWins, InstallLoses, AcquireConn, AcquireFails, Goes, InUse
  <2>2. ASSUME UNCHANGED callVars PROVE InUse(p)' \subseteq InUse(p)
    BY <2>2 DEF callVars, InUse
  <2>3. InUse(p)' \subseteq InUse(p)
    BY <2>1, <2>2 DEF Next, ReaperNext, CloseNext, vars, Expire, ReapOnce, ReaperReturns,
       ReaperCloses, ReaperClosed, CloseStopsReaper, CloseLocks, CloseUnlocks, ClosePool, ClosedPool
  <2>4. Cardinality(InUse(p)') <= Cardinality(InUse(p)) /\ Cardinality(InUse(p)') \in Nat
    BY <2>3, InUseFinite, FS_Subset, FS_CardinalityType
  <2>5. QED BY <2>4, InUseFinite DEF CapInv
<1>3. QED BY <1>1, <1>2

(***************************************************************************)
(* POOL_MAX_CONNS bounds the connections to each endpoint: an open pool in *)
(* use that was not evicted is the one in the map, so at most one pool of  *)
(* an endpoint counts.                                                     *)
(***************************************************************************)
THEOREM PoolConnsBounded == Spec => []ConnsBounded
<1>1. Spec => []CapInv
  BY InitCap, NextCap, AlwaysInv, PTL DEF Spec
<1>2. ASSUME Inv, CapInv, NEW e \in Endpoints
      PROVE  Cardinality({c \in Calls : /\ at[c] = "holding" /\ EndpointOf[c] = e
                                        /\ poolState[held[c]] = "open"
                                        /\ held[c] \notin toClose}) <= MaxConns
  <2> DEFINE S == {c \in Calls : /\ at[c] = "holding" /\ EndpointOf[c] = e
                                 /\ poolState[held[c]] = "open"
                                 /\ held[c] \notin toClose}
  <2>1. S \subseteq InUse(pools[e])
    BY <1>2 DEF Inv, UseInv, Using, InUse
  <2>2. CASE pools[e] = NoPool
    <3>1. S = {}
      BY <1>2, <2>1, <2>2, PoolAssumption DEF Inv, CallsInv, Waiting, InUse
    <3>2. Cardinality(S) = 0 BY <3>1, FS_EmptySet, Zenon
    <3>3. 0 <= MaxConns BY PoolAssumption
    <3>4. QED BY <3>2, <3>3
  <2>3. CASE pools[e] # NoPool
    <3>1. pools[e] \in PoolIds BY <1>2, <2>3 DEF Inv, TypeOK
    <3>2. Cardinality(S) <= Cardinality(InUse(pools[e])) /\ Cardinality(S) \in Nat
      BY <2>1, InUseFinite, FS_Subset, FS_CardinalityType
    <3>3. QED BY <1>2, <3>1, <3>2, InUseFinite, PoolAssumption DEF CapInv
  <2>4. QED BY <2>2, <2>3
<1>3. Inv /\ CapInv => ConnsBounded
  BY <1>2 DEF ConnsBounded
<1>4. QED BY <1>1, <1>3, AlwaysInv, PTL
=============================================================================
