-------------------------- MODULE EtcdClientProofs --------------------------
(***************************************************************************)
(* The gateway client recovers within two reconciliations, for any number  *)
(* of endpoints and of expiries.                                           *)
(***************************************************************************)
EXTENDS EtcdClient, TLAPS

(* The endpoints before the n-th are down. *)
DownBefore(n) == \A e \in up : e >= n

TypeInv ==
    /\ epoch \in Nat /\ up \subseteq Endpoint
    /\ token \in Nat \cup {Torn} /\ fresh \in Nat
    /\ rpc \in {"idle", "post", "auth", "store"}
    /\ at \in Endpoint /\ authAt \in Endpoint
    /\ quiet \in 0 .. 2

(***************************************************************************)
(* The first reconciliation after etcd's last change comes past a running  *)
(* endpoint only with a token that is accepted.  While it authenticates,   *)
(* the endpoint that refused it is still up, so the authentication ends in *)
(* an answer, and the answer is the token in force.                        *)
(***************************************************************************)
FirstInv ==
    quiet = 1 =>
        /\ rpc = "post" => token = epoch \/ DownBefore(at)
        /\ rpc = "auth" => at \in up /\ DownBefore(authAt)
        /\ rpc = "store" => fresh = epoch
        /\ rpc = "idle" => token = epoch \/ up = {}

(* The second one finds the token renewed and never authenticates. *)
SecondInv ==
    quiet = 2 =>
        /\ rpc \in {"post", "idle"}
        /\ token = epoch \/ up = {}
        /\ rpc = "post" => DownBefore(at)
        /\ rpc = "idle" => result = "ok" \/ up = {}

Inv == TypeInv /\ FirstInv /\ SecondInv

(* Start has authenticated and etcd has not changed since. *)
LEMMA InitInv == Init => Inv
BY ClientAssumption DEF Init, Inv, TypeInv, FirstInv, SecondInv, Endpoint

(* Whoever is past the last endpoint has met no endpoint that is up. *)
LEMMA NoneUp ==
    ASSUME TypeInv, NEW n \in Endpoint, n \notin up, n = NumEndpoints, DownBefore(n)
    PROVE  up = {}
BY ClientAssumption DEF TypeInv, Endpoint, DownBefore

(* Coming past an endpoint that is down. *)
LEMMA DownBeforeNext ==
    ASSUME TypeInv, NEW n \in Endpoint, n \notin up, DownBefore(n)
    PROVE  DownBefore(n + 1)
BY ClientAssumption DEF TypeInv, Endpoint, DownBefore

(* etcd changes: the count starts anew. *)
LEMMA EtcdInv == ASSUME Inv, EtcdNext PROVE Inv'
<1>1. quiet' = 0 /\ UNCHANGED <<token, fresh, rpc, at, authAt>>
  BY DEF EtcdNext, TokenExpires, EndpointFails, EndpointRecovers
<1>2. epoch' \in Nat /\ up' \subseteq Endpoint
  BY DEF EtcdNext, TokenExpires, EndpointFails, EndpointRecovers, Inv, TypeInv
<1>3. QED
  BY <1>1, <1>2 DEF Inv, TypeInv, FirstInv, SecondInv

(* A reconciliation begins. *)
LEMMA RangeBeginsInv == ASSUME Inv, RangeBegins PROVE Inv'
<1>1. TypeInv'
  BY ClientAssumption DEF Inv, TypeInv, RangeBegins, Endpoint
<1>2. DownBefore(1)
  BY ClientAssumption DEF Inv, TypeInv, DownBefore, Endpoint
<1>3. DownBefore(at)'
  BY <1>2 DEF RangeBegins, DownBefore
<1>4. QED
  BY <1>1, <1>3 DEF Inv, TypeInv, FirstInv, SecondInv, RangeBegins

(* What "continue" does. *)
LEMMA Continues ==
    ASSUME TypeInv, NEW err, NextEndpoint(err)
    PROVE  \/ at < NumEndpoints /\ rpc' = "post" /\ at' = at + 1 /\ at' \in Endpoint
           \/ at = NumEndpoints /\ rpc' = "idle" /\ at' = 1 /\ at' \in Endpoint
BY ClientAssumption DEF TypeInv, NextEndpoint, Return, Endpoint

(* An endpoint is down: the walk goes on, or ends with none up. *)
LEMMA PostUnreachableInv == ASSUME Inv, PostUnreachable PROVE Inv'
<1> USE DEF Inv
<1>1. /\ rpc = "post" /\ at \notin up /\ at \in Endpoint /\ NextEndpoint("network")
      /\ UNCHANGED <<epoch, up, quiet, token, authAt, fresh>>
  BY DEF PostUnreachable, TypeInv, etcdVars
<1>2. \/ at < NumEndpoints /\ rpc' = "post" /\ at' = at + 1 /\ at' \in Endpoint
      \/ at = NumEndpoints /\ rpc' = "idle" /\ at' = 1 /\ at' \in Endpoint
  BY <1>1, Continues
<1>3. TypeInv'
  BY <1>1, <1>2 DEF TypeInv
<1>4. DownBefore(at) => IF rpc' = "post" THEN DownBefore(at)' ELSE up' = {}
  BY <1>1, <1>2, NoneUp, DownBeforeNext DEF DownBefore
<1>5. QED
  BY <1>1, <1>2, <1>3, <1>4 DEF FirstInv, SecondInv

(* An endpoint answers. *)
LEMMA PostAnsweredInv == ASSUME Inv, PostAnswered PROVE Inv'
BY ClientAssumption DEF Inv, TypeInv, FirstInv, SecondInv, PostAnswered, Return, etcdVars, Endpoint

(* The token is refused: not by a second reconciliation. *)
LEMMA PostUnauthorizedInv == ASSUME Inv, PostUnauthorized PROVE Inv'
<1>1. TypeInv' /\ UNCHANGED <<epoch, up, quiet, token, at>> /\ rpc' = "auth" /\ authAt' = 1
  BY ClientAssumption DEF Inv, TypeInv, PostUnauthorized, etcdVars, Endpoint
<1>2. quiet # 2 /\ at \in up
  BY DEF Inv, SecondInv, PostUnauthorized
<1>3. DownBefore(authAt)'
  BY <1>1, ClientAssumption DEF Inv, TypeInv, DownBefore, Endpoint
<1>4. QED
  BY <1>1, <1>2, <1>3 DEF Inv, FirstInv, SecondInv

(* authenticate's own walk over the endpoints. *)
LEMMA AuthUnreachableInv == ASSUME Inv, AuthUnreachable PROVE Inv'
<1> USE DEF Inv
<1>1. /\ rpc = "auth" /\ authAt \notin up /\ authAt \in Endpoint
      /\ UNCHANGED <<epoch, up, quiet, token, fresh>> /\ quiet # 2
  BY DEF AuthUnreachable, TypeInv, SecondInv, etcdVars
<1>2. CASE authAt < NumEndpoints /\ authAt' = authAt + 1 /\ UNCHANGED <<rpc, at, lastErr, result>>
  <2>1. TypeInv'
    BY <1>1, <1>2, ClientAssumption DEF TypeInv, Endpoint
  <2>2. DownBefore(authAt) => DownBefore(authAt)'
    BY <1>1, <1>2, DownBeforeNext DEF DownBefore
  <2>3. QED
    BY <1>1, <1>2, <2>1, <2>2 DEF FirstInv, SecondInv
<1>3. CASE authAt = NumEndpoints /\ authAt' = 1 /\ NextEndpoint("status")
  <2>1. (rpc' = "post" \/ rpc' = "idle") /\ at' \in Endpoint
    BY <1>3, Continues
  <2>2. TypeInv'
    BY <1>1, <1>3, <2>1, ClientAssumption DEF TypeInv, Endpoint
  <2>3. quiet # 1
    BY <1>1, <1>3, NoneUp DEF FirstInv
  <2>4. QED
    BY <1>1, <2>2, <2>3 DEF FirstInv, SecondInv, TypeInv
<1>4. QED
  BY <1>2, <1>3 DEF AuthUnreachable

(* authenticate is answered with the token in force. *)
LEMMA AuthAnsweredInv == ASSUME Inv, AuthAnswered PROVE Inv'
BY ClientAssumption DEF Inv, TypeInv, FirstInv, SecondInv, AuthAnswered, etcdVars, Endpoint

(* The new token is stored, whatever endpoint is next. *)
LEMMA AuthStoresInv == ASSUME Inv, AuthStores PROVE Inv'
<1> USE DEF Inv
<1>1. /\ rpc = "store" /\ token' = fresh /\ fresh' = 0 /\ NextEndpoint(lastErr)
      /\ UNCHANGED <<epoch, up, quiet, authAt>> /\ quiet # 2
  BY DEF AuthStores, SecondInv, etcdVars
<1>2. (rpc' = "post" \/ rpc' = "idle") /\ at' \in Endpoint
  BY <1>1, Continues
<1>3. TypeInv'
  BY <1>1, <1>2 DEF TypeInv
<1>4. QED
  BY <1>1, <1>2, <1>3 DEF FirstInv, SecondInv

(* Every step keeps the invariant; the watch changes nothing it is about. *)
LEMMA NextInv == Inv /\ [Next]_vars => Inv'
<1> SUFFICES ASSUME Inv, [Next]_vars PROVE Inv'
  OBVIOUS
<1>1. CASE WatchOpens \/ StreamEnds \/ UNCHANGED vars
  BY <1>1 DEF WatchOpens, StreamEnds, vars, etcdVars, Inv, TypeInv, FirstInv, SecondInv,
              DownBefore
<1>2. CASE PostNext
  BY <1>2, PostUnreachableInv, PostAnsweredInv, PostUnauthorizedInv, AuthUnreachableInv,
     AuthAnsweredInv, AuthStoresInv DEF PostNext
<1>3. QED
  BY <1>1, <1>2, EtcdInv, RangeBeginsInv DEF Next

(***************************************************************************)
(* However many endpoints there are, whichever of them are up, and         *)
(* whatever request was in flight when etcd settled: the first             *)
(* reconciliation after that renews the token, the second succeeds.        *)
(***************************************************************************)
THEOREM ClientRecoversByTheSecond == Spec => []RecoversByTheSecond
<1>1. Inv => RecoversByTheSecond
  BY DEF Inv, SecondInv, RecoversByTheSecond, WatchAccepted
<1>2. QED
  BY <1>1, InitInv, NextInv, PTL DEF Spec
=============================================================================
