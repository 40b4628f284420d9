----------------------------- MODULE EtcdClient -----------------------------
(***************************************************************************)
(* Requests and authentication of the gateway client,                      *)
(* internal/registry/etcdhttp.go, with RBAC enabled.  reconcileLoop's      *)
(* Range goes through postAny, which walks over the endpoints and          *)
(* re-authenticates on a 401; watchLoop posts to the first endpoint with   *)
(* whatever token it reads and never authenticates.  The token is a field  *)
(* that both goroutines use without synchronisation.                       *)
(*                                                                         *)
(* etcd is external: an endpoint answers or not, and tokens expire.        *)
(***************************************************************************)
EXTENDS Integers

CONSTANTS
    NumEndpoints,   \* len(c.endpoints)
    MaxExpiries     \* bound on how often tokens expire

ASSUME ClientAssumption ==
    NumEndpoints \in Nat \ {0} /\ MaxExpiries \in Nat

VARIABLES
    epoch,      \* etcd: number of the token generation it accepts
    up,         \* etcd: the endpoints that answer
    token,      \* c.token: a generation, or Torn while it is being written
    rpc,        \* reconcileLoop in postAny: "idle", "post", "auth", "store"
    at,         \* postAny: index of the endpoint in turn
    authAt,     \* the postAny within authenticate: index of its endpoint
    fresh,      \* the token in authenticate's response
    lastErr,    \* postAny: "nil", "network", "status"
    result,     \* what the last postAny returned: "none", "ok" or an error
    wpc,        \* watchLoop: "sleep", "open"
    quiet       \* history: how many reconciliations began since etcd changed, up to 2

etcdVars == <<epoch, up, quiet>>
vars == <<etcdVars, token, rpc, at, authAt, fresh, lastErr, result, wpc>>

Endpoint == 1 .. NumEndpoints

(* A token whose write is seen half done is refused like an expired one. *)
Torn == -1

(* Start has authenticated and loaded. *)
Init ==
    /\ epoch = 0 /\ up = Endpoint
    /\ token = 0
    /\ rpc = "idle" /\ at = 1 /\ authAt = 1 /\ fresh = 0
    /\ lastErr = "nil" /\ result = "none"
    /\ wpc = "sleep"
    /\ quiet = 0

-----------------------------------------------------------------------------
(* etcd (external). *)

TokenExpires ==
    /\ epoch < MaxExpiries
    /\ epoch' = epoch + 1 /\ quiet' = 0
    /\ UNCHANGED <<up, token, rpc, at, authAt, fresh, lastErr, result, wpc>>

EndpointFails(e) ==
    /\ e \in up
    /\ up' = up \ {e} /\ quiet' = 0
    /\ UNCHANGED <<epoch, token, rpc, at, authAt, fresh, lastErr, result, wpc>>

EndpointRecovers(e) ==
    /\ e \notin up
    /\ up' = up \cup {e} /\ quiet' = 0
    /\ UNCHANGED <<epoch, token, rpc, at, authAt, fresh, lastErr, result, wpc>>

-----------------------------------------------------------------------------
(* postAny, for the Range of a reconciliation. *)

RangeBegins ==
    /\ rpc = "idle"
    /\ rpc' = "post" /\ at' = 1 /\ lastErr' = "nil"
    /\ quiet' = IF quiet = 0 THEN 1 ELSE 2
    /\ UNCHANGED <<epoch, up, token, authAt, fresh, result, wpc>>

(* postAny returns; the local variables are dead. *)
Return(r) ==
    /\ rpc' = "idle" /\ at' = 1 /\ lastErr' = "nil"
    /\ result' = r

(* The error at the end of the loop. *)
FinalError(err) == IF err = "nil" THEN "no endpoints configured" ELSE err

(* "continue": the next endpoint, or the error after the last one. *)
NextEndpoint(err) ==
    IF at < NumEndpoints
    THEN rpc' = "post" /\ at' = at + 1 /\ lastErr' = err /\ UNCHANGED result
    ELSE Return(FinalError(err))

PostUnreachable ==
    /\ rpc = "post" /\ at \notin up
    /\ NextEndpoint("network")
    /\ UNCHANGED <<etcdVars, token, authAt, fresh, wpc>>

PostAnswered ==
    /\ rpc = "post" /\ at \in up /\ token = epoch
    /\ Return("ok")
    /\ UNCHANGED <<etcdVars, token, authAt, fresh, wpc>>

(* Faulty: a refused token is reported, not renewed. *)
PostUnauthorizedFails ==
    /\ rpc = "post" /\ at \in up /\ token # epoch
    /\ NextEndpoint("status")
    /\ UNCHANGED <<etcdVars, token, authAt, fresh, wpc>>

(* 401: authenticate posts to the endpoints in turn. *)
PostUnauthorized ==
    /\ rpc = "post" /\ at \in up /\ token # epoch
    /\ rpc' = "auth" /\ authAt' = 1
    /\ UNCHANGED <<etcdVars, token, at, fresh, lastErr, result, wpc>>

(* Faulty: authenticate asks the first endpoint only. *)
AuthAsksOnlyFirst ==
    /\ rpc = "auth" /\ authAt \notin up
    /\ authAt' = 1
    /\ NextEndpoint("status")
    /\ UNCHANGED <<etcdVars, token, fresh, wpc>>

AuthUnreachable ==
    /\ rpc = "auth" /\ authAt \notin up
    /\ \/ /\ authAt < NumEndpoints
          /\ authAt' = authAt + 1
          /\ UNCHANGED <<rpc, at, lastErr, result>>
       \/ /\ authAt = NumEndpoints          \* authErr # nil: the 401 counts
          /\ authAt' = 1
          /\ NextEndpoint("status")
    /\ UNCHANGED <<etcdVars, token, fresh, wpc>>

(* The assignment of the token begins: a concurrent read may be torn. *)
AuthAnswered ==
    /\ rpc = "auth" /\ authAt \in up
    /\ rpc' = "store" /\ authAt' = 1
    /\ fresh' = epoch /\ token' = Torn
    /\ UNCHANGED <<etcdVars, at, lastErr, result, wpc>>

(* Faulty: the new token ends up in a local variable. *)
AuthStoresLocally ==
    /\ rpc = "store"
    /\ UNCHANGED token /\ fresh' = 0
    /\ NextEndpoint(lastErr)
    /\ UNCHANGED <<etcdVars, authAt, wpc>>

(* The token is stored and postAny continues with the next endpoint. *)
AuthStores ==
    /\ rpc = "store"
    /\ token' = fresh /\ fresh' = 0
    /\ NextEndpoint(lastErr)
    /\ UNCHANGED <<etcdVars, authAt, wpc>>

-----------------------------------------------------------------------------
(* watchLoop: watchPrefix on pickEndpoint's endpoint, a second's sleep. *)

WatchAccepted == 1 \in up /\ token = epoch

WatchOpens ==
    /\ wpc = "sleep" /\ WatchAccepted
    /\ wpc' = "open"
    /\ UNCHANGED <<etcdVars, token, rpc, at, authAt, fresh, lastErr, result>>

(* The stream breaks, at the latest by the client's 30 s timeout. *)
StreamEnds ==
    /\ wpc = "open"
    /\ wpc' = "sleep"
    /\ UNCHANGED <<etcdVars, token, rpc, at, authAt, fresh, lastErr, result>>

-----------------------------------------------------------------------------
PostNext ==
    \/ PostUnreachable \/ PostAnswered \/ PostUnauthorized
    \/ AuthUnreachable \/ AuthAnswered \/ AuthStores

EtcdNext == TokenExpires \/ \E e \in Endpoint : EndpointFails(e) \/ EndpointRecovers(e)

Next == EtcdNext \/ RangeBegins \/ PostNext \/ WatchOpens \/ StreamEnds

Spec == Init /\ [][Next]_vars

(* Reconciliations come by the ticker, requests end, streams time out, and *)
(* watchLoop tries again every second.  etcd owes nothing.                 *)
Fairness ==
    /\ WF_vars(RangeBegins) /\ WF_vars(PostNext)
    /\ WF_vars(StreamEnds) /\ WF_vars(WatchOpens)

FairSpec == Spec /\ Fairness

-----------------------------------------------------------------------------
(* Properties. *)

(***************************************************************************)
(* How long recovery takes.  Whatever happened before (tokens expired in   *)
(* the middle of a re-authentication, endpoints went and came, a request   *)
(* was in flight), the second reconciliation that begins after etcd's last *)
(* change succeeds if any endpoint is up, and from then on the watch is    *)
(* accepted as soon as it asks, if its own endpoint is up.                 *)
(***************************************************************************)
RecoversByTheSecond ==
    quiet = 2 /\ rpc = "idle" /\ up # {} =>
        result = "ok" /\ (1 \in up => WatchAccepted)

(* From some point on no endpoint fails any more. *)
EndpointsSettle == <>[][\A e \in Endpoint : ~EndpointFails(e)]_vars

(***************************************************************************)
(* Expired tokens are survived: once the endpoints that are up stay up, if *)
(* only one, and tokens stop expiring, every reconciliation succeeds.      *)
(***************************************************************************)
ReconcileRecovers == EndpointsSettle /\ <>[](up # {}) => <>[](result = "ok")

(***************************************************************************)
(* The watch, which never authenticates itself and may read a half-written *)
(* token, is opened again and again once its endpoint stays up: the        *)
(* reconciliation renews the token it uses.                                *)
(***************************************************************************)
WatchRecovers == EndpointsSettle /\ <>[](1 \in up) => []<>(wpc = "open")

(***************************************************************************)
(* postAny "re-authenticates once and retries on a 401".  It reports "no   *)
(* endpoints configured" when each endpoint answered 401, each             *)
(* re-authentication succeeded and no request was made with the new token. *)
(***************************************************************************)
RetriesWithFreshToken == result # "no endpoints configured"
=============================================================================
