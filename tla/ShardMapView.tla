---------------------------- MODULE ShardMapView ----------------------------
(***************************************************************************)
(* What cache.Store promises the router, abstractly: a versioned view of   *)
(* the control plane's key-space that is, at every moment, the content of  *)
(* one revision, and that only ever moves to a later revision.  How the    *)
(* view is kept up to date is left open.                                   *)
(***************************************************************************)
EXTENDS Integers

CONSTANTS
    Maps,        \* the possible contents of the shard map
    FirstMap,    \* its content at revision 0
    NoMapping    \* the view before the first load

VARIABLES
    revision,    \* the control plane's current revision
    contents,    \* the content published at each revision so far
    view         \* the mapping that requests are routed with

vars == <<revision, contents, view>>

Init == revision = 0 /\ contents = [n \in {0} |-> FirstMap] /\ view = NoMapping

(* The control plane publishes the next revision; the past stays. *)
Publish ==
    /\ revision' = revision + 1
    /\ contents'[revision'] \in Maps
    /\ contents' = [n \in 0 .. revision' |->
                       IF n = revision' THEN contents'[n] ELSE contents[n]]
    /\ UNCHANGED view

(* The view moves to the content of a revision that is not older. *)
Advance ==
    /\ view' # view
    /\ \E n \in (IF view = NoMapping THEN 0 ELSE view.rev) .. revision :
          view' = [rev |-> n, map |-> contents[n]]
    /\ UNCHANGED <<revision, contents>>

Next == Publish \/ Advance

Spec == Init /\ [][Next]_vars
=============================================================================
