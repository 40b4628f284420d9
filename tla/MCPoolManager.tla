--------------------------- MODULE MCPoolManager ----------------------------
(* Two writers, one of them a secondary of a dual write, and a reader. *)
EXTENDS PoolManager, TLC

CONSTANTS c1, c2, c3

CallEndpoints == (c1 :> "rw") @@ (c2 :> "rw") @@ (c3 :> "ro")
=============================================================================
