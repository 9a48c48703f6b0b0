----------------------------- MODULE MCHttpPool -----------------------------
(* A small instance of HttpPool for TLC. *)
EXTENDS HttpPool, TLC

CONSTANTS t1, t2, t3

\* Two turns race for a pool, and a readiness request uses both clients.
KindOf == (t1 :> "turn") @@ (t2 :> "turn") @@ (t3 :> "ready")

=============================================================================
