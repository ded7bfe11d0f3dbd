---------------------------- MODULE MCAfanBridge ----------------------------
(* Two hosts and two requests that carry the same idempotency key.           *)
EXTENDS AfanBridge, TLC

CONSTANTS h1, h2, q1, q2, k1

TheKey == [r \in Request |-> k1]
=============================================================================
