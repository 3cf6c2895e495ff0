----------------------------- MODULE MCPairing -----------------------------
(* Pairing on a small instance: two grants, one for a screen that may be revoked,
   one whose ttl may elapse. *)
EXTENDS Pairing

CONSTANTS g1, g2, s1, s2, connect, tick

ScreenOfGrant == [g \in {g1, g2} |-> IF g = g1 THEN s1 ELSE s2]
=============================================================================
