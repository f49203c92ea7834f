---------------------------- MODULE MCPickupKeys ----------------------------
(* Instances of PickupKeys for TLC: caller c1 on server s1, c2 on s2 where it *)
(* exists; the key g1 is given, k1, k2, k3 are random.                       *)
EXTENDS PickupKeys, TLC

CONSTANTS c1, c2, s1, s2, g1, k1, k2, k3

MCServerOf == [c \in Callers |-> IF c = c2 /\ s2 \in Servers THEN s2 ELSE s1]
=============================================================================
