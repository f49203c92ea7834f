--------------------------- MODULE MCWindowSync ----------------------------
(* Instances of WindowSync for TLC: callers c1, c2 of process i1 and, where   *)
(* it exists, caller c3 of process i2.                                        *)
EXTENDS WindowSync, TLC

CONSTANTS
  m1, m2, m3, m4, m5, c1, c2, c3, i1, i2

MCInstanceOf == [c \in Callers |-> IF c = c3 THEN i2 ELSE i1]
=============================================================================
