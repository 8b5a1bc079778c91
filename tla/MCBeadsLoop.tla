----------------------------- MODULE MCBeadsLoop -----------------------------
(***************************************************************************)
(* Instances of BeadsLoop.  Project p1 has three beads, a2 behind a1 and b *)
(* free of both; p2 has one.  a1 is the most urgent.                       *)
(***************************************************************************)
EXTENDS BeadsLoop

CONSTANTS p1, p2, a1, a2, b, c

MCProjectOf == [k \in Keys |-> IF k = c THEN p2 ELSE p1]
MCBlockers  == [k \in Keys |-> IF k = a2 THEN {a1} ELSE {}]
MCPriority  == [k \in Keys |-> IF k = a1 THEN 0 ELSE 1]
============================================================================
