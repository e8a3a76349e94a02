---------------------------- MODULE MCAliveTimers ----------------------------
(* Two sensors, the one with the shorter aliveperiod behind the other. *)
EXTENDS AliveTimers

CONSTANTS s1, s2

TwoRows == <<s1, s2>>
Periods == [s \in {s1, s2} |-> IF s = s1 THEN 4 ELSE 2]
=============================================================================
