------------------------------- MODULE MCTagLog -------------------------------
(* An instance of TagLog for TLC: the hours around the end of a year.        *)
EXTENDS TagLog, TLC

CONSTANTS s1, s2

Sensors == {s1, s2}
SensorSymmetry == Permutations(Sensors)

(* A group of tags on each thread. *)
OneEach == [t \in Thread |-> 1]

(* West of Greenwich Tag_SOR takes the second hour for summer. *)
West == {-1}
Spring == {{2, 3}}

YearsEnd == [h \in -1..3 |->
    IF h <= 1 THEN [mday |-> 31, mon |-> 11, year |-> 113, sec |-> 3600 * (22 + h)]
              ELSE [mday |-> 1, mon |-> 0, year |-> 114, sec |-> 3600 * (h - 2)]]
=============================================================================
