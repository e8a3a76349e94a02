----------------------------- MODULE MCSensorLink -----------------------------
(* Two sensors in the table, in this order. *)
EXTENDS SensorLink

CONSTANTS s1, s2

TwoSensors == {s1, s2}
BothRows == <<s1, s2>>

(* One sends a packet, too cold; the other is too warm and then too cold. *)
Values == [s \in TwoSensors |-> IF s = s1 THEN <<1>> ELSE <<9, 1>>]
From4 == [s \in TwoSensors |-> 4]
To6 == [s \in TwoSensors |-> 6]
=============================================================================
