---------------------------- MODULE MCSampleStore ----------------------------
(* Instances of SampleStore for TLC. *)
EXTENDS SampleStore, TLC

CONSTANTS r1, r2

OneRecord == {r1}
TwoRecords == {r1, r2}

AllFaults == FaultKinds
(* The network, the server and memory fail, while the process stays up and  *)
(* finds room for its files.                                                *)
StayingUp == {"create", "load", "upload", "quit"}

RecordSymmetry == Permutations(TwoRecords)
=============================================================================
