------------------------------ MODULE RecordLog ------------------------------
(***************************************************************************)
(* What the sample log of RiMMS promises for the records it has accepted:  *)
(* a record is kept either in durable storage or in volatile storage       *)
(* until it has been delivered, only a loss of power forgets records, and  *)
(* it forgets only volatile ones.  SampleStore is shown to implement this  *)
(* specification for the records whose write did not overlap a change of   *)
(* FtpUploading (rimms.c).                                                 *)
(***************************************************************************)
CONSTANT Record

VARIABLES durable,    \* accepted, on the disk, not yet delivered
          volatile,   \* accepted, on the RAM disk only, not yet delivered
          delivered   \* stored by the server

logVars == <<durable, volatile, delivered>>

LogInit == durable = {} /\ volatile = {} /\ delivered = {}

(* A new record is accepted, into either kind of storage. *)
Accept(r) ==
    /\ r \notin durable \cup volatile \cup delivered
    /\ \/ durable' = durable \cup {r} /\ UNCHANGED volatile
       \/ volatile' = volatile \cup {r} /\ UNCHANGED durable
    /\ UNCHANGED delivered

(* The volatile records are made durable. *)
Settle ==
    /\ durable' = durable \cup volatile
    /\ volatile' = {}
    /\ UNCHANGED delivered

(* Records on the disk reach the server; older ones may be sent again. *)
Deliver(S) ==
    /\ S \subseteq durable \cup delivered
    /\ delivered' = delivered \cup S
    /\ durable' = durable \ S
    /\ UNCHANGED volatile

LosePower ==
    /\ volatile' = {}
    /\ UNCHANGED <<durable, delivered>>

LogNext ==
    \/ \E r \in Record : Accept(r)
    \/ Settle
    \/ \E S \in SUBSET Record : Deliver(S)
    \/ LosePower

LogSpec == LogInit /\ [][LogNext]_logVars
=============================================================================
