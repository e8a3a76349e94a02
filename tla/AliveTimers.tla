----------------------------- MODULE AliveTimers -----------------------------
(***************************************************************************)
(* The alive timers of the sensors (end of Parser, protocolrimms.c).       *)
(*                                                                         *)
(* Every pass of thread_RiMMS handles the frames that came in and then     *)
(* looks at one device, Devices[DeviceIndex]: if nothing has set its       *)
(* lastalarm for aliveperiod seconds, the failure of the sensor is logged. *)
(* InitDevices, called for a command of the server, moves the rows of the  *)
(* table sensor into other slots and sets the timers again, on             *)
(* thread_RiMMS or, step by step, beside it on thread_comunication: also   *)
(* between the search for the sensor of a frame and the reset of its timer. *)
(***************************************************************************)
EXTENDS Integers, Sequences

CONSTANTS
    Rows,       \* the ids in table sensor when the process starts
    Alive,      \* aliveperiod of each of them, in seconds
    Bound,      \* how far seconds are counted
    MaxEdits    \* how many commands change the table

Sensor == {Rows[i] : i \in DOMAIN Rows}
Slots == DOMAIN Rows

(* AddDeviceDb refuses an id that is in the table.  Ages are counted past    *)
(* everything they are compared with.                                        *)
ASSUME AliveAssumption ==
    /\ Rows \in Seq(Sensor) /\ Rows # <<>>
    /\ \A i, j \in Slots : Rows[i] = Rows[j] => i = j
    /\ Alive \in [Sensor -> Nat \ {0}]
    /\ Bound \in Nat /\ \A s \in Sensor : Alive[s] + Len(Rows) + 1 < Bound
    /\ MaxEdits \in Nat

Older(n) == IF n < Bound THEN n + 1 ELSE n

VARIABLES
    db,      \* the rows of table sensor
    dev,     \* Devices[i].id
    age,     \* seconds since Devices[i].lastalarm
    flag,    \* Devices[i].flagalalarmlive
    number,  \* DeviceNumber
    index,   \* DeviceIndex, counted from 1
    slot,    \* ret of Parser: the slot FindDevicesFromAdd returned, counted from 1
    pc,      \* thread_RiMMS: before the alive check, with a frame of a sensor
             \* that was found, or about to log a failure
    rpc,     \* where thread_comunication is in InitDevices
    edits,
    \* what is observed, and influences nothing:
    passed,  \* thread_RiMMS has made a pass in this second
    silent,  \* seconds since a sensor was heard, or put into the table
    clean,   \* Devices was not being loaded since the check of this pass
    wrong    \* the sensors whose failure was logged though they had not failed

tableVars == <<dev, number, index>>
timerVars == <<db, tableVars, age, flag, slot, pc, rpc, edits, passed, silent, clean, wrong>>

-----------------------------------------------------------------------------
(* thread_RiMMS *)

(* A frame of the sensor in slot i, the first with its address, is          *)
(* acknowledged and its samples are logged.                                 *)
Hear(i) ==
    /\ pc = "check"
    /\ i \in 1..number
    /\ \A j \in 1..(i - 1) : dev[j] # dev[i]
    /\ slot' = i
    /\ silent' = [silent EXCEPT ![dev[i]] = 0]
    /\ pc' = "heard"
    /\ UNCHANGED <<db, tableVars, age, flag, rpc, edits, passed, clean, wrong>>

(* Only then the timer of the slot is set, whichever sensor it has by now.  *)
ResetTimer ==
    /\ pc = "heard"
    /\ age' = [age EXCEPT ![slot] = 0]
    /\ flag' = [flag EXCEPT ![slot] = FALSE]
    /\ pc' = "check"
    /\ UNCHANGED <<db, tableVars, slot, rpc, edits, passed, silent, clean, wrong>>

NextIndex == IF index + 1 > number THEN 1 ELSE index + 1

(* Mutant: DeviceIndex is only moved on when a timer has run out. *)
StillAliveStays ==
    /\ pc = "check"
    /\ age[index] <= Alive[dev[index]]
    /\ passed' = TRUE
    /\ UNCHANGED <<db, tableVars, age, flag, slot, pc, rpc, edits, silent, clean, wrong>>

(* The timer of the device has not run out. *)
StillAlive ==
    /\ pc = "check"
    /\ age[index] <= Alive[dev[index]]
    /\ index' = NextIndex
    /\ passed' = TRUE
    /\ UNCHANGED <<db, dev, age, flag, number, slot, pc, rpc, edits, silent, clean, wrong>>

TimerRunsOut ==
    /\ pc = "check"
    /\ age[index] > Alive[dev[index]]
    /\ age' = [age EXCEPT ![index] = 0]
    /\ flag' = [flag EXCEPT ![index] = TRUE]
    /\ clean' = (rpc = "idle")
    /\ pc' = "tag"
    /\ UNCHANGED <<db, tableVars, slot, rpc, edits, passed, silent, wrong>>

(* Tag_TAG_SENSORFAILURE, with what is in the slot by now. *)
LogFailure ==
    /\ pc = "tag"
    /\ wrong' = wrong \cup
         {s \in {dev[index]} : clean /\ number > 0 /\ silent[s] <= Alive[s]}
    /\ index' = NextIndex
    /\ passed' = TRUE
    /\ pc' = "check"
    /\ UNCHANGED <<db, dev, age, flag, number, slot, rpc, edits, silent, clean>>

-----------------------------------------------------------------------------
(* SENSOR,UPD and SENSOR,RMV write the table and call InitDevices *)

RowsBut(i) == [j \in 1..(Len(db) - 1) |-> IF j < i THEN db[j] ELSE db[j + 1]]
EditedRows(s) == {db} \cup {RowsBut(i) : i \in {j \in 1..Len(db) : db[j] = s}}

Edit ==
    /\ edits < MaxEdits
    /\ \E i \in 1..number : db' \in EditedRows(dev[i])
    /\ edits' = edits + 1

(* LoadDeviceDb fills the slots from the first on and leaves the others. *)
Loaded(rows) == [i \in Slots |-> IF i <= Len(rows) THEN rows[i] ELSE dev[i]]

(* Mutant: the timers keep running. *)
TimersNotSet(n) ==
    /\ UNCHANGED <<age, flag>>
    /\ silent' = [s \in Sensor |-> IF \E i \in 1..n : dev'[i] = s THEN 0 ELSE silent[s]]

(* The loop of InitDevices over the devices. *)
TimersSet(n) ==
    /\ age' = [i \in Slots |-> IF i <= n THEN 0 ELSE age[i]]
    /\ flag' = [i \in Slots |-> IF i <= n THEN FALSE ELSE flag[i]]
    /\ silent' = [s \in Sensor |-> IF \E i \in 1..n : dev'[i] = s THEN 0 ELSE silent[s]]

(* Through shared memory, on thread_RiMMS between two passes. *)
EditBySM ==
    /\ pc = "check"
    /\ Edit
    /\ dev' = Loaded(db')
    /\ number' = Len(db')
    /\ index' = 1
    /\ TimersSet(Len(db'))
    /\ clean' = FALSE
    /\ UNCHANGED <<slot, pc, rpc, passed, wrong>>

(* Over UDP, on thread_comunication. *)
EditByNet ==
    /\ rpc = "idle"
    /\ Edit
    /\ rpc' = "clear"
    /\ UNCHANGED <<tableVars, age, flag, slot, pc, passed, silent, clean, wrong>>

ClearTable ==
    /\ rpc = "clear"
    /\ number' = 0
    /\ index' = 1
    /\ clean' = FALSE
    /\ rpc' = "load"
    /\ UNCHANGED <<db, dev, age, flag, slot, pc, edits, passed, silent, wrong>>

LoadDeviceDb ==
    /\ rpc = "load"
    /\ dev' = Loaded(db)
    /\ clean' = FALSE
    /\ rpc' = "count"
    /\ UNCHANGED <<db, number, index, age, flag, slot, pc, edits, passed, silent, wrong>>

CountDevices ==
    /\ rpc = "count"
    /\ number' = Len(db)
    /\ clean' = FALSE
    /\ rpc' = "timers"
    /\ UNCHANGED <<db, dev, index, age, flag, slot, pc, edits, passed, silent, wrong>>

SetTimers ==
    /\ rpc = "timers"
    /\ UNCHANGED dev
    /\ TimersSet(number)
    /\ clean' = FALSE
    /\ rpc' = "idle"
    /\ UNCHANGED <<db, number, index, slot, pc, edits, passed, wrong>>

-----------------------------------------------------------------------------
(* A second goes by.  A pass sleeps for 200 ms and writes some lines to     *)
(* files and to the modem of the gateway: there is at least one in every    *)
(* second.                                                                  *)
Tick ==
    /\ passed
    /\ age' = [i \in Slots |-> Older(age[i])]
    /\ silent' = [s \in Sensor |-> Older(silent[s])]
    /\ passed' = FALSE
    /\ UNCHANGED <<db, tableVars, flag, slot, pc, rpc, edits, clean, wrong>>

AliveInit ==
    /\ db = Rows /\ dev = Rows
    /\ number = Len(Rows) /\ index = 1
    /\ age = [i \in Slots |-> 0] /\ flag = [i \in Slots |-> FALSE]
    /\ slot = 1 /\ pc = "check" /\ rpc = "idle" /\ edits = 0
    /\ passed = FALSE /\ silent = [s \in Sensor |-> 0]
    /\ clean = TRUE /\ wrong = {}

AliveCheck ==
    \/ \E i \in Slots : Hear(i)
    \/ ResetTimer
    \/ StillAlive
    \/ TimerRunsOut
    \/ LogFailure

InitDevices == ClearTable \/ LoadDeviceDb \/ CountDevices \/ SetTimers

AliveNext == AliveCheck \/ EditBySM \/ EditByNet \/ InitDevices \/ Tick

AliveSpec == AliveInit /\ [][AliveNext]_timerVars

-----------------------------------------------------------------------------
(* Type invariant; DeviceIndex never stands behind the last device that was *)
(* there when it was moved, so Devices[DeviceIndex] is a loaded slot.       *)
AliveTypeOK ==
    /\ db \in Seq(Sensor) /\ Len(db) <= Len(Rows)
    /\ dev \in [Slots -> Sensor]
    /\ age \in [Slots -> 0..Bound] /\ flag \in [Slots -> BOOLEAN]
    /\ number \in 0..Len(Rows) /\ index \in Slots
    /\ slot \in Slots /\ pc \in {"check", "heard", "tag"}
    /\ rpc \in {"idle", "clear", "load", "count", "timers"}
    /\ edits \in 0..MaxEdits
    /\ passed \in BOOLEAN /\ clean \in BOOLEAN
    /\ silent \in [Sensor -> 0..Bound]
    /\ wrong \subseteq Sensor

(* A sensor of the table that has been silent for its aliveperiod is flagged *)
(* at the latest one round of DeviceIndex over the table later, wherever    *)
(* the index stood and however the table was loaded before.  The second     *)
(* more is what a pass takes at most from the search for the sensor of a    *)
(* frame to the reset of the timer, which may by then be another sensor's.  *)
SilenceIsNoticed ==
    rpc = "idle" =>
        \A i \in 1..number : silent[dev[i]] > Alive[dev[i]] + number + 1 => flag[i]

(* The failure of a sensor is logged only when it has been silent for its   *)
(* aliveperiod.  Left out are the passes that meet a table being loaded, in *)
(* which the timer of one sensor is compared with the period of another,    *)
(* and the table with no device, whose first slot is looked at all the same. *)
FailuresAreReal == wrong = {}

(* The types of the timers, with DeviceIndex on a slot, and that failures    *)
(* are real.                                                                *)
AliveInv == AliveTypeOK /\ FailuresAreReal
=============================================================================
