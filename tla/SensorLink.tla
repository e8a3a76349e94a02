------------------------------ MODULE SensorLink ------------------------------
(***************************************************************************)
(* From the radio sensors to the sample log (protocolrimms.c).             *)
(*                                                                         *)
(* Parser, on thread_RiMMS, takes the frames that came over the serial     *)
(* line, looks the sender up in Devices, acknowledges the frame and saves  *)
(* its samples one by one unless the packet is the one it saved last; then *)
(* it compares the value the device has with the device's thresholds and   *)
(* logs an alert when it has gone past one.  (The alive timers it looks at *)
(* after that are in AliveTimers.)  Commands of the server update or remove *)
(* a sensor in RiMMS.sql3 and call InitDevices, which empties and refills  *)
(* Devices: on thread_RiMMS itself when they come through shared memory, on *)
(* thread_comunication, step by step beside Parser, when they come over    *)
(* UDP.  There is no lock.                                                 *)
(*                                                                         *)
(* One measure stands for temperature, humidity and battery, which the code *)
(* checks one after the other in the same way, each with its value, its    *)
(* thresholds and its flag.  To a check it makes no difference whether a   *)
(* table was loaded before the check of another measure or after it: for   *)
(* each the load is one between FindDevicesFromAdd and its own check.      *)
(*                                                                         *)
(* The sensors and the radio are external.  A sensor sends a packet of     *)
(* samples, identified by its time stamp, until an acknowledgement reaches *)
(* it; frames and acknowledgements get lost.  A sensor is taken to wait    *)
(* until its frame is dealt with before it sends again: acknowledgements   *)
(* carry an address and no time stamp.                                     *)
(***************************************************************************)
EXTENDS Integers, Sequences, FiniteSets

CONSTANTS
    Sensor,      \* the sensors in the field
    Rows,        \* the rows of table sensor when the process starts
    Measure,     \* the value at the end of each packet they have to send
    Min, Max,    \* the thresholds of each sensor
    Samples,     \* how many samples a packet has, 6 in the code
    MaxEdits,    \* how many commands change the table
    MaxCrashes   \* how often the process is killed and started again

ASSUME LinkAssumption ==
    /\ IsFiniteSet(Sensor) /\ Measure \in [Sensor -> Seq(Int)]
    /\ MaxEdits \in Nat /\ MaxCrashes \in Nat
    /\ Min \in [Sensor -> Int] /\ Max \in [Sensor -> Int]
    /\ Samples \in Nat \ {0}

Slots == 1..Cardinality(Sensor)
NoSensor == "none"

(* AddDeviceDb refuses an id that is in the table. *)
Unique(rows) == \A i, j \in 1..Len(rows) : rows[i] = rows[j] => i = j

ASSUME RowsAssumption ==
    /\ Rows \in Seq(Sensor) /\ Unique(Rows) /\ Len(Rows) <= Cardinality(Sensor)
    /\ NoSensor \notin Sensor /\ Sensor # {}

Packets(s) == Len(Measure[s])
Stamp == Nat \ {0}
Frame == [sensor : Sensor, stamp : Stamp]

VARIABLES
    next,     \* the packet each sensor has to send next
    sent,     \* the sensors that have sent it and listen
    acks,     \* the sensors an acknowledgement is on its way to
    serial,   \* the frames in the kernel's buffer
    buffer,   \* the frames in buffer_serial, the one Parser works on included
    pc,       \* where thread_RiMMS is in Parser
    ret,      \* what FindDevicesFromAdd returned, 0 when there is nothing to use it
    sample,   \* i of ParserData: the sample that is next
    db,       \* the rows of table sensor
    dev,      \* Devices[i].add and .id
    last,     \* Devices[i].lastidradio
    value,    \* Devices[i].temperature
    alarm,    \* Devices[i].flagalalarmtemp
    number,   \* DeviceNumber
    rpc,      \* where thread_comunication is in InitDevices
    saved,    \* the samples in the log: <<id each is under, sensor, stamp, number>>
    edits, crashes,
    \* what is observed, and influences nothing:
    lastBy,   \* whose packet last is from
    repeated, \* the packets of which a sample is in the log more than once
    excused,  \* the packets that met a change of the table or a crash
    displaced,\* those whose slot got another sensor while Parser worked on them
    told,     \* the threshold each sensor was past when it was checked last
    unsure,   \* the sensors whose flag the last check may have left wrong
    astray    \* the packets for which an alert was logged wrongly, or was not

sensorVars == <<next, sent, acks>>
parserVars == <<buffer, pc, ret, sample>>
tableVars  == <<dev, number>>
valueVars  == <<value, alarm, told, unsure, astray>>
ghostVars  == <<lastBy, repeated, excused, displaced>>
vars == <<sensorVars, serial, parserVars, db, tableVars, last, valueVars,
          rpc, saved, edits, crashes, ghostVars>>

Packet(f) == <<f.sensor, f.stamp>>
Pending(s) == <<s, next[s]>>
Value(f) == Measure[f.sensor][f.stamp]
frame == Head(buffer)

-----------------------------------------------------------------------------
(* The sensors *)

(* The frame gets through; one that does not changes nothing. *)
Send(s) ==
    /\ next[s] <= Packets(s)
    /\ s \notin acks
    /\ \A i \in DOMAIN serial : serial[i].sensor # s
    /\ \A i \in DOMAIN buffer : buffer[i].sensor # s
    /\ serial' = Append(serial, [sensor |-> s, stamp |-> next[s]])
    /\ sent' = sent \cup {s}
    /\ UNCHANGED <<next, acks, parserVars, db, tableVars, last, valueVars, rpc,
                   saved, edits, crashes, ghostVars>>

(* An acknowledgement that nobody waits for is not heard. *)
HearAck(s) ==
    /\ s \in acks
    /\ acks' = acks \ {s}
    /\ sent' = sent \ {s}
    /\ next' = [next EXCEPT ![s] = IF s \in sent THEN @ + 1 ELSE @]
    /\ UNCHANGED <<serial, parserVars, db, tableVars, last, valueVars, rpc,
                   saved, edits, crashes, ghostVars>>

-----------------------------------------------------------------------------
(* thread_RiMMS: Parser *)

(* LoadDataRf *)
LoadDataRf ==
    /\ pc = "wait"
    /\ buffer' = serial
    /\ serial' = <<>>
    /\ pc' = "next"
    /\ UNCHANGED <<sensorVars, ret, sample, db, tableVars, last, valueVars, rpc,
                   saved, edits, crashes, ghostVars>>

(* FindDevicesFromAdd: the first slot with the address, among DeviceNumber. *)
(* Mutant: the last device of the table is not looked at. *)
MatchesButLast(s) == {i \in 1..(number - 1) : dev[i] = s}

Matches(s) == {i \in 1..number : dev[i] = s}

FindDevice ==
    /\ pc = "next"
    /\ buffer # <<>>
    /\ LET found == Matches(frame.sensor) IN
         \/ /\ ret' \in found /\ \A i \in found : ret' <= i
            /\ pc' = "found"
         \/ /\ found = {}
            /\ pc' = "unknown"
            /\ UNCHANGED ret
    /\ UNCHANGED <<sensorVars, serial, buffer, sample, db, tableVars, last, valueVars, rpc,
                   saved, edits, crashes, ghostVars>>

(* Mutant: all the frames that were read are acknowledged with the first. *)
AckAllRead ==
    /\ pc = "found"
    /\ acks' = acks \cup {buffer[i].sensor : i \in DOMAIN buffer}
    /\ pc' = "acked"
    /\ UNCHANGED <<next, sent, serial, buffer, ret, sample, db, tableVars, last, valueVars,
                   rpc, saved, edits, crashes, ghostVars>>

(* Mutant: only a packet that was not saved before is acknowledged. *)
AckNewOnly ==
    /\ pc = "found"
    /\ acks' \in {acks, acks \cup {s \in {dev[ret]} : last[ret] # frame.stamp}}
    /\ pc' = "acked"
    /\ UNCHANGED <<next, sent, serial, buffer, ret, sample, db, tableVars, last, valueVars,
                   rpc, saved, edits, crashes, ghostVars>>

(* SendAckSensor, to the address that is in the slot now.  The packet this  *)
(* acknowledges is the one the addressee is waiting for.                    *)
SendAckSensor ==
    /\ pc = "found"
    /\ acks' \in {acks, acks \cup {dev[ret]}}
    /\ excused' = excused \cup (IF Packet(frame) # Pending(dev[ret])
                                  THEN {Packet(frame), Pending(dev[ret])} ELSE {})
    /\ pc' = "acked"
    /\ UNCHANGED <<next, sent, serial, buffer, ret, sample, db, tableVars, last, valueVars,
                   rpc, saved, edits, crashes, lastBy, repeated, displaced>>

(* An unknown sensor is acknowledged too, and its samples are dropped. *)
AckUnknown ==
    /\ pc = "unknown"
    /\ acks' \in {acks, acks \cup {frame.sensor}}
    /\ excused' = excused \cup {Packet(frame)}
    /\ buffer' = Tail(buffer)
    /\ pc' = "next"
    /\ UNCHANGED <<next, sent, serial, ret, sample, db, tableVars, last, valueVars, rpc,
                   saved, edits, crashes, lastBy, repeated, displaced>>

(* Mutant: the samples are tagged with the id of the first device. *)
SaveSampleInFirst ==
    /\ pc = "acked" /\ sample <= Samples
    /\ IF last[ret] # frame.stamp
         THEN /\ saved' = saved \cup {<<dev[1], frame.sensor, frame.stamp, sample>>}
              /\ value' = [value EXCEPT ![ret] = Value(frame)]
         ELSE UNCHANGED <<saved, value>>
    /\ sample' = sample + 1
    /\ UNCHANGED <<sensorVars, serial, buffer, pc, ret, db, tableVars, last, alarm, told,
                   unsure, astray, rpc, edits, crashes, ghostVars>>

(* ParserData, the loop: the packet is compared with the one the slot saved  *)
(* last, and the sample is tagged with the id that is in the slot now.  The  *)
(* value is that of the last sample; nothing reads the others.               *)
SaveSample ==
    /\ pc = "acked" /\ sample <= Samples
    /\ IF last[ret] # frame.stamp
         THEN /\ saved' = saved \cup {<<dev[ret], frame.sensor, frame.stamp, sample>>}
              /\ value' = [value EXCEPT ![ret] = Value(frame)]
              /\ repeated' = repeated \cup
                   {Packet(frame) : e \in {e \in saved :
                      <<e[2], e[3], e[4]>> = <<frame.sensor, frame.stamp, sample>>}}
         ELSE UNCHANGED <<saved, value, repeated>>
    /\ sample' = sample + 1
    /\ UNCHANGED <<sensorVars, serial, buffer, pc, ret, db, tableVars, last, alarm, told,
                   unsure, astray, rpc, edits, crashes, lastBy, excused, displaced>>

(* Mutant: lastidradio is never set. *)
EndSamplesForgettingStamp ==
    /\ pc = "acked" /\ sample > Samples
    /\ sample' = 1
    /\ pc' = "saved"
    /\ UNCHANGED <<sensorVars, serial, buffer, ret, db, tableVars, last, valueVars, rpc,
                   saved, edits, crashes, ghostVars>>

(* ParserData after the loop.  A packet that was not saved because the slot  *)
(* has the stamp of a packet of the sensor it had before is excused.         *)
EndSamples ==
    /\ pc = "acked" /\ sample > Samples
    /\ last' = [last EXCEPT ![ret] = frame.stamp]
    /\ lastBy' = [lastBy EXCEPT ![ret] = frame.sensor]
    /\ excused' = excused \cup
         (IF last[ret] = frame.stamp /\ lastBy[ret] # frame.sensor
            THEN {Packet(frame)} ELSE {})
    /\ sample' = 1
    /\ pc' = "saved"
    /\ UNCHANGED <<sensorVars, serial, buffer, ret, db, tableVars, valueVars, rpc,
                   saved, edits, crashes, repeated, displaced>>

ParserData == SaveSample \/ EndSamples

(* On which side of a sensor's thresholds a value is: flagalalarmtemp.  A   *)
(* threshold of 0 is none, and then the other is none either.               *)
Side(s, v) == IF v < Min[s] THEN 1 ELSE IF v > Max[s] THEN 2 ELSE 0
Watched(s) == Min[s] # 0 /\ Max[s] # 0

(* Mutant: an alert with every packet while the value is past a threshold. *)
AlertsAgain(i) == Watched(dev[i]) /\ Side(dev[i], value[i]) # 0

Alerts(i) == Watched(dev[i]) /\ Side(dev[i], value[i]) \notin {0, alarm[i]}

(* An alert is due when the sensor that sent the packet has gone past a     *)
(* threshold since it was checked last.                                     *)
Due(f) == Watched(f.sensor) /\ Side(f.sensor, Value(f)) \notin {0, told[f.sensor]}

(* The check is one of the frame's sensor, in its slot, for its value. *)
InPlace ==
    dev[ret] = frame.sensor /\ Matches(frame.sensor) \subseteq {ret} /\ value[ret] = Value(frame)

(* What the check does can be told from the sensor's own packets.           *)
Certain == rpc = "idle" /\ ret <= number /\ frame.sensor \notin unsure

Done ==
    /\ buffer' = Tail(buffer)
    /\ ret' = 0
    /\ pc' = "next"

(* CheckSensorThresholds: the value and the thresholds that the slot has now *)
(* are compared and the flag is set.                                         *)
CheckThresholds ==
    /\ pc = "saved"
    /\ alarm' = IF Watched(dev[ret]) THEN [alarm EXCEPT ![ret] = Side(dev[ret], value[ret])]
                                     ELSE alarm
    /\ astray' = astray \cup
         (IF Certain /\ Alerts(ret) # (Due(frame) /\ dev[ret] = frame.sensor)
            THEN {Packet(frame)} ELSE {})
    /\ told' = [told EXCEPT ![frame.sensor] = Side(frame.sensor, Value(frame))]
    /\ unsure' = IF InPlace THEN unsure \ {frame.sensor}
                            ELSE unsure \cup {frame.sensor, dev[ret]}
    /\ \/ Alerts(ret) /\ pc' = "alert" /\ UNCHANGED <<buffer, ret>>
       \/ ~Alerts(ret) /\ Done
    /\ UNCHANGED <<sensorVars, serial, sample, db, tableVars, last, value, rpc, saved,
                   edits, crashes, ghostVars>>

(* The alert is tagged with the id that is in the slot by then.  lastalarm   *)
(* and flagalalarmlive are reset when CheckSensorThresholds has returned.    *)
TagAlert ==
    /\ pc = "alert"
    /\ Done
    /\ astray' = astray \cup (IF dev[ret] # frame.sensor THEN {Packet(frame)} ELSE {})
    /\ UNCHANGED <<sensorVars, serial, sample, db, tableVars, last, value, alarm, told,
                   unsure, rpc, saved, edits, crashes, ghostVars>>

CheckSensorThresholds == CheckThresholds \/ TagAlert

(* The buffer is empty.  The alive timer it then looks at is AliveTimers. *)
EndOfData ==
    /\ pc = "next"
    /\ buffer = <<>>
    /\ pc' = "wait"
    /\ UNCHANGED <<sensorVars, serial, buffer, ret, sample, db, tableVars, last, valueVars,
                   rpc, saved, edits, crashes, ghostVars>>

-----------------------------------------------------------------------------
(* The commands SENSOR,UPD and SENSOR,RMV, for a sensor in Devices; ADD     *)
(* never gets past its SQL statement.                                       *)
RowsBut(i) == [j \in 1..(Len(db) - 1) |-> IF j < i THEN db[j] ELSE db[j + 1]]

Edited(s) ==
    /\ edits < MaxEdits
    /\ Matches(s) # {}
    /\ edits' = edits + 1
    /\ \/ UNCHANGED db
       \/ \E i \in 1..Len(db) : db[i] = s /\ db' = RowsBut(i)

(* LoadDeviceDb: row i becomes Devices[i], which keeps its lastidradio. *)
Loaded(rows) == [i \in Slots |-> IF i <= Len(rows) THEN rows[i] ELSE dev[i]]

(* The packet that Parser works on is in a slot that gets another sensor.    *)
Displaced(rows) ==
    IF ret # 0 /\ Loaded(rows)[ret] # dev[ret] THEN {Packet(frame)} ELSE {}

(* A packet that may be in the log already, or is being handled, of a sensor *)
(* that moves; and one whose slot gets another sensor.                       *)
Moved(rows) ==
    LET movers == {s \in Sensor : \E i \in Slots : Loaded(rows)[i] = s /\ dev[i] # s}
        handled == IF ret = 0 THEN {} ELSE {Packet(frame)}
    IN  {Pending(s) : s \in movers} \cup {p \in handled : p[1] \in movers}
          \cup Displaced(rows)

(* The loop of InitDevices over the devices. *)
FlagsCleared(n) ==
    /\ alarm' = [i \in Slots |-> IF i <= n THEN 0 ELSE alarm[i]]
    /\ told' = [s \in Sensor |-> IF \E i \in 1..n : dev'[i] = s THEN 0 ELSE told[s]]
    /\ unsure' = {s \in unsure : \A i \in 1..n : dev'[i] # s}

(* Through shared memory: GestSMComunication, between two calls of Parser. *)
EditBySM(s) ==
    /\ pc = "wait"
    /\ Edited(s)
    /\ dev' = Loaded(db')
    /\ number' = Len(db')
    /\ FlagsCleared(Len(db'))
    /\ excused' = excused \cup Moved(db')
    /\ UNCHANGED <<sensorVars, serial, parserVars, last, value, astray, rpc, saved, crashes,
                   lastBy, repeated, displaced>>

(* Over UDP: on thread_comunication. *)
EditByNet(s) ==
    /\ rpc = "idle"
    /\ Edited(s)
    /\ rpc' = "clear"
    /\ UNCHANGED <<sensorVars, serial, parserVars, tableVars, last, valueVars,
                   saved, crashes, ghostVars>>

(* InitDevices: DeviceNumber = 0; DeviceIndex = 0 *)
ClearTable ==
    /\ rpc = "clear"
    /\ number' = 0
    /\ rpc' = "load"
    /\ UNCHANGED <<sensorVars, serial, parserVars, db, dev, last, valueVars, saved,
                   edits, crashes, ghostVars>>

(* LoadDeviceDb overwrites the slots, which Parser may be using. *)
LoadDeviceDb ==
    /\ rpc = "load"
    /\ dev' = Loaded(db)
    /\ excused' = excused \cup Moved(db)
    /\ displaced' = displaced \cup Displaced(db)
    /\ rpc' = "count"
    /\ UNCHANGED <<sensorVars, serial, parserVars, db, number, last, valueVars,
                   saved, edits, crashes, lastBy, repeated>>

(* DeviceNumber gets its value. *)
FinishTable ==
    /\ rpc = "count"
    /\ number' = Len(db)
    /\ rpc' = "clean"
    /\ UNCHANGED <<sensorVars, serial, parserVars, db, dev, last, valueVars, saved,
                   edits, crashes, ghostVars>>

(* The flags of the alarms are cleared. *)
ClearFlags ==
    /\ rpc = "clean"
    /\ UNCHANGED dev
    /\ FlagsCleared(number)
    /\ rpc' = "idle"
    /\ UNCHANGED <<sensorVars, serial, parserVars, db, number, last, value, astray, saved,
                   edits, crashes, ghostVars>>

-----------------------------------------------------------------------------
(* The process is killed and started again: Devices is loaded from the      *)
(* table, and no lastidradio is remembered.                                 *)
Crash ==
    /\ crashes < MaxCrashes
    /\ crashes' = crashes + 1
    /\ serial' = <<>> /\ buffer' = <<>>
    /\ pc' = "wait"
    /\ dev' = [i \in Slots |-> IF i <= Len(db) THEN db[i] ELSE NoSensor]
    /\ last' = [i \in Slots |-> 0]
    /\ lastBy' = [i \in Slots |-> NoSensor]
    /\ number' = Len(db)
    /\ rpc' = "idle"
    /\ excused' = excused \cup {Pending(s) : s \in Sensor}
                          \cup (IF pc = "acked" THEN {Packet(frame)} ELSE {})
    /\ ret' = 0 /\ sample' = 1
    /\ value' = [i \in Slots |-> 0] /\ alarm' = [i \in Slots |-> 0]
    /\ told' = [s \in Sensor |-> 0] /\ unsure' = {}
    /\ UNCHANGED <<sensorVars, db, saved, edits, repeated, displaced, astray>>

-----------------------------------------------------------------------------
Init ==
    /\ next = [s \in Sensor |-> 1] /\ sent = {} /\ acks = {}
    /\ serial = <<>> /\ buffer = <<>>
    /\ pc = "wait" /\ ret = 0 /\ sample = 1
    /\ db = Rows
    /\ dev = [i \in Slots |-> IF i <= Len(Rows) THEN Rows[i] ELSE NoSensor]
    /\ number = Len(Rows)
    /\ last = [i \in Slots |-> 0]
    /\ rpc = "idle"
    /\ saved = {} /\ edits = 0 /\ crashes = 0
    /\ lastBy = [i \in Slots |-> NoSensor] /\ repeated = {}
    /\ excused = {} /\ displaced = {}
    /\ value = [i \in Slots |-> 0] /\ alarm = [i \in Slots |-> 0]
    /\ told = [s \in Sensor |-> 0] /\ unsure = {} /\ astray = {}

Sensors == \E s \in Sensor : Send(s) \/ HearAck(s)

Parser ==
    \/ LoadDataRf
    \/ FindDevice
    \/ SendAckSensor
    \/ AckUnknown
    \/ ParserData
    \/ CheckSensorThresholds
    \/ EndOfData

Commands == \E s \in Sensor : EditBySM(s) \/ EditByNet(s)

InitDevices == ClearTable \/ LoadDeviceDb \/ FinishTable \/ ClearFlags

Next == Sensors \/ Parser \/ Commands \/ InitDevices \/ Crash

Spec == Init /\ [][Next]_vars

(* Both threads are scheduled; the radio does not lose every frame and every *)
(* acknowledgement of a sensor.                                              *)
AckGetsThrough(s) == (SendAckSensor \/ AckUnknown) /\ s \notin acks /\ s \in acks'
Fairness ==
    /\ WF_vars(Parser)
    /\ WF_vars(InitDevices)
    /\ \A s \in Sensor :
         WF_vars(Send(s) \/ HearAck(s)) /\ SF_vars(AckGetsThrough(s))

FairSpec == Spec /\ Fairness

-----------------------------------------------------------------------------
TypeOK ==
    /\ next \in [Sensor -> Stamp] /\ sent \subseteq Sensor /\ acks \subseteq Sensor
    /\ serial \in Seq(Frame) /\ buffer \in Seq(Frame)
    /\ pc \in {"wait", "next", "found", "acked", "saved", "alert", "unknown"}
    /\ ret \in Slots \cup {0}
    /\ sample \in 1..(Samples + 1) /\ (pc # "acked" => sample = 1)
    /\ pc \in {"found", "acked", "saved", "alert", "unknown"} => buffer # <<>>
    /\ ret # 0 <=> pc \in {"found", "acked", "saved", "alert"}
    /\ db \in Seq(Sensor) /\ Len(db) <= Cardinality(Sensor)
    /\ dev \in [Slots -> Sensor \cup {NoSensor}]
    /\ number \in 0..Cardinality(Sensor)
    /\ last \in [Slots -> Nat]
    /\ value \in [Slots -> Int] /\ alarm \in [Slots -> 0..2]
    /\ rpc \in {"idle", "clear", "load", "count", "clean"}
    /\ saved \subseteq Sensor \X Sensor \X Stamp \X (1..Samples)
    /\ edits \in 0..MaxEdits /\ crashes \in 0..MaxCrashes

(* All samples of packet k of a sensor are in the log, under its id. *)
Whole(s, k) == \A i \in 1..Samples : <<s, s, k, i>> \in saved

(* A packet a sensor has been told to forget is in the log, all its samples  *)
(* under the id of that sensor, or being saved.  Excused are the packets     *)
(* that a crash met, those of a sensor that is loaded into another slot or   *)
(* whose slot is loaded with another while Parser has them, those whose slot *)
(* has the same stamp of the sensor it had before, those acknowledged by the *)
(* acknowledgement of another packet, and those of a sensor that is not in   *)
(* the table: the acknowledgement that is sent before the samples are saved  *)
(* loses nothing else.                                                       *)
AckedIsSaved ==
    \A s \in Sensor : \A k \in 1..(next[s] - 1) :
        \/ Whole(s, k)
        \/ pc = "acked" /\ Packet(frame) = <<s, k>>
        \/ <<s, k>> \in excused

(* No sample is in the log twice, however often it was sent again: it is    *)
(* enough to compare with the time stamp saved last, even though the packets *)
(* of two sensors may have the same time stamp.                             *)
SavedOnce == repeated \subseteq excused

(* A sample is logged under the id of another sensor only when LoadDeviceDb  *)
(* has put another sensor into the slot of its packet after                  *)
(* FindDevicesFromAdd returned that slot: neither a repeated packet, nor the *)
(* packets before it, nor a crash, nor a load at any other moment does it.   *)
RightSensor ==
    \A e \in saved : e[1] # e[2] => <<e[2], e[3]>> \in displaced

(* An alert is logged with the packet with which a sensor's value goes past  *)
(* a threshold, once, under its id, and with no other: repeated packets and  *)
(* values of a slot's former sensor raise none, unless the packet met a      *)
(* change of the table or a crash, or is checked while the table is loaded   *)
(* or has lost the sensor, or follows a packet that was checked in a slot of *)
(* another sensor or with another's value (unsure).                          *)
AlertsAreReal == astray \subseteq excused

(* The types of link and table, and that no sample is in the log twice.     *)
TableInv == TypeOK /\ SavedOnce

(* Without crash and change of the table nothing needs an excuse, when all  *)
(* the sensors are in the table.                                            *)
Undisturbed ==
    edits = 0 /\ crashes = 0 /\ (\A s \in Sensor : \E i \in DOMAIN Rows : Rows[i] = s)
        => excused = {}

(* The sensors get rid of all their packets.                                *)
PacketsAccepted == <>(\A s \in Sensor : next[s] > Packets(s))
=============================================================================
