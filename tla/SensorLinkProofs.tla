--------------------------- MODULE SensorLinkProofs ---------------------------
(***************************************************************************)
(* For any number of sensors, any packets, any thresholds and any number   *)
(* of commands and crashes: the types, that what was acknowledged is       *)
(* saved, once and under the right id, that alerts are real, and that only *)
(* changes of the table and crashes need an excuse.                        *)
(***************************************************************************)
EXTENDS SensorLink, FiniteSetTheorems, TLAPS

Handling == pc \in {"found", "acked", "saved", "alert"}

(* What is observed has types of its own, and the slot in use has a sensor. *)
GhostTypes ==
    /\ lastBy \in [Slots -> Sensor \cup {NoSensor}]
    /\ told \in [Sensor -> 0..2] /\ unsure \subseteq Sensor
    /\ Handling => dev[ret] \in Sensor

(* A frame is of the packet its sensor waits for, or of the last one when    *)
(* the acknowledgement has overtaken it.                                     *)
FrameOk(f) ==
    /\ f \in Frame /\ f.stamp <= Packets(f.sensor)
    /\ \/ f.sensor \in sent /\ f.stamp = next[f.sensor]
       \/ f.sensor \notin sent /\ f.stamp + 1 = next[f.sensor]
FramesOk ==
    /\ \A i \in 1..Len(serial) : FrameOk(serial[i])
    /\ \A i \in 1..Len(buffer) : FrameOk(buffer[i])

TypeInv == TypeOK /\ GhostTypes /\ FramesOk

(* A sensor has one frame at most on its way.                                *)
OneFrame ==
    /\ \A i, j \in 1..Len(serial) : serial[i].sensor = serial[j].sensor => i = j
    /\ \A i, j \in 1..Len(buffer) : buffer[i].sensor = buffer[j].sensor => i = j
    /\ \A i \in 1..Len(serial), j \in 1..Len(buffer) : serial[i].sensor # buffer[j].sensor

(* The slots FindDevicesFromAdd looks at now, or will after the table that   *)
(* is being loaded; they only become fewer, and have different sensors.      *)
Reach == IF number > Len(db) THEN number ELSE Len(db)
TableOk ==
    /\ Unique(db)
    /\ rpc = "load" => number <= Len(db)
    /\ \A i \in 1..Reach : dev[i] \in Sensor
    /\ \A i, j \in 1..Reach : dev[i] = dev[j] => i = j

(* The frame being handled was found in the only slot its sensor has, unless *)
(* it has an excuse.                                                         *)
FoundRight ==
    Handling /\ dev[ret] = frame.sensor =>
        \/ Packet(frame) \in excused
        \/ \A j \in 1..Reach : dev[j] = frame.sensor => j = ret

(* A slot gets another sensor under Parser only by a load, which was seen.   *)
Displacements ==
    /\ Handling /\ dev[ret] # frame.sensor => Packet(frame) \in displaced
    /\ displaced \subseteq excused

LinkInv == TypeInv /\ OneFrame /\ TableOk /\ FoundRight /\ Displacements

-----------------------------------------------------------------------------
(* An acknowledgement that overtakes its frame is one that was meant for     *)
(* another sensor, but for the frame that Parser has just acknowledged.      *)
Overtaken(f) == f.sensor \in acks \/ f.sensor \notin sent
Overtakings ==
    /\ \A i \in 1..Len(serial) : Overtaken(serial[i]) => Packet(serial[i]) \in excused
    /\ \A i \in 1..Len(buffer) :
         Overtaken(buffer[i]) /\ ~(i = 1 /\ pc \in {"acked", "saved", "alert"})
            => Packet(buffer[i]) \in excused

(* AckedIsSaved already holds of the packets whose acknowledgement is on its *)
(* way, and of those the slots remember.                                     *)
Safe(s, k) ==
    \/ Whole(s, k)
    \/ pc = "acked" /\ Packet(frame) = <<s, k>>
    \/ <<s, k>> \in excused
Accepted ==
    /\ \A s \in Sensor : \A k \in 1..(next[s] - 1) : Safe(s, k)
    /\ \A s \in acks \cap sent : Safe(s, next[s])
Remembered ==
    \A i \in Slots : last[i] # 0 =>
        /\ lastBy[i] \in Sensor
        /\ Whole(lastBy[i], last[i]) \/ <<lastBy[i], last[i]>> \in excused

(* How far ParserData has come with a packet that it saves.                  *)
Progress ==
    pc = "acked" /\ last[ret] # frame.stamp =>
        /\ sample > 1 => value[ret] = Value(frame)
        /\ \/ Packet(frame) \in excused
           \/ \A i \in 1..(sample - 1) : <<frame.sensor, frame.sensor, frame.stamp, i>> \in saved

AckInv == Overtakings /\ Accepted /\ Remembered /\ Progress

-----------------------------------------------------------------------------
(* Nothing is saved before it is sent.                                       *)
SavedWasSent ==
    \A e \in saved : e[3] <= next[e[2]] /\ (e[3] = next[e[2]] => e[2] \in sent)

(* A sample of the packet that a sensor waits for is in the log, and Parser  *)
(* is not at it.                                                             *)
Logged(s) ==
    /\ \E i \in 1..Samples : <<s, s, next[s], i>> \in saved
    /\ ~(pc = "acked" /\ Packet(frame) = Pending(s))

(* The slot in which a packet that is sent again will be found knows it.     *)
KnownAgain ==
    \A s \in Sensor :
        Logged(s) /\ Pending(s) \notin excused =>
            \A j \in 1..Reach : dev[j] = s => last[j] = next[s]

(* So does the slot in which it was found.  If that has got another sensor   *)
(* meanwhile, no packet of this one is to be known again.                    *)
KnownWhenFound ==
    pc \in {"found", "acked"} =>
        /\ dev[ret] = frame.sensor /\ Packet(frame) \notin excused
             /\ (\E i \in sample..Samples :
                    <<frame.sensor, frame.sensor, frame.stamp, i>> \in saved)
                => last[ret] = frame.stamp
        /\ dev[ret] # frame.sensor =>
             \/ Pending(dev[ret]) \in excused
             \/ \A e \in saved : e[2] = dev[ret] => e[3] # next[dev[ret]]

OnceInv == RightSensor /\ SavedWasSent /\ KnownAgain /\ KnownWhenFound /\ SavedOnce

-----------------------------------------------------------------------------
(* A slot has the value of the packet it remembers, or of the one that is    *)
(* being saved.                                                              *)
ValueKnown ==
    \A i \in Slots : last[i] # 0 =>
        \/ value[i] = Measure[lastBy[i]][last[i]]
        \/ <<lastBy[i], last[i]>> \in excused
        \/ pc = "acked" /\ i = ret /\ last[i] # frame.stamp
JustSaved == pc = "saved" => last[ret] = frame.stamp /\ lastBy[ret] = frame.sensor

(* flagalalarmtemp is what the sensor was told last.                         *)
FlagIsTold ==
    rpc = "idle" =>
        \A j \in 1..number : dev[j] \notin unsure /\ Watched(dev[j]) =>
            alarm[j] = told[dev[j]]

AlertInv == ValueKnown /\ JustSaved /\ FlagIsTold /\ AlertsAreReal

-----------------------------------------------------------------------------
(* As long as nothing disturbs it, the table is as it was loaded.            *)
Calm ==
    edits = 0 /\ crashes = 0 /\ (\A s \in Sensor : \E i \in DOMAIN Rows : Rows[i] = s) =>
        /\ excused = {} /\ rpc = "idle" /\ number = Len(Rows)
        /\ \A i \in 1..Len(Rows) : dev[i] = Rows[i]
        /\ pc # "unknown"
        /\ Handling => dev[ret] = frame.sensor
        /\ \A i \in Slots : last[i] # 0 => lastBy[i] = dev[i]

-----------------------------------------------------------------------------
(* The slots are as many as the sensors. *)
LEMMA SlotsAreFinite == Cardinality(Sensor) \in Nat /\ 0 \notin Slots
BY FS_CardinalityType, LinkAssumption DEF Slots

(* What is left of a sequence without its head. *)
LEMMA TailShifts ==
    ASSUME NEW S, NEW q \in Seq(S), q # <<>>
    PROVE  /\ Tail(q) \in Seq(S) /\ Len(q) \in Nat \ {0} /\ Len(Tail(q)) = Len(q) - 1
           /\ \A i \in 1..Len(Tail(q)) : Tail(q)[i] = q[i + 1]
           /\ Head(q) = q[1] /\ Head(q) \in S /\ 1 \in 1..Len(q)
OBVIOUS

(* The value of a frame and the side it is on. *)
LEMMA ValueIsInt ==
    ASSUME NEW f, FrameOk(f)
    PROVE  f.sensor \in Sensor /\ f.stamp \in Nat \ {0} /\ Value(f) \in Int
BY LinkAssumption DEF FrameOk, Frame, Packets, Value, Stamp

LEMMA SideIsFlag ==
    ASSUME NEW s \in Sensor, NEW v \in Int
    PROVE  Side(s, v) \in 0..2
BY DEF Side

(* A command leaves a table of different sensors, and no longer one. *)
LEMMA EditedTable ==
    ASSUME TypeOK, NEW s \in Sensor, Edited(s)
    PROVE  /\ db' \in Seq(Sensor) /\ Len(db') <= Len(db) /\ edits' \in 0..MaxEdits
           /\ Unique(db) => Unique(db')
<1>1. edits' \in 0..MaxEdits
  BY LinkAssumption DEF Edited, TypeOK
<1>2. CASE UNCHANGED db
  BY <1>1, <1>2 DEF TypeOK, Unique
<1>3. CASE \E i \in 1..Len(db) : db' = RowsBut(i)
  <2>1. PICK i \in 1..Len(db) : db' = RowsBut(i)
    BY <1>3
  <2>2. Len(db) - 1 \in Nat /\ \A j \in 1..Len(db) : db[j] \in Sensor
    BY DEF TypeOK
  <2>3. db' \in [1..(Len(db) - 1) -> Sensor]
    BY <2>1, <2>2 DEF RowsBut
  <2>4. db' \in Seq(Sensor) /\ Len(db') = Len(db) - 1
    BY <2>2, <2>3
  <2>5. Unique(db) => Unique(db')
    BY <2>1, <2>2, <2>4 DEF Unique, RowsBut
  <2> QED BY <1>1, <2>2, <2>4, <2>5
<1> QED
  BY <1>2, <1>3 DEF Edited

(* A load fills the slots of the rows and leaves the others. *)
LEMMA LoadedSlots ==
    ASSUME TypeOK, NEW rows \in Seq(Sensor)
    PROVE  /\ Loaded(rows) \in [Slots -> Sensor \cup {NoSensor}]
           /\ \A i \in Slots : Loaded(rows)[i] = IF i <= Len(rows) THEN rows[i] ELSE dev[i]
           /\ \A i \in Slots : dev[i] \in Sensor => Loaded(rows)[i] \in Sensor
BY SlotsAreFinite DEF Loaded, TypeOK, Slots

-----------------------------------------------------------------------------
(* The frame at the head of the buffer. *)
LEMMA HeadFrame ==
    ASSUME TypeInv, buffer # <<>>
    PROVE  /\ Tail(buffer) \in Seq(Frame) /\ Len(buffer) \in Nat \ {0}
           /\ Len(Tail(buffer)) = Len(buffer) - 1
           /\ \A i \in 1..Len(Tail(buffer)) : Tail(buffer)[i] = buffer[i + 1]
           /\ frame = buffer[1] /\ frame \in Frame /\ 1 \in 1..Len(buffer) /\ FrameOk(frame)
           /\ frame.sensor \in Sensor /\ frame.stamp \in Nat \ {0} /\ Value(frame) \in Int
<1>1. buffer \in Seq(Frame)
  BY DEF TypeInv, TypeOK
<1>2. /\ Tail(buffer) \in Seq(Frame) /\ Len(buffer) \in Nat \ {0}
      /\ Len(Tail(buffer)) = Len(buffer) - 1
      /\ \A i \in 1..Len(Tail(buffer)) : Tail(buffer)[i] = buffer[i + 1]
      /\ frame = buffer[1] /\ frame \in Frame /\ 1 \in 1..Len(buffer)
  BY <1>1, TailShifts DEF frame
<1>3. FrameOk(frame)
  BY <1>2 DEF TypeInv, FramesOk
<1> QED BY <1>2, <1>3, ValueIsInt

(* A sensor that a load puts into a slot has its packets excused. *)
LEMMA MovedExcused ==
    ASSUME TypeInv, NEW rows \in Seq(Sensor), dev' = Loaded(rows),
           excused' = excused \cup Moved(rows),
           NEW s \in Sensor, NEW j \in Slots, dev'[j] = s
    PROVE  \/ dev[j] = s
           \/ /\ Pending(s) \in excused'
              /\ ret # 0 /\ frame.sensor = s => Packet(frame) \in excused'
<1>1. SUFFICES ASSUME dev[j] # s
               PROVE  /\ Pending(s) \in excused'
                      /\ ret # 0 /\ frame.sensor = s => Packet(frame) \in excused'
  OBVIOUS
<1> DEFINE movers == {t \in Sensor : \E i \in Slots : Loaded(rows)[i] = t /\ dev[i] # t}
<1>2. s \in movers
  BY <1>1
<1>3. Pending(s) \in Moved(rows)
  BY <1>2 DEF Moved
<1>4. ret # 0 /\ frame.sensor = s => Packet(frame) \in Moved(rows)
  BY <1>2 DEF Moved, Packet
<1> QED BY <1>3, <1>4

(* The types of the model and of what is observed. *)
LEMMA TypesKept ==
    ASSUME TypeInv, [Next]_vars
    PROVE  TypeOK' /\ GhostTypes'
<1> USE DEF TypeInv
<1>0. Cardinality(Sensor) \in Nat /\ 0 \notin Slots /\ NoSensor \notin Sensor
  BY SlotsAreFinite, RowsAssumption
<1>h. buffer # <<>> => /\ Tail(buffer) \in Seq(Frame) /\ frame.sensor \in Sensor
                       /\ frame.stamp \in Stamp /\ Value(frame) \in Int
  BY HeadFrame DEF Stamp
<1>1. ASSUME NEW s \in Sensor, Send(s)
      PROVE  TypeOK' /\ GhostTypes'
  <2>1. [sensor |-> s, stamp |-> next[s]] \in Frame
    BY DEF TypeOK, Frame
  <2>2. serial' \in Seq(Frame)
    BY <1>1, <2>1 DEF TypeOK, Send
  <2> QED BY <1>1, <2>2 DEF TypeOK, GhostTypes, Handling, Send, parserVars, tableVars, valueVars, ghostVars
<1>2. ASSUME NEW s \in Sensor, HearAck(s)
      PROVE  TypeOK' /\ GhostTypes'
  <2>1. next' \in [Sensor -> Stamp]
    BY <1>2 DEF TypeOK, HearAck, Stamp
  <2> QED BY <1>2, <2>1 DEF TypeOK, GhostTypes, Handling, HearAck, parserVars, tableVars, valueVars, ghostVars
<1>3. CASE LoadDataRf
  BY <1>3 DEF TypeOK, GhostTypes, Handling, LoadDataRf, sensorVars, tableVars, valueVars, ghostVars
<1>4. CASE FindDevice
  <2>1. ASSUME ret' \in Matches(frame.sensor), pc' = "found"
        PROVE  ret' \in Slots /\ dev[ret'] \in Sensor
    BY <1>0, <1>4, <1>h, <2>1 DEF FindDevice, Matches, TypeOK, Slots
  <2> QED BY <1>0, <1>4, <2>1 DEF TypeOK, GhostTypes, Handling, FindDevice, sensorVars, tableVars, valueVars, ghostVars
<1>5. CASE SendAckSensor
  BY <1>5 DEF TypeOK, GhostTypes, Handling, SendAckSensor, tableVars, valueVars, ghostVars
<1>6. CASE AckUnknown
  BY <1>0, <1>6, <1>h DEF TypeOK, GhostTypes, Handling, AckUnknown, tableVars, valueVars, ghostVars
<1>7. CASE SaveSample
  <2>1. ret \in Slots /\ dev[ret] \in Sensor /\ buffer # <<>> /\ pc = "acked"
    BY <1>7 DEF TypeOK, GhostTypes, Handling, SaveSample
  <2>2. sample \in 1..Samples /\ sample' \in 1..(Samples + 1)
    BY <1>7, LinkAssumption DEF TypeOK, SaveSample
  <2>3. saved' \subseteq Sensor \X Sensor \X Stamp \X (1..Samples) /\ value' \in [Slots -> Int]
    BY <1>7, <1>h, <2>1, <2>2 DEF TypeOK, SaveSample
  <2> QED BY <1>7, <2>1, <2>2, <2>3 DEF TypeOK, GhostTypes, Handling, SaveSample, sensorVars, tableVars
<1>7e. CASE EndSamples
  <2>1. ret \in Slots /\ dev[ret] \in Sensor /\ buffer # <<>> /\ 1 \in 1..(Samples + 1)
    BY <1>7e, LinkAssumption DEF TypeOK, GhostTypes, Handling, EndSamples
  <2>2. last' \in [Slots -> Nat] /\ lastBy' \in [Slots -> Sensor \cup {NoSensor}]
    BY <1>7e, <1>h, <2>1 DEF TypeOK, GhostTypes, EndSamples, Stamp
  <2> QED BY <1>7e, <2>1, <2>2 DEF TypeOK, GhostTypes, Handling, EndSamples, sensorVars, tableVars, valueVars
<1>8. CASE CheckThresholds
  <2>1. ret \in Slots /\ dev[ret] \in Sensor /\ buffer # <<>>
    BY <1>8 DEF TypeOK, GhostTypes, Handling, CheckThresholds
  <2>2. Side(dev[ret], value[ret]) \in 0..2 /\ Side(frame.sensor, Value(frame)) \in 0..2
    BY <1>h, <2>1, SideIsFlag DEF TypeOK
  <2>3. alarm' \in [Slots -> 0..2] /\ told' \in [Sensor -> 0..2] /\ unsure' \subseteq Sensor
    BY <1>8, <1>h, <2>1, <2>2 DEF TypeOK, GhostTypes, CheckThresholds
  <2>4. CASE pc' = "alert" /\ UNCHANGED <<buffer, ret>>
    BY <1>0, <1>8, <2>1, <2>3, <2>4 DEF TypeOK, GhostTypes, Handling, CheckThresholds, sensorVars, tableVars, ghostVars
  <2>5. CASE Done
    BY <1>0, <1>8, <1>h, <2>1, <2>3, <2>5 DEF TypeOK, GhostTypes, Handling, CheckThresholds, Done, sensorVars, tableVars, ghostVars
  <2> QED BY <1>8, <2>4, <2>5 DEF CheckThresholds
<1>8t. CASE TagAlert
  <2>1. ret \in Slots /\ dev[ret] \in Sensor /\ buffer # <<>>
    BY <1>8t DEF TypeOK, GhostTypes, Handling, TagAlert
  <2> QED BY <1>0, <1>8t, <1>h, <2>1 DEF TypeOK, GhostTypes, Handling, TagAlert, Done, sensorVars, tableVars, ghostVars
<1>9. CASE EndOfData
  BY <1>9 DEF TypeOK, GhostTypes, Handling, EndOfData, sensorVars, tableVars, valueVars, ghostVars
<1>10. ASSUME NEW n \in Int, FlagsCleared(n)
       PROVE  alarm' \in [Slots -> 0..2] /\ told' \in [Sensor -> 0..2] /\ unsure' \subseteq Sensor
  BY <1>10 DEF FlagsCleared, TypeOK, GhostTypes
<1>11. ASSUME NEW s \in Sensor, EditBySM(s)
       PROVE  TypeOK' /\ GhostTypes'
  <2>1. db' \in Seq(Sensor) /\ Len(db') <= Len(db) /\ edits' \in 0..MaxEdits
    BY <1>11, EditedTable DEF EditBySM
  <2>2. dev' \in [Slots -> Sensor \cup {NoSensor}]
    BY <1>11, <2>1, LoadedSlots DEF EditBySM
  <2>3. number' \in 0..Cardinality(Sensor) /\ Len(db') \in Nat /\ Len(db') <= Cardinality(Sensor)
    BY <1>0, <1>11, <2>1 DEF EditBySM, TypeOK
  <2>4. alarm' \in [Slots -> 0..2] /\ told' \in [Sensor -> 0..2] /\ unsure' \subseteq Sensor
    BY <1>10, <1>11, <2>3 DEF EditBySM
  <2> QED BY <1>11, <2>1, <2>2, <2>3, <2>4
          DEF TypeOK, GhostTypes, Handling, EditBySM, sensorVars, parserVars
<1>12. ASSUME NEW s \in Sensor, EditByNet(s)
       PROVE  TypeOK' /\ GhostTypes'
  <2>1. db' \in Seq(Sensor) /\ Len(db') <= Len(db) /\ edits' \in 0..MaxEdits
    BY <1>12, EditedTable DEF EditByNet
  <2>2. Len(db') <= Cardinality(Sensor)
    BY <1>0, <2>1 DEF TypeOK
  <2> QED BY <1>12, <2>1, <2>2
          DEF TypeOK, GhostTypes, Handling, EditByNet, sensorVars, parserVars, tableVars, valueVars, ghostVars
<1>13. CASE ClearTable
  BY <1>0, <1>13 DEF TypeOK, GhostTypes, Handling, ClearTable, sensorVars, parserVars, valueVars, ghostVars
<1>14. CASE LoadDeviceDb
  <2>1. dev' \in [Slots -> Sensor \cup {NoSensor}] /\ \A i \in Slots : dev[i] \in Sensor => dev'[i] \in Sensor
    BY <1>14, LoadedSlots DEF LoadDeviceDb, TypeOK
  <2> QED BY <1>14, <2>1
          DEF TypeOK, GhostTypes, Handling, LoadDeviceDb, sensorVars, parserVars, valueVars
<1>15. CASE FinishTable
  BY <1>0, <1>15 DEF TypeOK, GhostTypes, Handling, FinishTable, sensorVars, parserVars, valueVars, ghostVars
<1>16. CASE ClearFlags
  <2>1. alarm' \in [Slots -> 0..2] /\ told' \in [Sensor -> 0..2] /\ unsure' \subseteq Sensor
    BY <1>0, <1>10, <1>16 DEF ClearFlags, TypeOK
  <2> QED BY <1>16, <2>1 DEF TypeOK, GhostTypes, Handling, ClearFlags, sensorVars, parserVars, ghostVars
<1>17. CASE Crash
  <2>1. dev' \in [Slots -> Sensor \cup {NoSensor}]
    BY <1>17 DEF Crash, TypeOK, Slots
  <2>2. number' \in 0..Cardinality(Sensor) /\ crashes' \in 0..MaxCrashes /\ sample' \in 1..(Samples + 1)
    BY <1>0, <1>17, LinkAssumption DEF Crash, TypeOK
  <2> QED BY <1>17, <2>1, <2>2 DEF TypeOK, GhostTypes, Handling, Crash, sensorVars
<1>18. CASE UNCHANGED vars
  BY <1>18 DEF TypeOK, GhostTypes, Handling, vars, sensorVars, parserVars, tableVars, valueVars, ghostVars
<1> QED
  BY <1>1, <1>2, <1>3, <1>4, <1>5, <1>6, <1>7, <1>7e, <1>8, <1>8t, <1>9, <1>11, <1>12, <1>13,
     <1>14, <1>15, <1>16, <1>17, <1>18
     DEF Next, Sensors, Parser, ParserData, CheckSensorThresholds, Commands, InitDevices

(* The frames are of the packets they should be of, one for each sensor. *)
LEMMA FramesKept ==
    ASSUME TypeInv, OneFrame, [Next]_vars
    PROVE  FramesOk' /\ OneFrame'
<1>0. /\ serial \in Seq(Frame) /\ buffer \in Seq(Frame) /\ next \in [Sensor -> Stamp]
      /\ \A i \in 1..Len(serial) : serial[i].sensor \in Sensor /\ serial[i].stamp \in Nat
      /\ \A i \in 1..Len(buffer) : buffer[i].sensor \in Sensor /\ buffer[i].stamp \in Nat
  <2>1. \A f \in Frame : f.sensor \in Sensor /\ f.stamp \in Nat
    BY DEF Frame, Stamp
  <2>2. serial \in Seq(Frame) /\ buffer \in Seq(Frame) /\ next \in [Sensor -> Stamp]
    BY DEF TypeInv, TypeOK
  <2> QED BY <2>1, <2>2
<1>1. CASE UNCHANGED <<next, sent, serial, buffer>>
  BY <1>1 DEF TypeInv, FramesOk, FrameOk, OneFrame
<1>2. CASE UNCHANGED <<next, sent, serial>> /\ buffer # <<>> /\ buffer' = Tail(buffer)
  <2>1. /\ Len(buffer') = Len(buffer) - 1 /\ Len(buffer) \in Nat /\ Len(serial) \in Nat
        /\ \A i \in 1..Len(buffer') : i + 1 \in 1..Len(buffer) /\ buffer'[i] = buffer[i + 1]
    BY <1>0, <1>2, HeadFrame
  <2>2. FramesOk'
    BY <1>2, <2>1 DEF TypeInv, FramesOk, FrameOk
  <2>3. \A i, j \in 1..Len(buffer') : buffer'[i].sensor = buffer'[j].sensor => i = j
    BY <2>1 DEF OneFrame
  <2>4. \A i \in 1..Len(serial), j \in 1..Len(buffer') : serial[i].sensor # buffer'[j].sensor
    BY <2>1 DEF OneFrame
  <2> QED BY <1>2, <2>2, <2>3, <2>4 DEF OneFrame
<1>3. ASSUME NEW s \in Sensor, Send(s)
      PROVE  FramesOk' /\ OneFrame'
  <2> DEFINE f == [sensor |-> s, stamp |-> next[s]]
  <2>1. f \in Frame /\ f.sensor = s /\ f.stamp = next[s]
    BY <1>0 DEF Frame
  <2>2. /\ Len(serial') = Len(serial) + 1 /\ Len(serial) \in Nat /\ Len(buffer) \in Nat
        /\ \A i \in 1..Len(serial) : serial'[i] = serial[i]
        /\ serial'[Len(serial) + 1] = f
    BY <1>0, <1>3, <2>1 DEF Send
  <2>3. /\ \A i \in 1..Len(serial) : serial[i].sensor # s
        /\ \A i \in 1..Len(buffer) : buffer[i].sensor # s
    BY <1>0, <1>3 DEF Send
  <2>4. UNCHANGED <<next, buffer>> /\ sent' = sent \cup {s} /\ next[s] <= Packets(s)
    BY <1>3 DEF Send, parserVars
  <2>5. \A i \in 1..Len(serial') : FrameOk(serial[i])'
    <3> SUFFICES ASSUME NEW i \in 1..Len(serial')
                 PROVE  FrameOk(serial[i])'
      OBVIOUS
    <3>1. CASE i \in 1..Len(serial)
      BY <2>2, <2>3, <2>4, <3>1 DEF TypeInv, FramesOk, FrameOk
    <3>2. CASE i = Len(serial) + 1
      BY <2>1, <2>2, <2>4, <3>2 DEF FrameOk
    <3> QED BY <2>2, <3>1, <3>2
  <2>6. \A i \in 1..Len(buffer) : FrameOk(buffer[i])'
    BY <2>3, <2>4 DEF TypeInv, FramesOk, FrameOk
  <2>7. \A i, j \in 1..Len(serial') : serial'[i].sensor = serial'[j].sensor => i = j
    BY <2>1, <2>2, <2>3 DEF OneFrame
  <2>8. \A i \in 1..Len(serial'), j \in 1..Len(buffer) : serial'[i].sensor # buffer[j].sensor
    BY <2>1, <2>2, <2>3 DEF OneFrame
  <2> QED BY <2>4, <2>5, <2>6, <2>7, <2>8 DEF FramesOk, OneFrame
<1>4. ASSUME NEW s \in Sensor, HearAck(s)
      PROVE  FramesOk' /\ OneFrame'
  <2>1. UNCHANGED <<serial, buffer>> /\ sent' = sent \ {s}
        /\ \A t \in Sensor : next'[t] = IF t = s /\ s \in sent THEN next[t] + 1 ELSE next[t]
    BY <1>0, <1>4 DEF HearAck, parserVars
  <2>2. \A f : FrameOk(f) => FrameOk(f)'
    BY <1>0, <2>1 DEF FrameOk, Frame, Stamp
  <2> QED BY <2>1, <2>2 DEF TypeInv, FramesOk, OneFrame
<1>5. CASE LoadDataRf
  BY <1>5 DEF LoadDataRf, sensorVars, TypeInv, FramesOk, FrameOk, OneFrame
<1>6. CASE Crash
  BY <1>6 DEF Crash, sensorVars, FramesOk, OneFrame
<1>7. CASE AckUnknown
  <2>1. buffer # <<>>
    BY <1>7 DEF AckUnknown, TypeInv, TypeOK
  <2> QED BY <1>2, <1>7, <2>1 DEF AckUnknown
<1>8. CASE CheckSensorThresholds
  <2>1. buffer # <<>>
    BY <1>8 DEF CheckSensorThresholds, CheckThresholds, TagAlert, TypeInv, TypeOK
  <2> QED BY <1>1, <1>2, <1>8, <2>1 DEF CheckSensorThresholds, CheckThresholds, TagAlert, Done, sensorVars
<1>9. CASE FindDevice \/ SendAckSensor \/ ParserData \/ EndOfData
  BY <1>1, <1>9 DEF FindDevice, SendAckSensor, ParserData, SaveSample, EndSamples, EndOfData, sensorVars
<1>10. CASE Commands \/ InitDevices
  BY <1>1, <1>10 DEF Commands, InitDevices, EditBySM, EditByNet, ClearTable, LoadDeviceDb,
                     FinishTable, ClearFlags, sensorVars, parserVars
<1>11. CASE UNCHANGED vars
  BY <1>1, <1>11 DEF vars, sensorVars, parserVars
<1> QED
  BY <1>3, <1>4, <1>5, <1>6, <1>7, <1>8, <1>9, <1>10, <1>11 DEF Next, Sensors, Parser

(* The table keeps different sensors in the slots that are looked at. *)
LEMMA TableKept ==
    ASSUME TypeInv, TableOk, [Next]_vars
    PROVE  TableOk'
<1>0. /\ Len(db) \in Nat /\ number \in Nat /\ Reach \in Nat /\ Cardinality(Sensor) \in Nat
      /\ number <= Reach /\ Len(db) <= Reach /\ Reach <= Cardinality(Sensor)
      /\ \A i \in 1..Len(db) : db[i] \in Sensor
  BY SlotsAreFinite DEF TypeInv, TypeOK, Reach
<1>1. CASE UNCHANGED <<db, dev, number>> /\ (rpc' = "load" => rpc = "load")
  BY <1>1 DEF TableOk, Reach, Unique
<1>2. ASSUME NEW s \in Sensor, EditBySM(s)
      PROVE  TableOk'
  <2>1. db' \in Seq(Sensor) /\ Len(db') <= Len(db) /\ Unique(db') /\ Len(db') \in Nat
    BY <1>2, EditedTable DEF EditBySM, TypeInv, TableOk
  <2>2. number' = Len(db') /\ Reach' = Len(db')
    BY <1>2, <2>1 DEF EditBySM, Reach
  <2>3. \A i \in 1..Len(db') : dev'[i] = db'[i] /\ db'[i] \in Sensor
    BY <1>0, <1>2, <2>1, LoadedSlots DEF EditBySM, TypeInv, Slots
  <2> QED BY <2>1, <2>2, <2>3 DEF TableOk, Unique
<1>3. ASSUME NEW s \in Sensor, EditByNet(s)
      PROVE  TableOk'
  <2>1. db' \in Seq(Sensor) /\ Len(db') <= Len(db) /\ Unique(db') /\ Len(db') \in Nat
    BY <1>3, EditedTable DEF EditByNet, TypeInv, TableOk
  <2>2. UNCHANGED <<dev, number>> /\ rpc' = "clear"
    BY <1>3 DEF EditByNet, tableVars
  <2>3. Reach' \in Nat /\ Reach' <= Reach
    BY <1>0, <2>1, <2>2 DEF Reach
  <2> QED BY <1>0, <2>1, <2>2, <2>3 DEF TableOk
<1>4. CASE ClearTable
  <2>1. Reach' = Len(db)
    BY <1>0, <1>4 DEF ClearTable, Reach
  <2> QED BY <1>0, <1>4, <2>1 DEF ClearTable, TableOk, Unique
<1>5. CASE LoadDeviceDb
  <2>1. Reach = Len(db) /\ Reach' = Len(db) /\ UNCHANGED <<db, number>> /\ rpc' = "count"
    BY <1>0, <1>5 DEF LoadDeviceDb, Reach, TableOk
  <2>2. \A i \in Slots : Loaded(db)[i] = IF i <= Len(db) THEN db[i] ELSE dev[i]
    BY LoadedSlots DEF TypeInv, TypeOK
  <2>3. \A i \in 1..Len(db) : dev'[i] = db[i]
    BY <1>0, <1>5, <2>2 DEF LoadDeviceDb, Slots
  <2> QED BY <1>0, <2>1, <2>3 DEF TableOk, Unique
<1>6. CASE FinishTable
  <2>1. Reach' = Len(db) /\ UNCHANGED <<db, dev>> /\ rpc' = "clean"
    BY <1>0, <1>6 DEF FinishTable, Reach
  <2> QED BY <1>0, <2>1 DEF TableOk, Unique
<1>7. CASE Crash
  <2>1. Reach' = Len(db) /\ UNCHANGED db /\ rpc' = "idle"
    BY <1>0, <1>7 DEF Crash, Reach
  <2>2. \A i \in 1..Len(db) : dev'[i] = db[i]
    BY <1>0, <1>7 DEF Crash, Slots
  <2> QED BY <1>0, <2>1, <2>2 DEF TableOk, Unique
<1>8. CASE Sensors \/ ClearFlags \/ UNCHANGED vars
  BY <1>1, <1>8 DEF Sensors, Send, HearAck, ClearFlags, vars, tableVars
<1>9. CASE Parser
  BY <1>1, <1>9 DEF Parser, LoadDataRf, FindDevice, SendAckSensor, AckUnknown, ParserData, SaveSample,
                    EndSamples, CheckSensorThresholds, CheckThresholds, TagAlert, EndOfData, tableVars
<1> QED
  BY <1>2, <1>3, <1>4, <1>5, <1>6, <1>7, <1>8, <1>9 DEF Next, Commands, InitDevices

(* What FindDevicesFromAdd found stays the sensor's only slot. *)
LEMMA FoundKept ==
    ASSUME LinkInv, [Next]_vars
    PROVE  FoundRight'
<1> USE DEF LinkInv
<1>0. /\ Len(db) \in Nat /\ number \in Nat /\ Reach \in Nat /\ Cardinality(Sensor) \in Nat
      /\ number <= Reach /\ Len(db) <= Reach /\ Reach <= Cardinality(Sensor) /\ db \in Seq(Sensor)
      /\ \A i \in 1..Len(db) : db[i] \in Sensor
  BY SlotsAreFinite DEF TypeInv, TypeOK, Reach
<1>1. CASE /\ Handling' => Handling
           /\ UNCHANGED <<buffer, ret, dev, db>> /\ number' \in {number, 0, Len(db)}
           /\ excused \subseteq excused'
  <2>1. Reach' \in Nat /\ Reach' <= Reach
    BY <1>0, <1>1 DEF Reach
  <2> QED BY <1>0, <1>1, <2>1 DEF FoundRight, Packet, frame, Handling
<1>2. CASE pc' \notin {"found", "acked", "saved", "alert"}
  BY <1>2 DEF FoundRight, Handling
<1>3. CASE FindDevice
  <2>1. UNCHANGED <<dev, db, number, buffer>> /\ buffer # <<>>
    BY <1>3 DEF FindDevice, tableVars
  <2>2. CASE ret' \in Matches(frame.sensor)
    BY <1>0, <2>1, <2>2 DEF Matches, FoundRight, TableOk, Reach, frame
  <2> QED BY <1>2, <1>3, <2>2 DEF FindDevice
<1>4. ASSUME NEW s \in Sensor, EditByNet(s)
      PROVE  FoundRight'
  <2>1. db' \in Seq(Sensor) /\ Len(db') <= Len(db) /\ Len(db') \in Nat
    BY <1>4, EditedTable DEF EditByNet, TypeInv, TableOk
  <2>2. UNCHANGED <<dev, number, buffer, ret, pc, excused>>
    BY <1>4 DEF EditByNet, tableVars, parserVars, ghostVars
  <2>3. Reach' \in Nat /\ Reach' <= Reach
    BY <1>0, <2>1, <2>2 DEF Reach
  <2> QED BY <1>0, <2>2, <2>3 DEF FoundRight, Packet, frame, Handling
<1>5. ASSUME NEW s \in Sensor, EditBySM(s)
      PROVE  FoundRight'
  BY <1>2, <1>5 DEF EditBySM, parserVars
<1>6. CASE LoadDeviceDb
  <2>1. /\ UNCHANGED <<buffer, ret, pc, db, number>> /\ Reach' = Len(db) /\ Len(db) <= Reach
        /\ excused' = excused \cup Moved(db) /\ dev' = Loaded(db)
    BY <1>0, <1>6 DEF LoadDeviceDb, Reach, TableOk, parserVars
  <2> SUFFICES ASSUME Handling, dev'[ret] = frame.sensor, Packet(frame) \notin excused',
                      NEW j \in 1..Len(db), dev'[j] = frame.sensor
               PROVE  j = ret
    BY <2>1 DEF FoundRight, Handling, Packet, frame
  <2>2. ret # 0 /\ ret \in Slots /\ j \in Slots /\ frame.sensor \in Sensor
    BY <1>0, HeadFrame DEF TypeInv, TypeOK, Handling, Slots
  <2>3. dev[ret] = frame.sensor /\ dev[j] = frame.sensor
    BY <1>0, <2>1, <2>2, MovedExcused
  <2> QED BY <1>0, <2>1, <2>3 DEF FoundRight
<1>7. CASE Sensors \/ UNCHANGED vars
  BY <1>1, <1>7 DEF Sensors, Send, HearAck, vars, parserVars, tableVars, ghostVars, Handling
<1>8. CASE SendAckSensor \/ ParserData
  BY <1>1, <1>8 DEF SendAckSensor, ParserData, SaveSample, EndSamples, tableVars, Handling
<1>8c. CASE CheckSensorThresholds
  BY <1>1, <1>2, <1>8c DEF CheckSensorThresholds, CheckThresholds, TagAlert, Done, tableVars, ghostVars, Handling
<1>9. CASE LoadDataRf \/ AckUnknown \/ EndOfData \/ Crash
  BY <1>2, <1>9 DEF LoadDataRf, AckUnknown, EndOfData, Crash
<1>10. CASE ClearTable \/ FinishTable \/ ClearFlags
  BY <1>1, <1>10 DEF ClearTable, FinishTable, ClearFlags, parserVars, ghostVars, Handling
<1> QED
  BY <1>3, <1>4, <1>5, <1>6, <1>7, <1>8, <1>8c, <1>9, <1>10 DEF Next, Parser, Commands, InitDevices

(* Only LoadDeviceDb changes the slot under Parser. *)
LEMMA DisplacementsKept ==
    ASSUME LinkInv, [Next]_vars
    PROVE  Displacements'
<1> USE DEF LinkInv
<1>0. Handling => dev[ret] \in Sensor /\ ret # 0 /\ ret \in Slots
  BY DEF TypeInv, TypeOK, GhostTypes, Handling
<1>1. CASE /\ Handling' => Handling /\ UNCHANGED <<buffer, ret, dev>>
           /\ UNCHANGED displaced /\ excused \subseteq excused'
  BY <1>1 DEF Displacements, Packet, frame, Handling
<1>2. CASE FindDevice
  BY <1>0, <1>2 DEF FindDevice, Matches, Displacements, Handling, tableVars, ghostVars, frame, Packet
<1>3. CASE LoadDeviceDb
  <2>1. /\ UNCHANGED <<buffer, ret, pc>> /\ dev' = Loaded(db) /\ excused' = excused \cup Moved(db)
        /\ displaced' = displaced \cup Displaced(db)
    BY <1>3 DEF LoadDeviceDb, parserVars
  <2>2. Displaced(db) \subseteq Moved(db)
    BY DEF Moved
  <2>3. displaced' \subseteq excused'
    BY <2>1, <2>2 DEF Displacements
  <2>4. ASSUME Handling, dev'[ret] # frame.sensor
        PROVE  Packet(frame) \in displaced'
    <3>1. CASE dev'[ret] = dev[ret]
      BY <2>1, <2>4, <3>1 DEF Displacements
    <3>2. CASE dev'[ret] # dev[ret]
      BY <1>0, <2>1, <2>4, <3>2 DEF Displaced
    <3> QED BY <3>1, <3>2
  <2> QED BY <2>1, <2>3, <2>4 DEF Displacements, Handling, Packet, frame
<1>4. ASSUME NEW s \in Sensor, EditBySM(s)
      PROVE  Displacements'
  BY <1>1, <1>4 DEF EditBySM, Handling, parserVars
<1>5. CASE Sensors \/ UNCHANGED vars \/ \E s \in Sensor : EditByNet(s)
  BY <1>1, <1>5 DEF Sensors, Send, HearAck, EditByNet, vars, parserVars, tableVars, ghostVars, Handling
<1>6. CASE LoadDataRf \/ EndOfData \/ Crash
  BY <1>1, <1>6 DEF LoadDataRf, EndOfData, Crash, ghostVars, Handling
<1>6u. CASE AckUnknown
  BY <1>1, <1>6u DEF AckUnknown, Handling
<1>7. CASE SendAckSensor
  BY <1>1, <1>7 DEF SendAckSensor, tableVars, Handling
<1>8. CASE ParserData
  BY <1>1, <1>8 DEF ParserData, SaveSample, EndSamples, tableVars, Handling
<1>9. CASE CheckSensorThresholds
  BY <1>1, <1>9 DEF CheckSensorThresholds, CheckThresholds, TagAlert, Done, tableVars, ghostVars, Handling
<1>10. CASE ClearTable \/ FinishTable \/ ClearFlags
  BY <1>1, <1>10 DEF ClearTable, FinishTable, ClearFlags, parserVars, tableVars, ghostVars, Handling
<1> QED
  BY <1>2, <1>3, <1>4, <1>5, <1>6, <1>6u, <1>7, <1>8, <1>9, <1>10 DEF Next, Parser, Commands, InitDevices

LEMMA LinkKept ==
    ASSUME LinkInv, [Next]_vars
    PROVE  LinkInv'
BY TypesKept, FramesKept, TableKept, FoundKept, DisplacementsKept DEF LinkInv, TypeInv

-----------------------------------------------------------------------------
(* Parser handles one frame at a time, and is the only one to save. *)
LEMMA Quiet ==
    ASSUME [Next]_vars
    PROVE  /\ excused \subseteq excused' /\ saved \subseteq saved'
           /\ ~ParserData /\ ~Crash => UNCHANGED <<last, lastBy, saved, repeated, sample>>
           /\ ~Parser /\ ~Crash => UNCHANGED <<pc, ret, buffer>>
           /\ ~Sensors => UNCHANGED <<next, sent>>
           /\ ~Sensors /\ ~SendAckSensor /\ ~AckUnknown => UNCHANGED acks
           /\ ~Sensors /\ ~LoadDataRf /\ ~Crash => UNCHANGED serial
<1> USE DEF sensorVars, parserVars, tableVars, valueVars, ghostVars
<1>1. CASE Sensors
  BY <1>1 DEF Sensors, Send, HearAck
<1>2. CASE LoadDataRf \/ FindDevice \/ EndOfData
  BY <1>2 DEF Parser, LoadDataRf, FindDevice, EndOfData
<1>3. CASE SendAckSensor \/ AckUnknown
  BY <1>3 DEF Parser, SendAckSensor, AckUnknown
<1>4. CASE ParserData
  BY <1>4 DEF Parser, ParserData, SaveSample, EndSamples
<1>5. CASE CheckSensorThresholds
  BY <1>5 DEF Parser, CheckSensorThresholds, CheckThresholds, TagAlert
<1>6. CASE Commands
  BY <1>6 DEF Commands, EditBySM, EditByNet
<1>7. CASE InitDevices
  BY <1>7 DEF InitDevices, ClearTable, LoadDeviceDb, FinishTable, ClearFlags
<1>8. CASE Crash
  BY <1>8 DEF Crash
<1>9. CASE UNCHANGED vars
  BY <1>9 DEF vars
<1> QED BY <1>1, <1>2, <1>3, <1>4, <1>5, <1>6, <1>7, <1>8, <1>9 DEF Next, Parser

(* The packet a sensor waits for is the one its frame is of, and a frame of  *)
(* another packet is overtaken.                                              *)
LEMMA FrameIsPending ==
    ASSUME NEW f, FrameOk(f)
    PROVE  /\ f.sensor \in Sensor
           /\ Overtaken(f) \/ Packet(f) = Pending(f.sensor)
BY DEF FrameOk, Overtaken, Packet, Pending, Frame

(* Frames that an acknowledgement has overtaken. *)
LEMMA OvertakingsKept ==
    ASSUME LinkInv, Overtakings, [Next]_vars
    PROVE  Overtakings'
<1> USE DEF LinkInv
<1>0. excused \subseteq excused' /\ Len(serial) \in Nat /\ Len(buffer) \in Nat
  BY Quiet DEF TypeInv, TypeOK
<1>1. CASE /\ UNCHANGED <<serial, buffer, acks, sent>>
           /\ pc \in {"acked", "saved", "alert"} => pc' \in {"acked", "saved", "alert"}
  BY <1>0, <1>1 DEF Overtakings, Overtaken, Packet
<1>2. ASSUME NEW s \in Sensor, Send(s)
      PROVE  Overtakings'
  <2> DEFINE f == [sensor |-> s, stamp |-> next[s]]
  <2>1. /\ Len(serial') = Len(serial) + 1 /\ Len(serial) \in Nat
        /\ \A i \in 1..Len(serial) : serial'[i] = serial[i]
        /\ serial'[Len(serial) + 1] = f /\ f.sensor = s
    BY <1>2 DEF Send, TypeInv, TypeOK
  <2>2. /\ \A i \in 1..Len(serial) : serial[i].sensor # s
        /\ \A i \in 1..Len(buffer) : buffer[i].sensor # s
    BY <1>2 DEF Send, TypeInv, TypeOK
  <2>3. UNCHANGED <<buffer, acks, pc>> /\ sent' = sent \cup {s} /\ s \notin acks
    BY <1>2 DEF Send, parserVars
  <2> HIDE DEF f
  <2>4. ASSUME NEW i \in 1..Len(serial'), Overtaken(serial[i])'
        PROVE  (Packet(serial[i]) \in excused)'
    <3>1. i # Len(serial) + 1
      BY <2>1, <2>3, <2>4 DEF Overtaken
    <3>2. i \in 1..Len(serial)
      BY <2>1, <3>1
    <3> QED BY <1>0, <2>1, <2>2, <2>3, <2>4, <3>2 DEF Overtakings, Overtaken, Packet
  <2>5. ASSUME NEW i \in 1..Len(buffer), Overtaken(buffer[i])', ~(i = 1 /\ pc \in {"acked", "saved", "alert"})
        PROVE  (Packet(buffer[i]) \in excused)'
    BY <1>0, <2>2, <2>3, <2>5 DEF Overtakings, Overtaken, Packet
  <2> QED BY <2>3, <2>4, <2>5 DEF Overtakings
<1>3. ASSUME NEW s \in Sensor, HearAck(s)
      PROVE  Overtakings'
  <2>1. UNCHANGED <<serial, buffer, pc>> /\ \A f : Overtaken(f)' => Overtaken(f)
    BY <1>3 DEF HearAck, parserVars, Overtaken
  <2> QED BY <1>0, <2>1 DEF Overtakings, Packet
<1>4. CASE LoadDataRf
  BY <1>0, <1>4 DEF LoadDataRf, sensorVars, Overtakings, Overtaken, Packet
<1>5. CASE SendAckSensor
  <2> DEFINE t == dev[ret]
  <2>1. /\ pc = "found" /\ pc' = "acked" /\ buffer # <<>> /\ t \in Sensor
        /\ UNCHANGED <<serial, buffer, sent>> /\ acks' \subseteq acks \cup {t}
        /\ t # frame.sensor => Pending(t) \in excused'
    BY <1>5 DEF SendAckSensor, TypeInv, TypeOK, GhostTypes, Handling, Packet, Pending
  <2>2. ASSUME NEW f, FrameOk(f), Overtaken(f)', Overtaken(f) => Packet(f) \in excused, f.sensor # frame.sensor
        PROVE  Packet(f) \in excused'
    BY <1>0, <2>1, <2>2, FrameIsPending DEF Overtaken
  <2>3. /\ \A i \in 1..Len(serial) : FrameOk(serial[i]) /\ serial[i].sensor # frame.sensor
        /\ \A i \in 1..Len(buffer) : FrameOk(buffer[i]) /\ (i # 1 => buffer[i].sensor # frame.sensor)
    BY <2>1, HeadFrame DEF TypeInv, FramesOk, OneFrame
  <2>4. \A i \in 1..Len(serial) : Overtaken(serial[i])' => Packet(serial[i]) \in excused'
    BY <2>1, <2>2, <2>3 DEF Overtakings, Overtaken
  <2>5. \A i \in 1..Len(buffer) : Overtaken(buffer[i])' /\ i # 1 => Packet(buffer[i]) \in excused'
    BY <2>1, <2>2, <2>3 DEF Overtakings, Overtaken
  <2> QED BY <2>1, <2>4, <2>5 DEF Overtakings, Overtaken, Packet
<1>6. CASE AckUnknown
  <2>1. /\ pc = "unknown" /\ pc' = "next" /\ buffer # <<>> /\ UNCHANGED <<serial, sent>>
        /\ buffer' = Tail(buffer) /\ acks' \subseteq acks \cup {frame.sensor}
    BY <1>6 DEF AckUnknown, TypeInv, TypeOK
  <2>2. /\ \A i \in 1..Len(serial) : serial[i].sensor # frame.sensor
        /\ \A i \in 1..Len(buffer') :
             /\ buffer'[i] = buffer[i + 1] /\ i + 1 \in 1..Len(buffer) /\ i + 1 # 1
             /\ buffer[i + 1].sensor # frame.sensor
    BY <2>1, HeadFrame DEF OneFrame
  <2>3. \A i \in 1..Len(serial) : Overtaken(serial[i])' => Packet(serial[i]) \in excused'
    BY <1>0, <2>1, <2>2 DEF Overtakings, Overtaken
  <2>4. \A i \in 1..Len(buffer') : Overtaken(buffer[i])' => (Packet(buffer[i]) \in excused)'
    BY <1>0, <2>1, <2>2 DEF Overtakings, Overtaken, Packet
  <2> QED BY <2>1, <2>3, <2>4 DEF Overtakings, Overtaken, Packet
<1>7. CASE CheckSensorThresholds /\ Done
  <2>1. /\ pc' = "next" /\ buffer # <<>> /\ UNCHANGED <<serial, sent, acks>>
        /\ buffer' = Tail(buffer)
    BY <1>7 DEF CheckSensorThresholds, CheckThresholds, TagAlert, Done, TypeInv, TypeOK, sensorVars
  <2>2. \A i \in 1..Len(buffer') : buffer'[i] = buffer[i + 1] /\ i + 1 \in 1..Len(buffer) /\ i + 1 # 1
    BY <2>1, HeadFrame
  <2> QED BY <1>0, <2>1, <2>2 DEF Overtakings, Overtaken, Packet
<1>7f. CASE CheckSensorThresholds /\ ~Done
  BY <1>1, <1>7f DEF CheckSensorThresholds, CheckThresholds, TagAlert, sensorVars
<1>8. CASE FindDevice \/ ParserData \/ EndOfData
  BY <1>1, <1>8, Quiet DEF FindDevice, ParserData, SaveSample, EndSamples, EndOfData, sensorVars
<1>9. CASE Commands \/ InitDevices
  BY <1>1, <1>9 DEF Commands, InitDevices, EditBySM, EditByNet, ClearTable, LoadDeviceDb,
                    FinishTable, ClearFlags, sensorVars, parserVars
<1>10. CASE Crash
  BY <1>10 DEF Crash, Overtakings
<1>11. CASE UNCHANGED vars
  BY <1>1, <1>11 DEF vars, sensorVars, parserVars
<1> QED
  BY <1>2, <1>3, <1>4, <1>5, <1>6, <1>7, <1>7f, <1>8, <1>9, <1>10, <1>11 DEF Next, Sensors, Parser

(* What ParserData leaves in the log and in the slot. *)
LEMMA SavedOrExcused ==
    ASSUME LinkInv, AckInv, EndSamples
    PROVE  /\ ret \in Slots /\ dev[ret] \in Sensor /\ buffer # <<>> /\ pc' = "saved"
           /\ UNCHANGED <<buffer, ret, dev, db, number, next, sent, acks, rpc, saved, repeated, value>>
           /\ Whole(frame.sensor, frame.stamp) \/ Packet(frame) \in excused'
           /\ last'[ret] = frame.stamp /\ lastBy'[ret] = frame.sensor
           /\ \A i \in Slots \ {ret} : last'[i] = last[i] /\ lastBy'[i] = lastBy[i]
<1>1. /\ ret \in Slots /\ dev[ret] \in Sensor /\ buffer # <<>> /\ pc = "acked" /\ pc' = "saved"
      /\ UNCHANGED <<buffer, ret, dev, db, number, next, sent, acks, rpc, saved, repeated, value>>
      /\ excused \subseteq excused' /\ sample > Samples
  BY DEF EndSamples, LinkInv, TypeInv, TypeOK, GhostTypes, Handling, sensorVars, tableVars, valueVars
<1>2. frame.sensor \in Sensor /\ frame.stamp # 0
  BY <1>1, HeadFrame DEF LinkInv
<1>6. Whole(frame.sensor, frame.stamp) \/ Packet(frame) \in excused'
  <2>1. CASE last[ret] # frame.stamp
    <3>1. \A i \in 1..Samples : i \in 1..(sample - 1)
      BY <1>1, LinkAssumption DEF LinkInv, TypeInv, TypeOK
    <3> QED BY <1>1, <2>1, <3>1 DEF AckInv, Progress, Whole
  <2>2. CASE last[ret] = frame.stamp /\ lastBy[ret] # frame.sensor
    BY <2>2 DEF EndSamples
  <2>3. CASE last[ret] = frame.stamp /\ lastBy[ret] = frame.sensor
    BY <1>1, <1>2, <2>3 DEF AckInv, Remembered, Packet
  <2> QED BY <2>1, <2>2, <2>3
<1>7. /\ last'[ret] = frame.stamp /\ lastBy'[ret] = frame.sensor
      /\ \A i \in Slots \ {ret} : last'[i] = last[i] /\ lastBy'[i] = lastBy[i]
  BY <1>1 DEF EndSamples, LinkInv, TypeInv, TypeOK, GhostTypes
<1> QED BY <1>1, <1>6, <1>7

(* What SaveSample adds to the log. *)
LEMMA SampleSaved ==
    ASSUME LinkInv, SaveSample
    PROVE  /\ ret \in Slots /\ dev[ret] \in Sensor /\ buffer # <<>> /\ pc = "acked" /\ pc' = "acked"
           /\ UNCHANGED <<buffer, ret, dev, db, number, next, sent, acks, rpc, last, lastBy, excused>>
           /\ sample \in 1..Samples /\ sample' = sample + 1
           /\ IF last[ret] = frame.stamp
              THEN UNCHANGED <<saved, value, repeated>>
              ELSE /\ saved' = saved \cup {<<dev[ret], frame.sensor, frame.stamp, sample>>}
                   /\ value'[ret] = Value(frame)
                   /\ \A i \in Slots \ {ret} : value'[i] = value[i]
BY DEF SaveSample, LinkInv, TypeInv, TypeOK, GhostTypes, Handling, sensorVars, tableVars

(* Parser goes through the samples of a packet. *)
LEMMA ProgressKept ==
    ASSUME LinkInv, AckInv, [Next]_vars
    PROVE  Progress'
<1>0. excused \subseteq excused' /\ saved \subseteq saved'
  BY Quiet
<1>1. CASE pc' # "acked"
  BY <1>1 DEF Progress
<1>2. CASE UNCHANGED <<pc, last, ret, buffer, sample, value>>
  BY <1>0, <1>2 DEF AckInv, Progress, frame, Packet, Value
<1>3. CASE SendAckSensor
  <2>1. pc = "found" /\ UNCHANGED <<sample, buffer>>
    BY <1>3 DEF SendAckSensor
  <2>2. sample = 1
    BY <2>1 DEF LinkInv, TypeInv, TypeOK
  <2> QED BY <2>1, <2>2 DEF Progress
<1>4. CASE SaveSample
  <2>1. /\ UNCHANGED <<buffer, ret, last, excused>> /\ pc = "acked" /\ sample \in 1..Samples
        /\ sample' = sample + 1
    BY <1>4, SampleSaved
  <2>2. frame' = frame
    BY <2>1 DEF frame
  <2>3. Packet(frame)' = Packet(frame) /\ Value(frame)' = Value(frame)
    BY <2>2 DEF Packet, Value
  <2>4. CASE last[ret] = frame.stamp
    BY <2>1, <2>2, <2>4 DEF Progress
  <2>5. CASE last[ret] # frame.stamp
    <3>1. /\ saved' = saved \cup {<<dev[ret], frame.sensor, frame.stamp, sample>>}
          /\ value'[ret] = Value(frame)
      BY <1>4, <2>5, SampleSaved
    <3>2. (value[ret] = Value(frame))'
      BY <2>1, <2>3, <3>1
    <3>3. ASSUME Packet(frame) \notin excused
          PROVE  \A i \in 1..sample : <<frame.sensor, frame.sensor, frame.stamp, i>> \in saved'
      <4>1. dev[ret] = frame.sensor
        BY <2>1, <3>3 DEF LinkInv, Displacements, Handling
      <4>2. \A i \in 1..(sample - 1) : <<frame.sensor, frame.sensor, frame.stamp, i>> \in saved
        BY <2>1, <2>5, <3>3 DEF AckInv, Progress
      <4>3. \A i \in 1..sample : i \in 1..(sample - 1) \/ i = sample
        BY <2>1
      <4> QED BY <3>1, <4>1, <4>2, <4>3
    <3>4. sample' - 1 = sample
      BY <2>1
    <3>5. \/ (Packet(frame) \in excused)'
          \/ (\A i \in 1..(sample - 1) : <<frame.sensor, frame.sensor, frame.stamp, i>> \in saved)'
      BY <2>1, <2>2, <2>3, <3>3, <3>4
    <3> QED BY <3>2, <3>5 DEF Progress
  <2> QED BY <2>4, <2>5
<1>5. CASE Parser /\ ~SendAckSensor /\ ~SaveSample
  BY <1>1, <1>5 DEF Parser, LoadDataRf, FindDevice, AckUnknown, ParserData, EndSamples,
                    CheckSensorThresholds, CheckThresholds, TagAlert, Done, EndOfData
<1>6. CASE Sensors \/ UNCHANGED vars
  BY <1>2, <1>6 DEF Sensors, Send, HearAck, vars, parserVars, valueVars
<1>7. CASE Commands \/ InitDevices
  BY <1>2, <1>7 DEF Commands, InitDevices, EditBySM, EditByNet, ClearTable, LoadDeviceDb, FinishTable,
                    ClearFlags, parserVars, valueVars
<1>8. CASE Crash
  BY <1>1, <1>8 DEF Crash
<1> QED BY <1>3, <1>4, <1>5, <1>6, <1>7, <1>8 DEF Next

(* The packets that were acknowledged. *)
LEMMA AcceptedKept ==
    ASSUME LinkInv, AckInv, [Next]_vars
    PROVE  Accepted'
<1> USE DEF LinkInv, AckInv
<1>0. excused \subseteq excused' /\ saved \subseteq saved'
  BY Quiet
<1>n. next \in [Sensor -> Nat \ {0}] /\ sent \subseteq Sensor /\ acks \subseteq Sensor
  BY DEF TypeInv, TypeOK, Stamp
<1>1. ASSUME pc = "acked" => \/ pc' = "acked" /\ UNCHANGED buffer
                             \/ Whole(frame.sensor, frame.stamp)
                             \/ Packet(frame) \in excused',
             NEW s, NEW k, Safe(s, k)
      PROVE  Safe(s, k)'
  BY <1>0, <1>1 DEF Safe, Packet, frame, Whole
<1>2. CASE /\ pc = "acked" => \/ pc' = "acked" /\ UNCHANGED buffer
                              \/ Packet(frame) \in excused'
           /\ UNCHANGED <<next, acks>> /\ acks \cap sent' \subseteq acks \cap sent
  BY <1>1, <1>2 DEF Accepted
<1>3. ASSUME NEW s \in Sensor, Send(s)
      PROVE  Accepted'
  BY <1>2, <1>3 DEF Send, parserVars
<1>4. ASSUME NEW s \in Sensor, HearAck(s)
      PROVE  Accepted'
  <2>1. /\ UNCHANGED <<pc, buffer>> /\ s \in acks /\ acks' = acks \ {s} /\ sent' = sent \ {s}
        /\ \A t \in Sensor : next'[t] = IF t = s /\ s \in sent THEN next[t] + 1 ELSE next[t]
    BY <1>4, <1>n DEF HearAck, parserVars
  <2>2. ASSUME NEW t \in Sensor, NEW k \in 1..(next'[t] - 1)
        PROVE  Safe(t, k)
    BY <1>n, <2>1, <2>2 DEF Accepted
  <2>3. ASSUME NEW t \in acks' \cap sent'
        PROVE  Safe(t, next'[t])
    BY <1>n, <2>1, <2>3 DEF Accepted
  <2>4. \A t, k : Safe(t, k) => Safe(t, k)'
    BY <1>1, <2>1
  <2> QED BY <2>2, <2>3, <2>4 DEF Accepted
<1>5. CASE SendAckSensor
  <2>0. PICK t : t = dev[ret]
    OBVIOUS
  <2>1. /\ pc = "found" /\ pc' = "acked" /\ buffer # <<>> /\ t \in Sensor
        /\ UNCHANGED <<next, buffer, sent>> /\ acks' \subseteq acks \cup {t}
        /\ Packet(frame) # Pending(t) => Pending(t) \in excused'
    BY <1>5, <2>0 DEF SendAckSensor, TypeInv, TypeOK, GhostTypes, Handling, Packet, Pending
  <2>2. Safe(t, next[t])'
    BY <2>1 DEF Safe, Packet, Pending, frame
  <2>3. \A u, k : Safe(u, k) => Safe(u, k)'
    BY <1>1, <2>1
  <2> QED BY <2>1, <2>2, <2>3 DEF Accepted
<1>6. CASE AckUnknown
  <2>0. PICK t : t = frame.sensor
    OBVIOUS
  <2>1. /\ pc = "unknown" /\ buffer # <<>> /\ UNCHANGED <<next, sent>>
        /\ acks' \subseteq acks \cup {t} /\ Packet(frame) \in excused'
    BY <1>6, <2>0 DEF AckUnknown, TypeInv, TypeOK
  <2>2. t \in sent => Safe(t, next[t])'
    BY <2>0, <2>1, HeadFrame DEF FrameOk, Safe, Packet
  <2>3. \A u, k : Safe(u, k) => Safe(u, k)'
    BY <1>1, <2>1
  <2> QED BY <2>1, <2>2, <2>3 DEF Accepted
<1>7s. CASE SaveSample
  BY <1>2, <1>7s, SampleSaved
<1>7. CASE EndSamples
  <2>1. /\ UNCHANGED <<next, sent, acks>>
        /\ Whole(frame.sensor, frame.stamp) \/ Packet(frame) \in excused'
    BY <1>7, SavedOrExcused
  <2>2. \A u, k : Safe(u, k) => Safe(u, k)'
    BY <1>1, <2>1
  <2> QED BY <2>1, <2>2 DEF Accepted
<1>8. CASE LoadDataRf \/ FindDevice \/ CheckSensorThresholds \/ EndOfData
  <2>1. pc # "acked" /\ UNCHANGED <<next, sent, acks>>
    BY <1>8 DEF LoadDataRf, FindDevice, CheckSensorThresholds, CheckThresholds, TagAlert, EndOfData, sensorVars
  <2> QED BY <1>2, <2>1
<1>9. CASE Commands \/ InitDevices
  BY <1>2, <1>9 DEF Commands, InitDevices, EditBySM, EditByNet, ClearTable, LoadDeviceDb,
                    FinishTable, ClearFlags, sensorVars, parserVars
<1>10. CASE Crash
  BY <1>2, <1>10 DEF Crash, sensorVars
<1>11. CASE UNCHANGED vars
  BY <1>2, <1>11 DEF vars, sensorVars, parserVars
<1> QED
  BY <1>3, <1>4, <1>5, <1>6, <1>7s, <1>7, <1>8, <1>9, <1>10, <1>11 DEF Next, Sensors, Parser, ParserData

(* What the slots remember is in the log. *)
LEMMA RememberedKept ==
    ASSUME LinkInv, AckInv, [Next]_vars
    PROVE  Remembered'
<1> USE DEF AckInv
<1>0. saved \subseteq saved' /\ excused \subseteq excused'
  BY Quiet
<1>1. CASE UNCHANGED <<last, lastBy>>
  BY <1>0, <1>1 DEF Remembered, Whole
<1>2. CASE EndSamples
  <2>1. /\ ret \in Slots /\ frame.sensor \in Sensor /\ frame.stamp # 0
        /\ Whole(frame.sensor, frame.stamp) \/ Packet(frame) \in excused'
        /\ last'[ret] = frame.stamp /\ lastBy'[ret] = frame.sensor
        /\ \A i \in Slots \ {ret} : last'[i] = last[i] /\ lastBy'[i] = lastBy[i]
    BY <1>2, SavedOrExcused, HeadFrame DEF LinkInv
  <2> SUFFICES ASSUME NEW i \in Slots, last'[i] # 0
               PROVE  /\ lastBy'[i] \in Sensor
                      /\ \/ \A k \in 1..Samples : <<lastBy'[i], lastBy'[i], last'[i], k>> \in saved'
                         \/ <<lastBy'[i], last'[i]>> \in excused'
    BY DEF Remembered, Whole
  <2>3. CASE i = ret
    BY <1>0, <2>1, <2>3 DEF Packet, Whole
  <2>4. CASE i # ret
    BY <1>0, <2>1, <2>4 DEF Remembered, Whole
  <2> QED BY <2>3, <2>4
<1>3. CASE Crash
  BY <1>3 DEF Crash, Remembered
<1>4. CASE SaveSample
  BY <1>1, <1>4, SampleSaved
<1> QED BY <1>1, <1>2, <1>3, <1>4, Quiet DEF ParserData

-----------------------------------------------------------------------------
(* A sensor that is looked up in a slot was looked up there before, or is    *)
(* excused.                                                                  *)
LEMMA SlotsKept ==
    ASSUME LinkInv, [Next]_vars, ~Crash, NEW s \in Sensor, NEW j \in 1..Reach', dev'[j] = s
    PROVE  /\ j \in 1..Reach /\ j \in Slots
           /\ dev[j] = s \/ (Pending(s) \in excused' /\ UNCHANGED next)
<1> USE DEF LinkInv
<1>0. /\ Len(db) \in Nat /\ number \in Nat /\ Reach \in Nat /\ Cardinality(Sensor) \in Nat
      /\ number <= Reach /\ Len(db) <= Reach /\ Reach <= Cardinality(Sensor) /\ db \in Seq(Sensor)
  BY SlotsAreFinite DEF TypeInv, TypeOK, Reach
<1>1. Reach' \in Nat /\ Reach' <= Reach => j \in 1..Reach /\ j \in Slots
  BY <1>0 DEF Slots
<1>2. CASE UNCHANGED <<dev, db>> /\ number' \in {number, 0, Len(db)}
  <2>1. Reach' \in Nat /\ Reach' <= Reach
    BY <1>0, <1>2 DEF Reach
  <2> QED BY <1>1, <1>2, <2>1
<1>3. ASSUME NEW t \in Sensor, EditBySM(t)
      PROVE  /\ j \in 1..Reach /\ j \in Slots
             /\ dev[j] = s \/ (Pending(s) \in excused' /\ UNCHANGED next)
  <2>1. db' \in Seq(Sensor) /\ Len(db') <= Len(db) /\ Len(db') \in Nat
    BY <1>3, EditedTable DEF EditBySM, TypeInv, TableOk
  <2>2. number' = Len(db') /\ dev' = Loaded(db') /\ excused' = excused \cup Moved(db') /\ UNCHANGED next
    BY <1>3 DEF EditBySM, sensorVars
  <2>3. Reach' \in Nat /\ Reach' <= Reach
    BY <1>0, <2>1, <2>2 DEF Reach
  <2> QED BY <1>1, <2>1, <2>2, <2>3, MovedExcused
<1>4. ASSUME NEW t \in Sensor, EditByNet(t)
      PROVE  /\ j \in 1..Reach /\ j \in Slots
             /\ dev[j] = s \/ (Pending(s) \in excused' /\ UNCHANGED next)
  <2>1. db' \in Seq(Sensor) /\ Len(db') <= Len(db) /\ Len(db') \in Nat
    BY <1>4, EditedTable DEF EditByNet, TypeInv, TableOk
  <2>2. UNCHANGED <<dev, number>>
    BY <1>4 DEF EditByNet, tableVars
  <2>3. Reach' \in Nat /\ Reach' <= Reach
    BY <1>0, <2>1, <2>2 DEF Reach
  <2> QED BY <1>1, <2>2, <2>3
<1>5. CASE LoadDeviceDb
  <2>1. /\ UNCHANGED <<db, number, next>> /\ dev' = Loaded(db) /\ excused' = excused \cup Moved(db)
    BY <1>5 DEF LoadDeviceDb, sensorVars
  <2>2. Reach' \in Nat /\ Reach' <= Reach
    BY <1>0, <2>1 DEF Reach
  <2> QED BY <1>0, <1>1, <2>1, <2>2, MovedExcused
<1>6. CASE Sensors \/ UNCHANGED vars
  BY <1>2, <1>6 DEF Sensors, Send, HearAck, vars, tableVars
<1>7. CASE Parser
  BY <1>2, <1>7 DEF Parser, LoadDataRf, FindDevice, SendAckSensor, AckUnknown, ParserData, SaveSample,
                    EndSamples, CheckSensorThresholds, CheckThresholds, TagAlert, EndOfData, tableVars
<1>8. CASE ClearTable \/ FinishTable \/ ClearFlags
  BY <1>2, <1>8 DEF ClearTable, FinishTable, ClearFlags
<1> QED BY <1>3, <1>4, <1>5, <1>6, <1>7, <1>8 DEF Next, Commands, InitDevices

(* How an acknowledgement changes what a sensor waits for. *)
LEMMA NextGrows ==
    ASSUME LinkInv, [Next]_vars
    PROVE  \/ UNCHANGED next /\ sent \subseteq sent'
           \/ \E s \in Sensor :
                /\ HearAck(s) /\ UNCHANGED <<saved, excused, repeated, last, dev, db, number, pc, ret, buffer>>
                /\ sent' = sent \ {s}
                /\ \A t \in Sensor : next'[t] = IF t = s /\ s \in sent THEN next[t] + 1 ELSE next[t]
<1>1. CASE ~Sensors
  BY <1>1, Quiet
<1>2. ASSUME NEW s \in Sensor, Send(s)
      PROVE  UNCHANGED next /\ sent \subseteq sent'
  BY <1>2 DEF Send
<1>3. ASSUME NEW s \in Sensor, HearAck(s)
      PROVE  /\ UNCHANGED <<saved, excused, repeated, last, dev, db, number, pc, ret, buffer>>
             /\ sent' = sent \ {s}
             /\ \A t \in Sensor : next'[t] = IF t = s /\ s \in sent THEN next[t] + 1 ELSE next[t]
  BY <1>3 DEF HearAck, LinkInv, TypeInv, TypeOK, tableVars, parserVars, ghostVars
<1> QED BY <1>1, <1>2, <1>3 DEF Sensors

(* The samples of a packet are in the log only after it was sent. *)
LEMMA SavedWasSentKept ==
    ASSUME LinkInv, SavedWasSent, [Next]_vars
    PROVE  SavedWasSent'
<1>0. /\ next \in [Sensor -> Stamp] /\ saved \subseteq Sensor \X Sensor \X Stamp \X (1..Samples)
      /\ \A e \in saved : e[2] \in Sensor /\ e[3] \in Nat
  BY DEF LinkInv, TypeInv, TypeOK, Stamp
<1>1. CASE UNCHANGED <<next, saved>> /\ sent \subseteq sent'
  BY <1>0, <1>1 DEF SavedWasSent
<1>2. CASE SaveSample
  <2>1. UNCHANGED <<next, sent>> /\ buffer # <<>>
    BY <1>2, SampleSaved
  <2>2. saved' \subseteq saved \cup {<<dev[ret], frame.sensor, frame.stamp, sample>>}
    BY <1>2, SampleSaved
  <2>3. /\ frame.stamp <= next[frame.sensor]
        /\ frame.stamp = next[frame.sensor] => frame.sensor \in sent
    BY <1>0, <2>1, HeadFrame DEF FrameOk, Stamp, LinkInv
  <2> QED BY <2>1, <2>2, <2>3 DEF SavedWasSent
<1>3. ASSUME NEW s \in Sensor, UNCHANGED saved, sent' = sent \ {s},
             \A t \in Sensor : next'[t] = IF t = s /\ s \in sent THEN next[t] + 1 ELSE next[t]
      PROVE  SavedWasSent'
  BY <1>0, <1>3 DEF SavedWasSent, Stamp
<1>4. CASE Crash
  BY <1>1, <1>4 DEF Crash, sensorVars
<1>5. CASE ~ParserData /\ ~Crash
  BY <1>1, <1>3, <1>5, Quiet, NextGrows
<1>6. CASE EndSamples
  BY <1>1, <1>6 DEF EndSamples, sensorVars
<1> QED BY <1>2, <1>4, <1>5, <1>6 DEF ParserData

(* The slots go on knowing the packets that may come again. *)
LEMMA KnownAgainKept ==
    ASSUME LinkInv, AckInv, OnceInv, [Next]_vars
    PROVE  KnownAgain'
<1> USE DEF OnceInv
<1>0. /\ excused \subseteq excused' /\ next \in [Sensor -> Stamp] /\ Reach \in Nat
      /\ \A s \in Sensor : next[s] \in Nat
  BY Quiet DEF LinkInv, TypeInv, TypeOK, Reach, Stamp
<1>1. CASE Crash
  BY <1>1 DEF Crash, KnownAgain, Pending, sensorVars
<1> SUFFICES ASSUME NEW s \in Sensor, NEW j \in 1..Reach', dev'[j] = s,
                    Logged(s)', Pending(s)' \notin excused', ~Crash
             PROVE  last'[j] = next'[s]
  BY <1>1 DEF KnownAgain
<1>2. PICK i \in 1..Samples : <<s, s, next'[s], i>> \in saved'
  BY DEF Logged
<1>3. CASE UNCHANGED <<saved, last>> /\ next'[s] = next[s] /\ ~EndSamples
  <2>1. Pending(s)' = Pending(s) /\ Pending(s) \notin excused /\ Pending(s) \notin excused'
    BY <1>0, <1>3 DEF Pending
  <2>2. j \in 1..Reach /\ dev[j] = s
    <3>1. CASE UNCHANGED next
      BY <2>1, <3>1, SlotsKept
    <3>2. CASE ~UNCHANGED next
      BY <3>2, NextGrows DEF Reach
    <3> QED BY <3>1, <3>2
  <2>3. ~(pc = "acked" /\ Packet(frame) = Pending(s))
    <3>1. pc = "acked" => pc' = "acked" /\ UNCHANGED buffer
      <4>1. CASE Parser
        BY <1>3, <4>1 DEF Parser, LoadDataRf, FindDevice, SendAckSensor, AckUnknown, ParserData, SaveSample,
                          CheckSensorThresholds, CheckThresholds, TagAlert, EndOfData
      <4>2. CASE ~Parser
        BY <4>2, Quiet
      <4> QED BY <4>1, <4>2
    <3> QED BY <2>1, <3>1 DEF Logged, frame, Packet
  <2>4. Logged(s)
    BY <1>2, <1>3, <2>3 DEF Logged
  <2> QED BY <1>3, <2>1, <2>2, <2>4 DEF KnownAgain
<1>4. CASE ~ParserData
  <2>1. UNCHANGED <<saved, last>> /\ ~EndSamples
    BY <1>4, Quiet DEF ParserData
  <2>2. next'[s] = next[s] \/ next'[s] = next[s] + 1
    BY NextGrows
  <2>3. next'[s] # next[s] + 1
    BY <1>0, <1>2, <2>1 DEF SavedWasSent
  <2> QED BY <1>3, <2>1, <2>2, <2>3
<1>5. CASE SaveSample
  <2>1. /\ UNCHANGED <<buffer, ret, dev, db, number, next, last, excused>> /\ pc = "acked" /\ pc' = "acked"
        /\ saved' \subseteq saved \cup {<<dev[ret], frame.sensor, frame.stamp, sample>>}
    BY <1>5, SampleSaved
  <2>2. ~(Packet(frame) = Pending(s))
    BY <2>1 DEF Logged, Packet, Pending, frame
  <2>3. <<s, s, next[s], i>> \in saved
    BY <1>2, <2>1, <2>2 DEF Packet, Pending
  <2>4. Logged(s) /\ Pending(s) \notin excused /\ j \in 1..Reach /\ dev[j] = s
    BY <2>1, <2>2, <2>3 DEF Logged, Pending, Reach
  <2> QED BY <2>1, <2>4 DEF KnownAgain
<1>6. CASE EndSamples
  <2>1. /\ ret \in Slots /\ UNCHANGED <<buffer, ret, dev, db, number, next, sent, saved>> /\ buffer # <<>>
        /\ last'[ret] = frame.stamp /\ \A k \in Slots \ {ret} : last'[k] = last[k]
    BY <1>6, SavedOrExcused
  <2>2. pc = "acked" /\ <<s, s, next[s], i>> \in saved
    BY <1>2, <1>6, <2>1 DEF EndSamples
  <2>4. j \in 1..Reach /\ j \in Slots /\ dev[j] = s /\ Pending(s) \notin excused /\ Pending(s) \notin excused'
    BY <1>0, <2>1, SlotsKept DEF Pending
  <2>5. CASE Packet(frame) = Pending(s)
    <3>1. frame.sensor = s /\ frame.stamp = next[s]
      BY <2>5 DEF Packet, Pending
    <3>2. Packet(frame) \notin excused /\ dev[ret] = s
      BY <2>2, <2>4, <2>5, <3>1 DEF LinkInv, Displacements, Handling
    <3>3. j = ret
      BY <2>2, <2>4, <3>1, <3>2 DEF LinkInv, FoundRight, Handling
    <3> QED BY <2>1, <3>1, <3>3
  <2>6. CASE Packet(frame) # Pending(s) /\ j # ret
    BY <2>1, <2>2, <2>4, <2>6 DEF KnownAgain, Logged
  <2>7. CASE Packet(frame) # Pending(s) /\ j = ret /\ s = frame.sensor
    <3>1. s \in sent
      BY <2>2 DEF SavedWasSent
    <3>2. frame.stamp = next[s]
      BY <2>1, <2>7, <3>1, HeadFrame DEF LinkInv, FrameOk
    <3> QED BY <2>7, <3>2 DEF Packet, Pending
  <2>8. CASE j = ret /\ s # frame.sensor
    BY <2>2, <2>4, <2>8 DEF KnownWhenFound
  <2> QED BY <2>5, <2>6, <2>7, <2>8
<1> QED BY <1>4, <1>5, <1>6 DEF ParserData

(* The slot in use knows the packet being handled, if that was saved. *)
LEMMA KnownWhenFoundKept ==
    ASSUME LinkInv, AckInv, OnceInv, [Next]_vars
    PROVE  KnownWhenFound'
<1> USE DEF OnceInv
<1>0. /\ excused \subseteq excused' /\ next \in [Sensor -> Stamp]
      /\ \A s \in Sensor : next[s] \in Nat
      /\ Handling => dev[ret] \in Sensor /\ buffer # <<>> /\ ret \in Slots
  BY Quiet DEF LinkInv, TypeInv, TypeOK, GhostTypes, Handling, Stamp
<1>1. CASE pc' \notin {"found", "acked"}
  BY <1>1 DEF KnownWhenFound
<1>2. CASE FindDevice /\ pc' = "found"
  <2>1. /\ UNCHANGED <<buffer, dev, excused, saved, last, number>> /\ buffer # <<>> /\ pc = "next"
        /\ ret' \in Matches(frame.sensor)
    BY <1>2 DEF FindDevice, tableVars, ghostVars
  <2>2. ret' \in 1..Reach /\ dev[ret'] = frame.sensor
    BY <2>1 DEF Matches, Reach, LinkInv, TypeInv, TypeOK
  <2>3. frame.sensor \in Sensor /\ (Packet(frame) \in excused \/ Packet(frame) = Pending(frame.sensor))
    <3>1. FrameOk(frame) /\ frame = buffer[1] /\ 1 \in 1..Len(buffer)
      BY <2>1, HeadFrame DEF LinkInv
    <3> QED BY <2>1, <3>1, FrameIsPending DEF AckInv, Overtakings
  <2>4. ASSUME Packet(frame) \notin excused,
               NEW i \in 1..Samples, <<frame.sensor, frame.sensor, frame.stamp, i>> \in saved
        PROVE  last[ret'] = frame.stamp
    <3>1. Pending(frame.sensor) \notin excused /\ frame.stamp = next[frame.sensor]
      BY <2>3, <2>4 DEF Packet, Pending
    <3> QED BY <2>1, <2>2, <2>3, <2>4, <3>1 DEF KnownAgain, Logged
  <2>5. sample' = 1
    BY <1>2, <2>1 DEF FindDevice, LinkInv, TypeInv, TypeOK
  <2> QED BY <2>1, <2>2, <2>4, <2>5 DEF KnownWhenFound, frame, Packet
<1>3. CASE /\ pc \in {"found", "acked"} /\ UNCHANGED <<buffer, ret, saved, last, dev, sample>>
  <2>1. frame' = frame /\ Packet(frame)' = Packet(frame)
    BY <1>3 DEF frame, Packet
  <2>2. dev[ret] \in Sensor
    BY <1>0, <1>3 DEF Handling
  <2>3. ASSUME dev[ret] # frame.sensor
        PROVE  \/ Pending(dev[ret])' \in excused'
               \/ \A e \in saved : e[2] = dev[ret] => e[3] # next'[dev[ret]]
    <3>1. CASE UNCHANGED next
      BY <1>0, <1>3, <2>3, <3>1 DEF KnownWhenFound, Pending
    <3>2. CASE ~UNCHANGED next
      <4>1. /\ UNCHANGED excused
            /\ next'[dev[ret]] = next[dev[ret]] \/ next'[dev[ret]] = next[dev[ret]] + 1
        BY <2>2, <3>2, NextGrows
      <4>2. CASE next'[dev[ret]] = next[dev[ret]]
        BY <1>3, <2>3, <4>1, <4>2 DEF KnownWhenFound, Pending
      <4>3. CASE next'[dev[ret]] = next[dev[ret]] + 1
        BY <1>0, <2>2, <4>3 DEF SavedWasSent
      <4> QED BY <4>1, <4>2, <4>3
    <3> QED BY <3>1, <3>2
  <2>4. UNCHANGED dev[ret]
    BY <1>3
  <2> QED BY <1>0, <1>3, <2>1, <2>3, <2>4 DEF KnownWhenFound, Pending
<1>4. CASE SendAckSensor
  <2>1. pc = "found" /\ UNCHANGED <<buffer, ret, dev>>
    BY <1>4 DEF SendAckSensor, tableVars
  <2>2. ~ParserData /\ ~Crash
    BY <1>4 DEF SendAckSensor, ParserData, SaveSample, EndSamples, Crash
  <2> QED BY <1>3, <2>1, <2>2, Quiet
<1>4s. CASE SaveSample
  <2>1. /\ UNCHANGED <<buffer, ret, dev, next, last, excused>> /\ pc = "acked" /\ dev[ret] \in Sensor
        /\ sample \in Nat /\ sample' = sample + 1
        /\ \/ UNCHANGED saved
           \/ saved' = saved \cup {<<dev[ret], frame.sensor, frame.stamp, sample>>}
    BY <1>4s, SampleSaved
  <2>2. frame' = frame /\ Packet(frame)' = Packet(frame) /\ Pending(dev[ret])' = Pending(dev[ret])
    BY <2>1 DEF frame, Packet, Pending
  <2>3. \A e \in saved' : e \in saved \/ e[2] = frame.sensor
    BY <2>1
  <2>4. \A i \in sample'..Samples : i \in sample..Samples /\ i # sample
    BY <2>1, LinkAssumption
  <2>5. \A i \in sample'..Samples : <<frame.sensor, frame.sensor, frame.stamp, i>> \in saved'
           => <<frame.sensor, frame.sensor, frame.stamp, i>> \in saved
    BY <2>1, <2>4
  <2> QED BY <2>1, <2>2, <2>3, <2>4, <2>5 DEF KnownWhenFound
<1>5. CASE EndSamples \/ Crash \/ CheckSensorThresholds \/ LoadDataRf \/ EndOfData \/ AckUnknown
  BY <1>1, <1>5 DEF EndSamples, Crash, CheckSensorThresholds, CheckThresholds, TagAlert, Done, LoadDataRf,
                    EndOfData, AckUnknown
<1>6. CASE FindDevice
  BY <1>1, <1>2, <1>6 DEF FindDevice
<1>7. CASE LoadDeviceDb /\ pc \in {"found", "acked"}
  <2>1. /\ UNCHANGED <<buffer, ret, pc, saved, last, next, sample>> /\ dev' = Loaded(db)
        /\ excused' = excused \cup Moved(db) /\ db \in Seq(Sensor)
    BY <1>7 DEF LoadDeviceDb, parserVars, sensorVars, LinkInv, TypeInv, TypeOK
  <2>2. frame' = frame /\ Packet(frame)' = Packet(frame) /\ ret # 0
    BY <1>7, <2>1 DEF frame, Packet, LinkInv, TypeInv, TypeOK
  <2>3. dev'[ret] \in Sensor
    BY <1>0, <1>7, <2>1, LoadedSlots DEF LinkInv, TypeInv, Handling
  <2>4. \/ dev'[ret] = dev[ret]
        \/ /\ Pending(dev'[ret]) \in excused'
           /\ dev'[ret] = frame.sensor => Packet(frame) \in excused'
    BY <1>0, <1>7, <2>1, <2>2, <2>3, MovedExcused DEF LinkInv, Handling
  <2>5. CASE dev'[ret] = dev[ret]
    BY <1>0, <1>7, <2>1, <2>2, <2>5 DEF KnownWhenFound, Pending
  <2>6. CASE /\ Pending(dev'[ret]) \in excused'
             /\ dev'[ret] = frame.sensor => Packet(frame) \in excused'
    BY <2>1, <2>2, <2>6 DEF KnownWhenFound, Pending
  <2> QED BY <2>4, <2>5, <2>6
<1>8. CASE ~Parser /\ ~Crash /\ UNCHANGED dev
  <2>1. ~ParserData
    BY <1>8 DEF Parser
  <2> QED BY <1>1, <1>3, <1>8, <2>1, Quiet
<1>9. ASSUME NEW s \in Sensor, EditBySM(s)
      PROVE  KnownWhenFound'
  BY <1>1, <1>9 DEF EditBySM, parserVars
<1>10. CASE ~Parser /\ ~Crash
  <2>1. CASE UNCHANGED dev
    BY <1>8, <1>10, <2>1
  <2>2. CASE \E s \in Sensor : EditBySM(s)
    BY <1>9, <2>2
  <2>3. CASE LoadDeviceDb
    BY <1>1, <1>7, <2>3 DEF LoadDeviceDb, parserVars
  <2>4. UNCHANGED dev \/ (\E s \in Sensor : EditBySM(s)) \/ LoadDeviceDb
    BY <1>10 DEF Next, Sensors, Send, HearAck, Commands, EditByNet, InitDevices, ClearTable, FinishTable,
                 ClearFlags, vars, tableVars
  <2> QED BY <2>1, <2>2, <2>3, <2>4
<1> QED BY <1>4, <1>4s, <1>5, <1>6, <1>10 DEF Parser, ParserData

(* Samples under another id, and packets logged twice. *)
LEMMA OnceKept ==
    ASSUME LinkInv, AckInv, OnceInv, [Next]_vars
    PROVE  OnceInv'
<1> USE DEF OnceInv
<1>0. excused \subseteq excused' /\ displaced \subseteq displaced'
  <2>1. excused \subseteq excused'
    BY Quiet
  <2>2. CASE Parser
    BY <2>1, <2>2 DEF Parser, LoadDataRf, FindDevice, SendAckSensor, AckUnknown, ParserData, SaveSample,
                      EndSamples, CheckSensorThresholds, CheckThresholds, TagAlert, EndOfData, ghostVars
  <2>3. CASE ~Parser
    BY <2>1, <2>3 DEF Next, Sensors, Send, HearAck, Commands, EditBySM, EditByNet, InitDevices, ClearTable,
                      LoadDeviceDb, FinishTable, ClearFlags, Crash, vars, ghostVars
  <2> QED BY <2>2, <2>3
<1> SUFFICES RightSensor' /\ SavedOnce'
  BY SavedWasSentKept, KnownAgainKept, KnownWhenFoundKept DEF AckInv
<1>1. CASE UNCHANGED <<saved, repeated>>
  BY <1>0, <1>1 DEF RightSensor, SavedOnce
<1>2. CASE SaveSample
  <2>1. CASE last[ret] = frame.stamp
    BY <1>1, <1>2, <2>1, SampleSaved
  <2>2. CASE last[ret] # frame.stamp
    <3> DEFINE again == {e \in saved : <<e[2], e[3], e[4]>> = <<frame.sensor, frame.stamp, sample>>}
    <3>1. /\ pc = "acked" /\ saved' = saved \cup {<<dev[ret], frame.sensor, frame.stamp, sample>>}
          /\ repeated' = repeated \cup {Packet(frame) : e \in again}
          /\ dev[ret] # frame.sensor => Packet(frame) \in displaced
          /\ displaced \subseteq excused /\ sample \in 1..Samples
      BY <1>2, <2>2, SampleSaved DEF SaveSample, LinkInv, Displacements, Handling
    <3>2. RightSensor'
      BY <1>0, <3>1 DEF RightSensor, Packet
    <3>3. ASSUME NEW e \in again
          PROVE  Packet(frame) \in excused'
      <4>0. e[2] = frame.sensor /\ e[3] = frame.stamp /\ e[4] = sample
        OBVIOUS
      <4>1. CASE e[1] # e[2]
        BY <1>0, <3>1, <4>0, <4>1 DEF RightSensor, Packet
      <4>2. CASE e[1] = e[2] /\ dev[ret] = frame.sensor
        <5>1. e = <<frame.sensor, frame.sensor, frame.stamp, sample>>
          BY <4>0, <4>2 DEF LinkInv, TypeInv, TypeOK
        <5>2. sample \in sample..Samples
          BY <3>1
        <5> QED BY <1>0, <2>2, <3>1, <4>2, <5>1, <5>2 DEF KnownWhenFound
      <4> QED BY <1>0, <3>1, <4>1, <4>2
    <3> HIDE DEF again
    <3>4. SavedOnce'
      BY <1>0, <3>1, <3>3 DEF SavedOnce
    <3> QED BY <3>2, <3>4
  <2> QED BY <2>1, <2>2
<1>3. CASE Crash \/ EndSamples
  BY <1>1, <1>3 DEF Crash, EndSamples
<1> QED BY <1>1, <1>2, <1>3, Quiet DEF ParserData

-----------------------------------------------------------------------------
(* What the slots know of the last packet, and the packet being checked. *)
LEMMA ValuesKept ==
    ASSUME LinkInv, AckInv, ValueKnown, JustSaved, [Next]_vars
    PROVE  ValueKnown' /\ JustSaved'
<1>0. excused \subseteq excused'
  BY Quiet
<1>1. CASE UNCHANGED <<last, lastBy, value>> /\ pc' # "saved" /\ pc # "acked"
  BY <1>0, <1>1 DEF ValueKnown, JustSaved
<1>2. CASE UNCHANGED <<last, lastBy, value, pc, ret, buffer>>
  BY <1>0, <1>2 DEF ValueKnown, JustSaved, frame
<1>3. CASE SaveSample
  <2>1. /\ pc = "acked" /\ pc' = "acked" /\ UNCHANGED <<last, lastBy, ret, buffer>>
        /\ \/ UNCHANGED value
           \/ last[ret] # frame.stamp /\ \A i \in Slots \ {ret} : value'[i] = value[i]
    BY <1>3, SampleSaved
  <2>2. frame' = frame
    BY <2>1 DEF frame
  <2> QED BY <1>0, <2>1, <2>2 DEF ValueKnown, JustSaved
<1>4. CASE EndSamples
  <2>1. /\ ret \in Slots /\ UNCHANGED <<buffer, ret, value>> /\ buffer # <<>> /\ pc' = "saved"
        /\ last'[ret] = frame.stamp /\ lastBy'[ret] = frame.sensor
        /\ \A i \in Slots \ {ret} : last'[i] = last[i] /\ lastBy'[i] = lastBy[i]
    BY <1>4, SavedOrExcused
  <2>2. frame.stamp # 0
    BY <2>1, HeadFrame DEF LinkInv
  <2>3. value[ret] = Value(frame) \/ Packet(frame) \in excused'
    <3>1. CASE last[ret] # frame.stamp
      <4>1. pc = "acked" /\ sample > 1
        BY <1>4, LinkAssumption DEF EndSamples, LinkInv, TypeInv, TypeOK
      <4> QED BY <3>1, <4>1 DEF AckInv, Progress
    <3>2. CASE last[ret] = frame.stamp /\ lastBy[ret] # frame.sensor
      BY <1>4, <3>2 DEF EndSamples
    <3>3. CASE last[ret] = frame.stamp /\ lastBy[ret] = frame.sensor
      BY <1>0, <2>1, <2>2, <3>3 DEF ValueKnown, Value, Packet
    <3> QED BY <3>1, <3>2, <3>3
  <2>4. ValueKnown'
    BY <1>0, <2>1, <2>3 DEF ValueKnown, Value, Packet
  <2> QED BY <2>1, <2>4 DEF JustSaved, frame
<1>5. CASE Crash
  BY <1>5 DEF Crash, ValueKnown, JustSaved
<1>6. CASE Parser /\ ~ParserData
  <2>1. UNCHANGED <<last, lastBy, value>> /\ pc' # "saved" /\ pc # "acked"
    BY <1>6 DEF Parser, LoadDataRf, FindDevice, SendAckSensor, AckUnknown, CheckSensorThresholds,
                CheckThresholds, TagAlert, Done, EndOfData, ghostVars, valueVars
  <2> QED BY <1>1, <2>1
<1>7. CASE ~Parser /\ ~Crash
  <2>1. UNCHANGED value
    BY <1>7 DEF Next, Sensors, Send, HearAck, Commands, EditBySM, EditByNet, InitDevices, ClearTable,
                LoadDeviceDb, FinishTable, ClearFlags, vars, valueVars
  <2> QED BY <1>2, <1>7, <2>1, Quiet DEF Parser
<1> QED BY <1>3, <1>4, <1>5, <1>6, <1>7 DEF ParserData

(* The flags say what the sensors were told. *)
LEMMA FlagsKept ==
    ASSUME LinkInv, FlagIsTold, [Next]_vars
    PROVE  FlagIsTold'
<1>0. /\ number \in 0..Cardinality(Sensor) /\ Cardinality(Sensor) \in Nat
      /\ dev \in [Slots -> Sensor \cup {NoSensor}] /\ alarm \in [Slots -> 0..2]
      /\ told \in [Sensor -> 0..2]
      /\ \A j \in 1..number : dev[j] \in Sensor /\ j \in Slots
  <2>1. /\ number \in 0..Cardinality(Sensor) /\ Cardinality(Sensor) \in Nat /\ Len(db) \in Nat
        /\ dev \in [Slots -> Sensor \cup {NoSensor}] /\ alarm \in [Slots -> 0..2]
        /\ told \in [Sensor -> 0..2]
    BY SlotsAreFinite DEF LinkInv, TypeInv, TypeOK, GhostTypes
  <2> QED BY <2>1 DEF LinkInv, TableOk, Reach, Slots
<1>1. CASE UNCHANGED <<rpc, number, dev, alarm, told, unsure>>
  BY <1>1 DEF FlagIsTold
<1>2. CASE rpc' # "idle"
  BY <1>2 DEF FlagIsTold
<1>3. ASSUME NEW n \in Nat, number' = n, n <= Cardinality(Sensor), FlagsCleared(n),
             \A j \in 1..n : dev'[j] \in Sensor
      PROVE  FlagIsTold'
  BY <1>0, <1>3 DEF FlagsCleared, FlagIsTold, Slots
<1>4. CASE CheckThresholds
  <2>1. /\ UNCHANGED <<rpc, number, dev, value>> /\ ret \in Slots /\ dev[ret] \in Sensor /\ buffer # <<>>
        /\ alarm' = IF Watched(dev[ret]) THEN [alarm EXCEPT ![ret] = Side(dev[ret], value[ret])] ELSE alarm
        /\ told' = [told EXCEPT ![frame.sensor] = Side(frame.sensor, Value(frame))]
        /\ unsure' = IF InPlace THEN unsure \ {frame.sensor} ELSE unsure \cup {frame.sensor, dev[ret]}
    BY <1>4 DEF CheckThresholds, LinkInv, TypeInv, TypeOK, GhostTypes, Handling, tableVars
  <2>2. frame.sensor \in Sensor
    BY <2>1, HeadFrame DEF LinkInv
  <2> SUFFICES ASSUME rpc = "idle", NEW j \in 1..number, dev[j] \notin unsure', Watched(dev[j])
               PROVE  alarm'[j] = told'[dev[j]]
    BY <2>1 DEF FlagIsTold, Watched
  <2>3. CASE InPlace /\ dev[j] = frame.sensor
    <3>1. j = ret /\ value[ret] = Value(frame)
      BY <2>3 DEF InPlace, Matches
    <3> QED BY <1>0, <2>1, <2>2, <2>3, <3>1
  <2>4. CASE InPlace /\ dev[j] # frame.sensor
    <3>1. j # ret
      BY <2>4 DEF InPlace
    <3> QED BY <1>0, <2>1, <2>2, <2>4, <3>1 DEF FlagIsTold
  <2>5. CASE ~InPlace
    <3>1. j # ret /\ dev[j] # frame.sensor /\ dev[j] \notin unsure
      BY <2>1, <2>5
    <3> QED BY <1>0, <2>1, <2>2, <3>1 DEF FlagIsTold
  <2> QED BY <2>3, <2>4, <2>5
<1>5. ASSUME NEW s \in Sensor, EditBySM(s)
      PROVE  FlagIsTold'
  <2>1. TableOk' /\ TypeOK'
    BY TableKept, TypesKept DEF LinkInv
  <2>2. /\ Len(db') \in Nat /\ number' = Len(db') /\ Len(db') <= Cardinality(Sensor)
        /\ \A j \in 1..number' : dev'[j] \in Sensor
    BY <1>5, <2>1 DEF EditBySM, TypeOK, TableOk, Reach
  <2> QED BY <1>3, <1>5, <2>2 DEF EditBySM
<1>6. CASE ClearFlags
  <2>1. number \in Nat /\ number <= Cardinality(Sensor) /\ UNCHANGED <<dev, number>>
    BY <1>0, <1>6 DEF ClearFlags
  <2> QED BY <1>0, <1>3, <1>6, <2>1 DEF ClearFlags
<1>7. CASE Crash
  <2>1. TableOk' /\ TypeOK'
    BY TableKept, TypesKept DEF LinkInv
  <2>2. \A j \in 1..number' : dev'[j] \in Sensor /\ j \in Slots
    BY <1>0, <2>1 DEF TypeOK, TableOk, Reach, Slots
  <2> QED BY <1>7, <2>2 DEF Crash, FlagIsTold
<1>8. CASE Sensors \/ UNCHANGED vars
  BY <1>1, <1>8 DEF Sensors, Send, HearAck, vars, tableVars, valueVars
<1>9. CASE LoadDataRf \/ FindDevice \/ EndOfData
  BY <1>1, <1>9 DEF LoadDataRf, FindDevice, EndOfData, tableVars, valueVars
<1>9t. CASE TagAlert
  BY <1>1, <1>9t DEF TagAlert, tableVars
<1>10. CASE SendAckSensor \/ AckUnknown \/ ParserData
  BY <1>1, <1>10 DEF SendAckSensor, AckUnknown, ParserData, SaveSample, EndSamples, tableVars, valueVars
<1>11. CASE ClearTable \/ LoadDeviceDb \/ FinishTable \/ \E s \in Sensor : EditByNet(s)
  BY <1>2, <1>11 DEF ClearTable, LoadDeviceDb, FinishTable, EditByNet
<1> QED
  BY <1>4, <1>5, <1>6, <1>7, <1>8, <1>9, <1>9t, <1>10, <1>11
     DEF Next, Parser, CheckSensorThresholds, Commands, InitDevices

(* Alerts that are logged wrongly, or not logged. *)
LEMMA AlertsKept ==
    ASSUME LinkInv, AlertInv, [Next]_vars
    PROVE  AlertsAreReal'
<1> USE DEF AlertInv
<1>0. excused \subseteq excused'
  BY Quiet
<1>1. CASE CheckThresholds
  <2>1. /\ ret \in Slots /\ dev[ret] \in Sensor /\ buffer # <<>> /\ pc = "saved"
    BY <1>1 DEF CheckThresholds, LinkInv, TypeInv, TypeOK, GhostTypes, Handling
  <2>2. frame.sensor \in Sensor /\ frame.stamp # 0
    BY <2>1, HeadFrame DEF LinkInv
  <2> SUFFICES ASSUME Certain, Alerts(ret) # (Due(frame) /\ dev[ret] = frame.sensor)
               PROVE  Packet(frame) \in excused'
    BY <1>0, <1>1 DEF CheckThresholds, AlertsAreReal
  <2>3. CASE dev[ret] # frame.sensor
    BY <1>0, <2>1, <2>3 DEF LinkInv, Displacements, Handling
  <2>4. CASE dev[ret] = frame.sensor /\ Packet(frame) \notin excused
    <3>1. value[ret] = Value(frame)
      BY <2>1, <2>2, <2>4 DEF JustSaved, ValueKnown, Value, Packet
    <3>2. ret \in 1..number
      BY <2>1, SlotsAreFinite DEF Certain, Slots, LinkInv, TypeInv, TypeOK
    <3>3. Watched(frame.sensor) => alarm[ret] = told[frame.sensor]
      BY <2>4, <3>2 DEF Certain, FlagIsTold
    <3>4. Alerts(ret) = Due(frame)
      BY <2>4, <3>1, <3>3 DEF Alerts, Due
    <3> QED BY <2>4, <3>4 DEF Alerts
  <2> QED BY <1>0, <2>3, <2>4
<1>1t. CASE TagAlert
  <2>1. dev[ret] # frame.sensor => Packet(frame) \in excused
    BY <1>1t DEF TagAlert, LinkInv, Displacements, Handling
  <2> QED BY <1>0, <1>1t, <2>1 DEF TagAlert, AlertsAreReal
<1>2. CASE UNCHANGED astray
  BY <1>0, <1>2 DEF AlertsAreReal
<1>3. CASE Sensors \/ Commands \/ Crash \/ UNCHANGED vars
  BY <1>2, <1>3 DEF Sensors, Send, HearAck, Commands, EditBySM, EditByNet, Crash, vars, valueVars
<1>4. CASE Parser /\ ~CheckSensorThresholds
  BY <1>2, <1>4 DEF Parser, LoadDataRf, FindDevice, SendAckSensor, AckUnknown, ParserData, SaveSample,
                    EndSamples, EndOfData, valueVars
<1>5. CASE InitDevices
  BY <1>2, <1>5 DEF InitDevices, ClearTable, LoadDeviceDb, FinishTable, ClearFlags, valueVars
<1> QED BY <1>1, <1>1t, <1>3, <1>4, <1>5 DEF Next, CheckSensorThresholds

-----------------------------------------------------------------------------
(* What nothing disturbs. *)
LEMMA CalmKept ==
    ASSUME LinkInv, AckInv, Calm, [Next]_vars
    PROVE  Calm'
<1> DEFINE Configured == \A s \in Sensor : \E i \in DOMAIN Rows : Rows[i] = s
<1>1. SUFFICES ASSUME edits' = 0, crashes' = 0, Configured
               PROVE  /\ excused' = {} /\ rpc' = "idle" /\ number' = Len(Rows)
                      /\ \A i \in 1..Len(Rows) : dev'[i] = Rows[i]
                      /\ pc' # "unknown"
                      /\ Handling' => dev'[ret'] = frame'.sensor
                      /\ \A i \in Slots : last'[i] # 0 => lastBy'[i] = dev'[i]
  BY DEF Calm, frame
<1>2. edits \in Nat /\ crashes \in Nat
  BY LinkAssumption DEF LinkInv, TypeInv, TypeOK
<1>3. ~Crash /\ ~Commands
  BY <1>1, <1>2 DEF Crash, Commands, EditBySM, EditByNet, Edited
<1>4. UNCHANGED <<edits, crashes>>
  BY <1>3 DEF Next, Sensors, Send, HearAck, Parser, LoadDataRf, FindDevice, SendAckSensor, AckUnknown,
              ParserData, SaveSample, EndSamples, CheckSensorThresholds, CheckThresholds, TagAlert,
              EndOfData, InitDevices, ClearTable, LoadDeviceDb, FinishTable, ClearFlags, vars
<1>5. /\ excused = {} /\ rpc = "idle" /\ number = Len(Rows) /\ Len(Rows) \in Nat
      /\ \A i \in 1..Len(Rows) : dev[i] = Rows[i]
      /\ pc # "unknown"
      /\ Handling => dev[ret] = frame.sensor
      /\ \A i \in Slots : last[i] # 0 => lastBy[i] = dev[i]
  BY <1>1, <1>4, RowsAssumption DEF Calm
<1>6. ~InitDevices
  BY <1>5 DEF InitDevices, ClearTable, LoadDeviceDb, FinishTable, ClearFlags, Crash
<1>7. CASE UNCHANGED <<excused, rpc, number, dev, last, lastBy, pc, ret, buffer>>
  BY <1>5, <1>7 DEF Handling, frame
<1>8. CASE UNCHANGED <<excused, rpc, number, dev, last, lastBy>> /\ pc' \notin {"unknown", "found", "acked", "saved", "alert"}
  BY <1>5, <1>8 DEF Handling
<1>9. CASE FindDevice
  <2>1. /\ UNCHANGED <<excused, rpc, number, dev, last, lastBy, buffer>> /\ buffer # <<>>
    BY <1>9 DEF FindDevice, tableVars, ghostVars
  <2>2. Matches(frame.sensor) # {}
    <3>1. PICK i \in DOMAIN Rows : Rows[i] = frame.sensor
      BY <1>1, <2>1, HeadFrame DEF LinkInv
    <3> QED BY <1>5, <3>1, RowsAssumption DEF Matches
  <2>3. pc' = "found" /\ ret' \in Matches(frame.sensor)
    BY <1>9, <2>2 DEF FindDevice
  <2> QED BY <1>5, <2>1, <2>3 DEF Matches, frame
<1>10. CASE SendAckSensor
  <2>1. /\ UNCHANGED <<rpc, number, dev, last, lastBy, buffer, ret>> /\ pc = "found" /\ pc' = "acked"
        /\ buffer # <<>>
    BY <1>10 DEF SendAckSensor, tableVars, LinkInv, TypeInv, TypeOK
  <2>2. Packet(frame) = Pending(dev[ret])
    <3>1. FrameOk(frame) /\ frame = buffer[1] /\ 1 \in 1..Len(buffer)
      BY <2>1, HeadFrame DEF LinkInv
    <3>2. dev[ret] = frame.sensor
      BY <1>5, <2>1 DEF Handling
    <3> QED BY <1>5, <2>1, <3>1, <3>2, FrameIsPending DEF AckInv, Overtakings
  <2>3. excused' = excused
    BY <1>10, <2>2 DEF SendAckSensor
  <2> QED BY <1>5, <2>1, <2>3 DEF Handling, frame
<1>11s. CASE SaveSample
  <2>1. /\ UNCHANGED <<buffer, ret, dev, number, rpc, last, lastBy, excused>>
        /\ pc = "acked" /\ pc' = "acked"
    BY <1>11s, SampleSaved
  <2> QED BY <1>5, <2>1 DEF Handling, frame
<1>11. CASE EndSamples
  <2>1. /\ ret \in Slots /\ buffer # <<>> /\ pc' = "saved" /\ UNCHANGED <<buffer, ret, dev, number, rpc>>
        /\ last'[ret] = frame.stamp /\ lastBy'[ret] = frame.sensor
        /\ \A i \in Slots \ {ret} : last'[i] = last[i] /\ lastBy'[i] = lastBy[i]
    BY <1>11, SavedOrExcused
  <2>2. frame.stamp # 0 /\ dev[ret] = frame.sensor
    BY <1>5, <1>11, <2>1, HeadFrame DEF LinkInv, EndSamples, Handling
  <2>3. excused' = {}
    BY <1>5, <1>11, <2>1, <2>2 DEF EndSamples
  <2>4. \A i \in Slots : last'[i] # 0 => lastBy'[i] = dev[i]
    BY <1>5, <2>1, <2>2
  <2> QED BY <1>5, <2>1, <2>2, <2>3, <2>4 DEF frame
<1>12. CASE CheckSensorThresholds
  <2>1. UNCHANGED <<excused, rpc, number, dev, last, lastBy>>
    BY <1>12 DEF CheckSensorThresholds, CheckThresholds, TagAlert, tableVars, ghostVars
  <2>2. CASE Done
    BY <1>8, <2>1, <2>2 DEF Done
  <2>3. CASE ~Done
    <3>1. pc = "saved" /\ pc' = "alert" /\ UNCHANGED <<buffer, ret>>
      BY <1>12, <2>3 DEF CheckSensorThresholds, CheckThresholds, TagAlert
    <3> QED BY <1>5, <2>1, <3>1 DEF Handling, frame
  <2> QED BY <2>2, <2>3
<1>13. CASE Sensors \/ UNCHANGED vars
  BY <1>7, <1>13 DEF Sensors, Send, HearAck, vars, parserVars, tableVars, ghostVars
<1>14. CASE LoadDataRf \/ EndOfData
  BY <1>8, <1>14 DEF LoadDataRf, EndOfData, tableVars, ghostVars
<1>15. ~AckUnknown
  BY <1>5 DEF AckUnknown
<1> QED
  BY <1>3, <1>6, <1>9, <1>10, <1>11s, <1>11, <1>12, <1>13, <1>14, <1>15 DEF Next, Parser, ParserData

-----------------------------------------------------------------------------
(* The inductive invariant. *)
LinkProven == LinkInv /\ AckInv /\ OnceInv /\ AlertInv /\ Calm

(* The process starts with the rows of the table in the slots, and nothing   *)
(* sent.                                                                     *)
LEMMA LinkStarts == Init => LinkProven
<1> SUFFICES ASSUME Init
             PROVE  LinkProven
  OBVIOUS
<1> USE DEF Init
<1>0. /\ Cardinality(Sensor) \in Nat /\ Len(Rows) \in Nat /\ Len(Rows) <= Cardinality(Sensor)
      /\ Rows \in Seq(Sensor) /\ Unique(Rows) /\ NoSensor \notin Sensor
      /\ \A i \in 1..Len(Rows) : Rows[i] \in Sensor
  BY SlotsAreFinite, RowsAssumption
<1>1. TypeOK
  <2>1. /\ next \in [Sensor -> Stamp] /\ serial \in Seq(Frame) /\ buffer \in Seq(Frame)
    BY DEF Stamp
  <2>2. dev \in [Slots -> Sensor \cup {NoSensor}] /\ number \in 0..Cardinality(Sensor)
    BY <1>0 DEF Slots
  <2>3. edits \in 0..MaxEdits /\ crashes \in 0..MaxCrashes /\ sample \in 1..(Samples + 1)
    BY LinkAssumption
  <2> QED BY <1>0, <2>1, <2>2, <2>3 DEF TypeOK
<1>2. GhostTypes /\ FramesOk /\ OneFrame
  BY DEF GhostTypes, Handling, FramesOk, OneFrame
<1>3. TableOk /\ FoundRight
  <2>1. Reach = Len(Rows) /\ \A i \in 1..Len(Rows) : dev[i] = Rows[i]
    BY <1>0 DEF Reach, Slots
  <2> QED BY <1>0, <2>1 DEF TableOk, FoundRight, Handling, Unique
<1>3d. Displacements
  BY DEF Displacements, Handling
<1>4. AckInv
  BY DEF AckInv, Overtakings, Accepted, Remembered, Progress
<1>5. OnceInv
  BY DEF OnceInv, RightSensor, SavedWasSent, KnownAgain, Logged, KnownWhenFound, SavedOnce
<1>6. AlertInv
  <2>1. \A j \in 1..number : j \in Slots /\ dev[j] \in Sensor
    BY <1>0 DEF Slots
  <2> QED BY <2>1 DEF AlertInv, ValueKnown, JustSaved, FlagIsTold, AlertsAreReal
<1>7. Calm
  BY <1>0 DEF Calm, Handling, Slots
<1> QED BY <1>1, <1>2, <1>3, <1>3d, <1>4, <1>5, <1>6, <1>7 DEF LinkProven, LinkInv, TypeInv

(* It holds in every state: each step of Parser, of the loading of the table *)
(* beside it, of the sensors and of the start after a crash keeps it.        *)
THEOREM LinkIsInductive == Spec => []LinkProven
<1>1. LinkProven /\ [Next]_vars => LinkProven'
  <2> SUFFICES ASSUME LinkProven, [Next]_vars
               PROVE  LinkProven'
    OBVIOUS
  <2> USE DEF LinkProven
  <2>1. LinkInv'
    BY LinkKept
  <2>2. AckInv'
    BY OvertakingsKept, AcceptedKept, RememberedKept, ProgressKept DEF AckInv
  <2>3. OnceInv'
    BY OnceKept
  <2>4. AlertInv'
    BY ValuesKept, FlagsKept, AlertsKept DEF AckInv, AlertInv
  <2>5. Calm'
    BY CalmKept
  <2> QED BY <2>1, <2>2, <2>3, <2>4, <2>5
<1> QED BY <1>1, LinkStarts, PTL DEF Spec

(* The types, and that no sample gets into the log twice: lastidradio is all *)
(* that ParserData compares a packet with, and Devices may be loaded anew    *)
(* between two packets.                                                      *)
THEOREM LinkSavesOnce == Spec => []TableInv
<1>1. LinkProven => TableInv
  BY DEF LinkProven, LinkInv, TypeInv, OnceInv, TableInv
<1> QED BY <1>1, LinkIsInductive, PTL

(* SendAckSensor comes before ParserData, and still an acknowledged packet   *)
(* is in the log with all its samples, or being saved, under the id of its   *)
(* sensor, but for the causes AckedIsSaved lists.                            *)
THEOREM LinkSavesWhatItAcks == Spec => []AckedIsSaved
<1>1. LinkProven => AckedIsSaved
  BY DEF LinkProven, AckInv, Accepted, Safe, AckedIsSaved
<1> QED BY <1>1, LinkIsInductive, PTL

(* Samples are saved under the id of the sensor that sent them, but for those *)
(* of a packet whose slot LoadDeviceDb gives to another between              *)
(* FindDevicesFromAdd and the tags.                                          *)
THEOREM LinkSavesRightSensor == Spec => []RightSensor
<1>1. LinkProven => RightSensor
  BY DEF LinkProven, OnceInv
<1> QED BY <1>1, LinkIsInductive, PTL

(* CheckSensorThresholds, which sees only the values and flags of a slot,    *)
(* logs an alert when the sensor has gone past a threshold, and no other,    *)
(* but for the packets AlertsAreReal excepts.                                *)
THEOREM LinkAlertsAreReal == Spec => []AlertsAreReal
<1>1. LinkProven => AlertsAreReal
  BY DEF LinkProven, AlertInv
<1> QED BY <1>1, LinkIsInductive, PTL

(* The excuses the theorems above allow are due to commands, crashes and     *)
(* sensors that are not in the table, and to nothing else.                   *)
THEOREM LinkNeedsNoExcuse == Spec => []Undisturbed
<1>1. LinkProven => Undisturbed
  BY DEF LinkProven, Calm, Undisturbed
<1> QED BY <1>1, LinkIsInductive, PTL
=============================================================================
