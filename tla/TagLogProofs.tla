----------------------------- MODULE TagLogProofs -----------------------------
(***************************************************************************)
(* For any sensors, time zone, season and calendar and any number of groups *)
(* of tags, uploads and failing files: the bytes of a SOR say the time it   *)
(* was asked for, and the tags that both threads append to the two files   *)
(* are read with the right sensor and the right time, but for what          *)
(* RightSensor and RightTime name.                                          *)
(***************************************************************************)
EXTENDS TagLog, TLAPS

LEMMA DateBytes ==
    ASSUME NEW time \in StructTm, NEW off \in -12..14
    PROVE  /\ Day(Stamp(time, off)) = time.mday
           /\ Month(Stamp(time, off)) = time.mon + 1
           /\ Year(Stamp(time, off)) = time.year - 100
<1> DEFINE d == time.mday
<1> DEFINE m == time.mon + 1
<1> DEFINE y == time.year - 100
<1> DEFINE s == Sign(off)
<1>1. d \in 1..31 /\ m \in 1..12 /\ y \in 0..63 /\ s \in 0..1
  BY SMT DEF StructTm, Sign
<1> HIDE DEF d, m, y, s
<1>2. (8 * d) % 256 = 8 * d /\ y % 64 = y
  BY SMT, <1>1
<1>3. m \div 2 \in 0..6 /\ m % 2 \in 0..1 /\ m = 2 * (m \div 2) + (m % 2)
  BY SMT, <1>1
<1>4. (8 * d + (m \div 2)) \div 8 = d /\ (8 * d + (m \div 2)) % 8 = m \div 2
  BY SMT, <1>1, <1>3
<1>5. (128 * (m % 2) + 2 * y + s) \div 128 = m % 2
  BY SMT, <1>1, <1>3
<1>6. ((128 * (m % 2) + 2 * y + s) \div 2) % 64 = y
  BY SMT, <1>1, <1>3
<1> QED
  BY SMT, <1>2, <1>3, <1>4, <1>5, <1>6 DEF d, m, y, s, Stamp, Day, Month, Year

LEMMA TimeBytes ==
    ASSUME NEW time \in StructTm, NEW off \in -12..14
    PROVE  /\ Tenths(Stamp(time, off)) = 10 * time.sec
           /\ Fuse(Stamp(time, off)) = off
<1> DEFINE t == 10 * time.sec
<1> DEFINE n == off % 16
<1> DEFINE s == Sign(off)
<1> DEFINE r == 128 * ((time.mon + 1) % 2) + 2 * ((time.year - 100) % 64)
<1> DEFINE h == 64 * ((time.mon + 1) % 2) + ((time.year - 100) % 64)
<1>1. t \in Nat /\ t < 864000 /\ n \in 0..15 /\ s \in 0..1 /\ off = n - 16 * s
  BY SMT DEF StructTm, Sign
<1>2. r = 2 * h /\ h \in Int
  BY SMT DEF StructTm
<1> HIDE DEF t, n, s, r, h
<1>3. /\ t \div 65536 \in 0..13 /\ (t \div 65536) % 16 = t \div 65536
      /\ t = 65536 * (t \div 65536) + 256 * ((t \div 256) % 256) + (t % 256)
  BY SMT, <1>1
<1>4. (16 * n + (t \div 65536)) \div 16 = n /\ (16 * n + (t \div 65536)) % 16 = t \div 65536
  BY SMT, <1>1, <1>3
<1>5. (r + s) % 2 = s
  BY SMT, <1>1, <1>2
<1> QED
  BY SMT, <1>1, <1>3, <1>4, <1>5 DEF t, n, s, r, Stamp, Tenths, Fuse

(* Tag_SOR: what it packs into the bytes can be read back as the comment     *)
(* above it says, for every date of 64 years and every time zone.            *)
THEOREM StampSaysTime ==
    ASSUME NEW time \in StructTm, NEW off \in -12..14
    PROVE  Says(Stamp(time, off), time, off)
BY SMT, DateBytes, TimeBytes DEF Says

-----------------------------------------------------------------------------
(* What a thread may have to write, and in which order.                      *)
Events == {"SENSORFAILURE", "DOWNLOAD_STARTED", "DOWNLOAD_FAILED", "STORAGE_CLEARED"}
CallSet ==
    {SOR(hour) : hour \in Hour \cup {Now}}
    \cup {Of(tag, s) : tag \in {"CURRENTSENSOR", "SAMPLE_TIME_CHANGED"}, s \in Sensor}
    \cup {Taken("MEASURE", s, hour) : s \in Sensor, hour \in Hour}
    \cup {[tag |-> tag] : tag \in Events}

OfSensor(c) == c.tag \in {"MEASURE", "SAMPLE_TIME_CHANGED"}
HasHour(c) == "hour" \in DOMAIN c

(* A tag with an hour follows the SOR of that hour, and one without follows  *)
(* a SOR of its own time, or a tag that does.                                *)
FollowsSOR(a, b) ==
    b.tag # "SOR" =>
        IF a.tag = "SOR" THEN a.hour = IF HasHour(b) THEN b.hour ELSE Now
                         ELSE ~HasHour(a) /\ ~HasHour(b)

GroupOk(q) ==
    /\ q \in Seq(CallSet)
    /\ \A i \in 1..Len(q) : \A j \in 1..Len(q) :
         /\ j = i + 1 => FollowsSOR(q[i], q[j])
         /\ i < j /\ q[i].tag = "CURRENTSENSOR" /\ OfSensor(q[j]) => q[i].sensor = q[j].sensor

(* No measure of a new group is written before its CURRENTSENSOR.            *)
NewGroup(q) ==
    /\ GroupOk(q) /\ q # <<>> /\ Head(q).tag = "SOR"
    /\ \A i \in 1..Len(q) :
         OfSensor(q[i]) => \E k \in 1..Len(q) : k < i /\ q[k].tag = "CURRENTSENSOR"

-----------------------------------------------------------------------------
(* The struct tm has been set by localtime, gmtime, or mktime after one of   *)
(* them; a thread that is alone in Tag_SOR finds in it what it put there.    *)
TmOk ==
    \E hour \in Hour : tm \in {Local(hour), GMT(hour), Local(hour - zone)}

AloneOk ==
    \A t \in Thread : alone[t] =>
        \/ pc[t] = "local" /\ tm = Local(raw[t])
        \/ pc[t] = "utc" /\ tm = GMT(raw[t]) /\ fuse[t] = raw[t]
        \/ pc[t] = "fields" /\ tm = Local(raw[t] - zone) /\ fuse[t] = zone

CallsOk ==
    /\ calls \in [Thread -> Seq(CallSet)] /\ begun \in [Thread -> Hour]
    /\ fuse \in [Thread -> Int] /\ DOMAIN groups = Thread /\ DOMAIN data = Thread
    /\ \A t \in Thread : GroupOk(calls[t]) /\ begun[t] <= now

(* In Tag_SOR a thread has the time that it was asked for, and what it packs *)
(* says that time, as far as RightTime has it.                               *)
AskedFor(t, hour) ==
    IF Call(t).hour = Now THEN hour \in begun[t]..now ELSE hour = Call(t).hour
SaysTime(d) == d.alone /\ Dst(d.raw - zone) = 0 => Says(d.bytes, Calendar[d.raw], zone)

SOROk(t) ==
    /\ pc[t] # "call" => calls[t] # <<>>
    /\ pc[t] \in {"local", "utc", "fields"} => Call(t).tag = "SOR" /\ AskedFor(t, raw[t])
    /\ pc[t] = "write" => Call(t).tag = "SOR"
    /\ pc[t] \in {"write", "append"} /\ Call(t).tag = "SOR" =>
         AskedFor(t, data[t].raw) /\ SaysTime(data[t])
InSOR == \A t \in Thread : SOROk(t)

(* The file a thread has chosen is the one all choose, unless it is marked.  *)
PathOk ==
    \A t \in Thread :
        /\ pc[t] = "append" => path[t] \in {"sample", "ram", "orphan"}
        /\ pc[t] = "append" /\ "path" \notin apart[t] => path[t] = Chosen
        /\ "path" \in apart[t] => {"SOR", "CURRENTSENSOR"} \subseteq apart[t]

TagTypes == TypeOK /\ TmOk /\ CallsOk /\ InSOR /\ AloneOk /\ PathOk

-----------------------------------------------------------------------------
(* A file grows at its end, and among its entries with a tag there is a last *)
(* one, of all and of a thread.                                              *)
SeqOk(q) ==
    /\ Len(q) \in Nat /\ q \in Seq({q[i] : i \in 1..Len(q)})
    /\ \A i \in 1..Len(q) : \E j \in 1..Len(q) :
         Tag(q, j) = Tag(q, i) /\ \A k \in (j + 1)..Len(q) : Tag(q, k) # Tag(q, i)

LastBy(q, t, j, tag) ==
    /\ Tag(q, j) = tag /\ q[j].by = t
    /\ \A k \in (j + 1)..Len(q) : Tag(q, k) = tag => q[k].by # t

ReadsSensor(q, i) ==
    OfSensor(q[i].call) /\ "CURRENTSENSOR" \notin q[i].apart =>
        \E j \in ReadAfter(q, i, "CURRENTSENSOR") :
            q[j].by = q[i].by => q[j].call.sensor = q[i].call.sensor
ReadsTime(q, i) ==
    Tag(q, i) # "SOR" /\ "SOR" \notin q[i].apart =>
        \E j \in ReadAfter(q, i, "SOR") :
            q[j].by = q[i].by => q[j].sor.raw \in q[i].at /\ SaysTime(q[j].sor)
SORSays(q, i) == Tag(q, i) = "SOR" => SaysTime(q[i].sor)

FileOk(q) ==
    /\ SeqOk(q)
    /\ \A i \in 1..Len(q) : ReadsSensor(q, i) /\ ReadsTime(q, i) /\ SORSays(q, i)
FilesOk == DOMAIN file = {"sample", "ram"} /\ FileOk(file["sample"]) /\ FileOk(file["ram"])

(* The last CURRENTSENSOR, or SOR, of thread t in the file q is this one.     *)
HasSensor(q, t, s) ==
    \E j \in 1..Len(q) : LastBy(q, t, j, "CURRENTSENSOR") /\ q[j].call.sensor = s
HasTime(q, t, hours) ==
    \E j \in 1..Len(q) : LastBy(q, t, j, "SOR") /\ q[j].sor.raw \in hours

(* The CURRENTSENSOR of the measures a thread has still to write is its last. *)
SensorGiven ==
    \A t \in Thread : \A i \in 1..Len(calls[t]) :
        /\ OfSensor(calls[t][i]) /\ \A k \in 1..(i - 1) : calls[t][k].tag # "CURRENTSENSOR"
        /\ "CURRENTSENSOR" \notin apart[t]
        => HasSensor(file[Chosen], t, calls[t][i].sensor)

(* The SOR of the tag a thread writes next is its last.                      *)
Times(t) == IF HasHour(Call(t)) THEN {Call(t).hour} ELSE begun[t]..now
TimeGiven ==
    \A t \in Thread : calls[t] # <<>> /\ Call(t).tag # "SOR" /\ "SOR" \notin apart[t] =>
        HasTime(file[Chosen], t, Times(t))

TagProven == TagTypes /\ FilesOk /\ SensorGiven /\ TimeGiven

-----------------------------------------------------------------------------
(* The constants, as the proofs use them. *)
LEMMA HoursHaveDates ==
    /\ MaxHour \in Nat /\ Zone \subseteq -12..12 /\ Now \notin Hour
    /\ MaxGroups \in [Thread -> Nat] /\ MaxUploads \in Nat /\ MaxFails \in Nat /\ MaxLines \in Nat
    /\ Hour = 0..MaxHour
    /\ \A z \in Zone, hour \in Hour :
         /\ {hour, hour + 1, hour + z, hour + z + 1} \subseteq DOMAIN Calendar
         /\ Calendar[hour] \in StructTm
<1>1. MaxHour \in Nat /\ Zone \subseteq -12..12 /\ Now \notin Hour /\ Hour = 0..MaxHour
  BY TagLogAssumption DEF Hour, Now
<1>2. ASSUME NEW z \in Zone, NEW hour \in Hour
      PROVE  {hour, hour + 1, hour + z, hour + z + 1} \subseteq DOMAIN Calendar
  <2>1. z \in Int /\ hour \in Int /\ 0 <= hour /\ hour <= MaxHour
    BY <1>1
  <2>2. {hour, hour + 1} \subseteq 0..(MaxHour + 1) /\ {hour + z, hour + z + 1} \subseteq z..(MaxHour + z + 1)
    BY <1>1, <2>1
  <2> QED BY <2>2, TagLogAssumption
<1> QED BY <1>1, <1>2, TagLogAssumption

(* The parts of a call. *)
LEMMA CallFacts ==
    ASSUME NEW c \in CallSet
    PROVE  /\ c.tag = "SOR" => c.hour \in Hour \cup {Now}
           /\ HasHour(c) => c.hour \in Hour \cup {Now}
           /\ HasHour(c) /\ c.tag # "SOR" => c.hour \in Hour
           /\ OfSensor(c) \/ c.tag = "CURRENTSENSOR" => c.sensor \in Sensor
           /\ c.tag = "CURRENTSENSOR" => ~OfSensor(c)
           /\ c.tag \in Kind
<1> USE DEF Kind
<1>1. CASE c \in {SOR(hour) : hour \in Hour \cup {Now}}
  BY <1>1 DEF SOR, OfSensor
<1>2. CASE c \in {Of(tag, s) : tag \in {"CURRENTSENSOR", "SAMPLE_TIME_CHANGED"}, s \in Sensor}
  BY <1>2 DEF Of, OfSensor, HasHour
<1>3. CASE c \in {Taken("MEASURE", s, hour) : s \in Sensor, hour \in Hour}
  BY <1>3 DEF Taken, OfSensor
<1>4. CASE c \in {[tag |-> tag] : tag \in Events}
  BY <1>4 DEF Events, OfSensor, HasHour
<1> QED BY <1>1, <1>2, <1>3, <1>4 DEF CallSet

(* The groups of tags the threads begin. *)
LEMMA SampleIsGroup ==
    ASSUME NEW s \in Sensor, NEW hour \in Hour
    PROVE  NewGroup(Sample(s, hour))
<1> DEFINE q == Sample(s, hour)
<1>1. Now \notin Hour
  BY HoursHaveDates
<1>2. SOR(Now) \in CallSet /\ Of("CURRENTSENSOR", s) \in CallSet /\ SOR(hour) \in CallSet
      /\ Taken("MEASURE", s, hour) \in CallSet
  BY DEF CallSet
<1>3. /\ q \in Seq(CallSet) /\ Len(q) = 4 /\ q # <<>> /\ Head(q) = SOR(Now)
      /\ q[1] = SOR(Now) /\ q[2] = Of("CURRENTSENSOR", s) /\ q[3] = SOR(hour) /\ q[4] = Taken("MEASURE", s, hour)
  BY <1>2 DEF Sample
<1> HIDE DEF q
<1>4. /\ q[1].tag = "SOR" /\ q[1].hour = Now
      /\ q[2].tag = "CURRENTSENSOR" /\ q[2].sensor = s /\ ~HasHour(q[2])
      /\ q[3].tag = "SOR" /\ q[3].hour = hour
      /\ q[4].tag = "MEASURE" /\ q[4].sensor = s /\ HasHour(q[4]) /\ q[4].hour = hour
  BY <1>3 DEF SOR, Of, Taken, HasHour
<1>5. 1..Len(q) = {1, 2, 3, 4}
  BY <1>3
<1>6. \A i \in 1..Len(q) : \A j \in 1..Len(q) : j = i + 1 => FollowsSOR(q[i], q[j])
  BY <1>4, <1>5 DEF FollowsSOR
<1>7. \A i \in 1..Len(q) : \A j \in 1..Len(q) :
         q[i].tag = "CURRENTSENSOR" /\ OfSensor(q[j]) => q[i].sensor = q[j].sensor
  BY <1>4, <1>5 DEF OfSensor
<1>8. \A i \in 1..Len(q) :
         OfSensor(q[i]) => \E k \in 1..Len(q) : k < i /\ q[k].tag = "CURRENTSENSOR"
  BY <1>4, <1>5 DEF OfSensor
<1>9. NewGroup(q)
  BY <1>3, <1>4, <1>6, <1>7, <1>8 DEF NewGroup, GroupOk
<1> QED BY <1>9 DEF q

LEMMA PeriodIsGroup ==
    ASSUME NEW s \in Sensor
    PROVE  NewGroup(Period(s))
<1> DEFINE q == Period(s)
<1>2. SOR(Now) \in CallSet /\ Of("CURRENTSENSOR", s) \in CallSet /\ Of("SAMPLE_TIME_CHANGED", s) \in CallSet
  BY DEF CallSet
<1>3. /\ q \in Seq(CallSet) /\ Len(q) = 3 /\ q # <<>> /\ Head(q) = SOR(Now)
      /\ q[1] = SOR(Now) /\ q[2] = Of("CURRENTSENSOR", s) /\ q[3] = Of("SAMPLE_TIME_CHANGED", s)
  BY <1>2 DEF Period
<1> HIDE DEF q
<1>4. /\ q[1].tag = "SOR" /\ q[1].hour = Now
      /\ q[2].tag = "CURRENTSENSOR" /\ q[2].sensor = s /\ ~HasHour(q[2])
      /\ q[3].tag = "SAMPLE_TIME_CHANGED" /\ q[3].sensor = s /\ ~HasHour(q[3])
  BY <1>3 DEF SOR, Of, HasHour
<1>5. 1..Len(q) = {1, 2, 3}
  BY <1>3
<1>6. \A i \in 1..Len(q) : \A j \in 1..Len(q) : j = i + 1 => FollowsSOR(q[i], q[j])
  BY <1>4, <1>5 DEF FollowsSOR
<1>7. \A i \in 1..Len(q) : \A j \in 1..Len(q) :
         q[i].tag = "CURRENTSENSOR" /\ OfSensor(q[j]) => q[i].sensor = q[j].sensor
  BY <1>4, <1>5 DEF OfSensor
<1>8. \A i \in 1..Len(q) :
         OfSensor(q[i]) => \E k \in 1..Len(q) : k < i /\ q[k].tag = "CURRENTSENSOR"
  BY <1>4, <1>5 DEF OfSensor
<1>9. NewGroup(q)
  BY <1>3, <1>4, <1>6, <1>7, <1>8 DEF NewGroup, GroupOk
<1> QED BY <1>9 DEF q

LEMMA EventIsGroup ==
    ASSUME NEW tag \in Events
    PROVE  NewGroup(Event(tag))
<1> DEFINE q == Event(tag)
<1>2. SOR(Now) \in CallSet /\ [tag |-> tag] \in CallSet
  BY DEF CallSet
<1>3. /\ q \in Seq(CallSet) /\ Len(q) = 2 /\ q # <<>> /\ Head(q) = SOR(Now)
      /\ q[1] = SOR(Now) /\ q[2] = [tag |-> tag]
  BY <1>2 DEF Event
<1> HIDE DEF q
<1>4. /\ q[1].tag = "SOR" /\ q[1].hour = Now /\ q[2].tag = tag /\ ~HasHour(q[2])
  BY <1>3 DEF SOR, HasHour
<1>5. 1..Len(q) = {1, 2}
  BY <1>3
<1>6. NewGroup(q)
  BY <1>3, <1>4, <1>5 DEF NewGroup, GroupOk, FollowsSOR, OfSensor, Events
<1> QED BY <1>6 DEF q

(* What is left of a group when its first call is done. *)
LEMMA GroupTail ==
    ASSUME NEW q, GroupOk(q), q # <<>>
    PROVE  /\ GroupOk(Tail(q)) /\ Len(q) \in Nat \ {0} /\ Len(Tail(q)) = Len(q) - 1
           /\ Head(q) = q[1] /\ Head(q) \in CallSet /\ 1 \in 1..Len(q)
           /\ \A i \in 1..Len(Tail(q)) : i + 1 \in 1..Len(q) /\ Tail(q)[i] = q[i + 1]
<1>1. q \in Seq(CallSet)
  BY DEF GroupOk
<1>2. /\ Tail(q) \in Seq(CallSet) /\ Len(q) \in Nat \ {0} /\ Len(Tail(q)) = Len(q) - 1
      /\ Head(q) = q[1] /\ Head(q) \in CallSet /\ 1 \in 1..Len(q)
      /\ \A i \in 1..Len(Tail(q)) : i + 1 \in 1..Len(q) /\ Tail(q)[i] = q[i + 1]
  BY <1>1
<1>3. GroupOk(Tail(q))
  <2> SUFFICES ASSUME NEW i \in 1..Len(Tail(q)), NEW j \in 1..Len(Tail(q))
               PROVE  /\ j = i + 1 => FollowsSOR(Tail(q)[i], Tail(q)[j])
                      /\ i < j /\ Tail(q)[i].tag = "CURRENTSENSOR" /\ OfSensor(Tail(q)[j])
                           => Tail(q)[i].sensor = Tail(q)[j].sensor
    BY <1>2 DEF GroupOk
  <2>1. Tail(q)[i] = q[i + 1] /\ Tail(q)[j] = q[j + 1] /\ i + 1 \in 1..Len(q) /\ j + 1 \in 1..Len(q)
    BY <1>2
  <2>2. (j = i + 1 => j + 1 = (i + 1) + 1) /\ (i < j => i + 1 < j + 1)
    OBVIOUS
  <2> QED BY <2>1, <2>2 DEF GroupOk
<1> QED BY <1>2, <1>3

-----------------------------------------------------------------------------
(* What mktime makes of the struct tm. *)
LEMMA MkTimeReturns ==
    ASSUME TypeOK, TmOk
    PROVE  /\ zone \in Int /\ MkTime \in Int
           /\ \E hour \in Hour : MkTime \in {hour, hour - zone}
           /\ \A hour \in Int : tm = Local(hour) => MkTime = hour
           /\ \A hour \in Int : tm = GMT(hour) => MkTime = hour - zone
<1>1. zone \in Int /\ \A hour : Dst(hour) \in 0..1 /\ (IF hour \in summer THEN 1 ELSE 0) = Dst(hour)
  BY HoursHaveDates DEF TypeOK, Dst
<1>2. ASSUME NEW hour \in Int, tm = Local(hour)
      PROVE  MkTime = hour
  <2>1. tm.hour = hour + zone + Dst(hour) /\ tm.isdst = (hour \in summer)
    BY <1>2 DEF Local
  <2>2. (IF tm.isdst THEN 1 ELSE 0) = Dst(hour)
    BY <1>1, <2>1
  <2> QED BY <1>1, <2>1, <2>2 DEF MkTime
<1>3. \A hour \in Int : tm = GMT(hour) => MkTime = hour - zone
  BY <1>1 DEF GMT, MkTime
<1>4. PICK hour \in Hour : tm \in {Local(hour), GMT(hour), Local(hour - zone)}
  BY DEF TmOk
<1>5. hour \in Int /\ hour - zone \in Int
  BY <1>1, HoursHaveDates
<1>6. MkTime \in {hour, hour - zone}
  BY <1>2, <1>3, <1>4, <1>5
<1> QED BY <1>1, <1>2, <1>3, <1>4, <1>5, <1>6

LEMMA TmHasDate ==
    ASSUME zone \in Zone, NEW hour \in Hour, NEW new \in {Local(hour), GMT(hour), Local(hour - zone)}
    PROVE  new.hour \in DOMAIN Calendar
<1>2. {hour, hour + 1, hour + zone, hour + zone + 1} \subseteq DOMAIN Calendar /\ hour \in Int /\ zone \in Int
  BY HoursHaveDates
<1>3. \A h : Dst(h) \in {0, 1}
  BY DEF Dst
<1>4. CASE new = Local(hour)
  BY <1>2, <1>3, <1>4 DEF Local
<1>5. CASE new = GMT(hour)
  BY <1>2, <1>5 DEF GMT
<1>6. CASE new = Local(hour - zone)
  <2>1. new.hour = hour + Dst(hour - zone)
    BY <1>2, <1>3, <1>6 DEF Local
  <2> QED BY <1>2, <1>3, <2>1
<1> QED BY <1>4, <1>5, <1>6

-----------------------------------------------------------------------------
(* An entry that is appended to a file. *)
LEMMA FileGrows ==
    ASSUME NEW q, SeqOk(q), NEW e
    PROVE  /\ SeqOk(Append(q, e)) /\ Len(q) \in Nat /\ Len(Append(q, e)) = Len(q) + 1
           /\ \A i \in 1..Len(q) : Append(q, e)[i] = q[i]
           /\ Append(q, e)[Len(q) + 1] = e
<1>0. PICK n : n = Len(q)
  OBVIOUS
<1> DEFINE S == {q[i] : i \in 1..n}
<1>1. n \in Nat /\ q \in Seq(S \cup {e}) /\ e \in S \cup {e}
  BY <1>0 DEF SeqOk
<1> HIDE DEF S
<1>r. PICK r : r = Append(q, e)
  OBVIOUS
<1>2. /\ Len(r) = n + 1 /\ \A i \in 1..n : r[i] = q[i]
      /\ r[n + 1] = e /\ r \in Seq(S \cup {e})
  BY <1>0, <1>1, <1>r
<1>3. r \in Seq({r[i] : i \in 1..Len(r)})
  BY <1>1, <1>2
<1>4. ASSUME NEW i \in 1..(n + 1)
      PROVE  \E j \in 1..(n + 1) : Tag(r, j) = Tag(r, i) /\ \A k \in (j + 1)..(n + 1) : Tag(r, k) # Tag(r, i)
  <2>1. CASE Tag(r, n + 1) = Tag(r, i)
    BY <1>1, <2>1
  <2>2. CASE Tag(r, n + 1) # Tag(r, i)
    <3>1. i \in 1..n
      BY <1>1, <2>2
    <3>2. PICK j \in 1..n : Tag(q, j) = Tag(q, i) /\ \A k \in (j + 1)..n : Tag(q, k) # Tag(q, i)
      BY <1>0, <3>1 DEF SeqOk
    <3>3. \A k \in 1..n : Tag(r, k) = Tag(q, k)
      BY <1>2 DEF Tag
    <3>4. \A k \in (j + 1)..(n + 1) : Tag(r, k) # Tag(r, i)
      BY <1>1, <2>2, <3>1, <3>2, <3>3
    <3> QED BY <1>1, <3>1, <3>2, <3>3, <3>4
  <2> QED BY <2>1, <2>2
<1>5. SeqOk(r)
  BY <1>1, <1>2, <1>3, <1>4 DEF SeqOk
<1> QED BY <1>0, <1>1, <1>r, <1>2, <1>5

(* What was read before is read the same when the file has grown. *)
LEMMA ReadsTheSame ==
    ASSUME NEW q, SeqOk(q), NEW e, NEW i \in 1..(Len(q) + 1), NEW tag
    PROVE  ReadAfter(Append(q, e), i, tag) = ReadAfter(q, i, tag)
<1>1. Len(q) \in Nat /\ \A k \in 1..Len(q) : Append(q, e)[k] = q[k]
  BY FileGrows
<1>2. \A k \in 1..(i - 1) : Tag(Append(q, e), k) = Tag(q, k)
  BY <1>1 DEF Tag
<1> QED BY <1>1, <1>2 DEF ReadAfter

(* A reader finds the last tag of a kind, which is the writer's own or the   *)
(* other thread's.                                                           *)
LEMMA ReaderFinds ==
    ASSUME NEW q, SeqOk(q), NEW u, NEW tag, NEW own \in 1..Len(q), LastBy(q, u, own, tag)
    PROVE  \E j \in ReadAfter(q, Len(q) + 1, tag) : j \in 1..Len(q) /\ (q[j].by = u => j = own)
<1>1. PICK j \in 1..Len(q) : Tag(q, j) = tag /\ \A k \in (j + 1)..Len(q) : Tag(q, k) # tag
  BY DEF SeqOk, LastBy
<1>2. Len(q) \in Nat
  BY DEF SeqOk
<1>3. j \in ReadAfter(q, Len(q) + 1, tag)
  BY <1>1, <1>2 DEF ReadAfter
<1>4. own <= j
  BY <1>1, <1>2 DEF LastBy
<1>5. q[j].by = u => j = own
  BY <1>1, <1>2, <1>4 DEF LastBy
<1> QED BY <1>1, <1>3, <1>5

(* The last of a thread's tags stays so until it writes another, which is    *)
(* its last then.                                                            *)
LEMMA LastByKept ==
    ASSUME NEW q, SeqOk(q), NEW e, NEW u, NEW tag, e.by # u \/ e.call.tag # tag,
           NEW j \in 1..Len(q), LastBy(q, u, j, tag)
    PROVE  /\ j \in 1..Len(Append(q, e)) /\ LastBy(Append(q, e), u, j, tag)
           /\ Append(q, e)[j] = q[j]
<1> DEFINE r == Append(q, e)
<1>2. /\ Len(q) \in Nat /\ Len(r) = Len(q) + 1 /\ r[Len(q) + 1] = e
      /\ \A i \in 1..Len(q) : r[i] = q[i]
  BY FileGrows
<1> HIDE DEF r
<1>3. \A k \in (j + 1)..(Len(q) + 1) : r[k].call.tag = tag => r[k].by # u
  <2> TAKE k \in (j + 1)..(Len(q) + 1)
  <2>1. CASE k = Len(q) + 1
    BY <1>2, <2>1
  <2>2. CASE k \in (j + 1)..Len(q)
    BY <1>2, <2>2 DEF LastBy, Tag
  <2> QED BY <1>2, <2>1, <2>2
<1>4. j \in 1..Len(r) /\ LastBy(r, u, j, tag) /\ r[j] = q[j]
  BY <1>2, <1>3 DEF LastBy, Tag
<1> QED BY <1>4 DEF r

LEMMA LastByWriter ==
    ASSUME NEW q, SeqOk(q), NEW e
    PROVE  /\ Len(q) + 1 \in 1..Len(Append(q, e)) /\ Append(q, e)[Len(q) + 1] = e
           /\ LastBy(Append(q, e), e.by, Len(q) + 1, e.call.tag)
<1> DEFINE r == Append(q, e)
<1>1. Len(q) \in Nat /\ Len(r) = Len(q) + 1 /\ r[Len(q) + 1] = e
  BY FileGrows
<1> HIDE DEF r
<1>2. \A k \in ((Len(q) + 1) + 1)..Len(r) : FALSE
  BY <1>1
<1>3. Len(q) + 1 \in 1..Len(r) /\ r[Len(q) + 1] = e /\ LastBy(r, e.by, Len(q) + 1, e.call.tag)
  BY <1>1, <1>2 DEF LastBy, Tag
<1> QED BY <1>3 DEF r

(* What a new entry has to be read with is there: all of the file is read    *)
(* right.                                                                    *)
EntryOk(q, e) ==
    /\ e.call.tag = "SOR" => SaysTime(e.sor)
    /\ OfSensor(e.call) /\ "CURRENTSENSOR" \notin e.apart =>
         \E own \in 1..Len(q) :
             LastBy(q, e.by, own, "CURRENTSENSOR") /\ q[own].call.sensor = e.call.sensor
    /\ e.call.tag # "SOR" /\ "SOR" \notin e.apart =>
         \E own \in 1..Len(q) : LastBy(q, e.by, own, "SOR") /\ q[own].sor.raw \in e.at

LEMMA AppendOk ==
    ASSUME NEW q, FileOk(q), NEW e, EntryOk(q, e)
    PROVE  FileOk(Append(q, e))
<1>0. SeqOk(q)
  BY DEF FileOk
<1>r. PICK r : r = Append(q, e)
  OBVIOUS
<1>1. /\ SeqOk(r) /\ Len(q) \in Nat /\ Len(r) = Len(q) + 1 /\ r[Len(q) + 1] = e
      /\ \A i \in 1..Len(q) : r[i] = q[i]
  BY <1>0, <1>r, FileGrows
<1>2. \A i \in 1..(Len(q) + 1) : \A tag : ReadAfter(r, i, tag) = ReadAfter(q, i, tag)
  BY <1>0, <1>r, ReadsTheSame
<1>3. ASSUME NEW i \in 1..Len(q)
      PROVE  ReadsSensor(r, i) /\ ReadsTime(r, i) /\ SORSays(r, i)
  <2>1. ReadsSensor(q, i) /\ ReadsTime(q, i) /\ SORSays(q, i)
    BY DEF FileOk
  <2>2. i \in 1..(Len(q) + 1) /\ r[i] = q[i] /\ \A tag : ReadAfter(q, i, tag) \subseteq 1..Len(q)
    BY <1>1 DEF ReadAfter
  <2>3. \A tag : ReadAfter(r, i, tag) = ReadAfter(q, i, tag)
    BY <1>2, <2>2
  <2>4. \A tag : \A j \in ReadAfter(r, i, tag) : r[j] = q[j]
    BY <1>1, <2>2, <2>3
  <2>5. ReadsSensor(r, i)
    BY <2>1, <2>2, <2>3, <2>4 DEF ReadsSensor
  <2>6. ReadsTime(r, i)
    BY <2>1, <2>2, <2>3, <2>4 DEF ReadsTime, Tag
  <2>7. SORSays(r, i)
    BY <2>1, <2>2 DEF SORSays, Tag
  <2> QED BY <2>5, <2>6, <2>7
<1>4. PICK n : n = Len(q) + 1
  OBVIOUS
<1>5. r[n] = e /\ \A tag : ReadAfter(r, n, tag) = ReadAfter(q, Len(q) + 1, tag)
  BY <1>1, <1>2, <1>4
<1>6. ReadsSensor(r, n)
  <2> SUFFICES ASSUME OfSensor(e.call), "CURRENTSENSOR" \notin e.apart
               PROVE  \E j \in ReadAfter(r, n, "CURRENTSENSOR") :
                        r[j].by = e.by => r[j].call.sensor = e.call.sensor
    BY <1>5 DEF ReadsSensor
  <2>1. PICK own \in 1..Len(q) :
          LastBy(q, e.by, own, "CURRENTSENSOR") /\ q[own].call.sensor = e.call.sensor
    BY DEF EntryOk
  <2>2. PICK j \in ReadAfter(q, Len(q) + 1, "CURRENTSENSOR") :
          j \in 1..Len(q) /\ (q[j].by = e.by => j = own)
    BY <1>0, <2>1, ReaderFinds
  <2> QED BY <1>1, <1>5, <2>1, <2>2
<1>7. ReadsTime(r, n)
  <2> SUFFICES ASSUME e.call.tag # "SOR", "SOR" \notin e.apart
               PROVE  \E j \in ReadAfter(r, n, "SOR") :
                        r[j].by = e.by => r[j].sor.raw \in e.at /\ SaysTime(r[j].sor)
    BY <1>5 DEF ReadsTime, Tag
  <2>1. PICK own \in 1..Len(q) : LastBy(q, e.by, own, "SOR") /\ q[own].sor.raw \in e.at
    BY DEF EntryOk
  <2>2. PICK j \in ReadAfter(q, Len(q) + 1, "SOR") : j \in 1..Len(q) /\ (q[j].by = e.by => j = own)
    BY <1>0, <2>1, ReaderFinds
  <2>3. SaysTime(q[own].sor)
    BY <2>1 DEF FileOk, SORSays, LastBy
  <2> QED BY <1>1, <1>5, <2>1, <2>2, <2>3
<1>8. SORSays(r, n)
  BY <1>5 DEF SORSays, Tag, EntryOk
<1>9. \A i \in 1..Len(r) : i \in 1..Len(q) \/ i = n
  BY <1>1, <1>4
<1> QED BY <1>r, <1>1, <1>3, <1>6, <1>7, <1>8, <1>9 DEF FileOk

(* Two files that are read right are when one is appended to the other. *)
LEMMA JoinOk ==
    ASSUME NEW q, FileOk(q), NEW p, FileOk(p)
    PROVE  FileOk(q \o p)
<1>0. PICK m, n, r : m = Len(q) /\ n = Len(p) /\ r = q \o p
  OBVIOUS
<1> DEFINE S == {q[i] : i \in 1..m} \cup {p[i] : i \in 1..n}
<1>1. m \in Nat /\ n \in Nat /\ q \in Seq(S) /\ p \in Seq(S)
  BY <1>0 DEF FileOk, SeqOk
<1> HIDE DEF S
<1>2. /\ r \in Seq(S) /\ Len(r) = m + n
      /\ \A i \in 1..m : r[i] = q[i]
      /\ \A i \in 1..n : r[m + i] = p[i]
  BY <1>0, <1>1
<1>3. \A i \in 1..(m + n) : i \in 1..m \/ \E k \in 1..n : i = m + k
  <2> TAKE i \in 1..(m + n)
  <2>1. CASE i > m
    <3>1. i - m \in 1..n /\ i = m + (i - m)
      BY <1>1, <2>1
    <3> QED BY <3>1
  <2> QED BY <1>1, <2>1
<1>4. /\ \A i \in 1..m : i \in 1..(m + n) /\ Tag(r, i) = Tag(q, i)
      /\ \A i \in 1..n : m + i \in 1..(m + n) /\ Tag(r, m + i) = Tag(p, i)
  BY <1>1, <1>2 DEF Tag
<1>5. ASSUME NEW i \in 1..m, NEW tag, NEW j \in ReadAfter(q, i, tag)
      PROVE  j \in ReadAfter(r, i, tag) /\ r[j] = q[j]
  <2>1. j \in 1..m /\ \A k \in 1..(i - 1) : k \in 1..m
    BY <1>1 DEF ReadAfter
  <2>2. \A k \in 1..(i - 1) : Tag(r, k) = Tag(q, k)
    BY <1>4, <2>1
  <2>3. j \in 1..(i - 1) /\ \A k \in (j + 1)..(i - 1) : k \in 1..(i - 1)
    BY <1>1, <2>1 DEF ReadAfter
  <2> QED BY <1>2, <2>1, <2>2, <2>3 DEF ReadAfter
<1>6. ASSUME NEW i \in 1..n, NEW tag, NEW j \in ReadAfter(p, i, tag)
      PROVE  m + j \in ReadAfter(r, m + i, tag) /\ r[m + j] = p[j]
  <2>1. j \in 1..n /\ j \in 1..(i - 1) /\ Tag(p, j) = tag
    BY <1>1 DEF ReadAfter
  <2>2. m + j \in 1..((m + i) - 1) /\ Tag(r, m + j) = tag
    BY <1>1, <1>4, <2>1
  <2>3. ASSUME NEW k \in ((m + j) + 1)..((m + i) - 1)
        PROVE  Tag(r, k) # tag
    <3>1. k - m \in (j + 1)..(i - 1) /\ k - m \in 1..n /\ m + (k - m) = k
      BY <1>1, <2>1
    <3>2. Tag(p, k - m) # tag /\ Tag(r, m + (k - m)) = Tag(p, k - m)
      BY <1>4, <3>1 DEF ReadAfter
    <3> QED BY <3>1, <3>2
  <2> QED BY <1>2, <2>1, <2>2, <2>3 DEF ReadAfter
<1>7. ASSUME NEW i \in 1..m
      PROVE  ReadsSensor(r, i) /\ ReadsTime(r, i) /\ SORSays(r, i)
  <2>1. ReadsSensor(q, i) /\ ReadsTime(q, i) /\ SORSays(q, i) /\ r[i] = q[i]
    BY <1>0, <1>2 DEF FileOk
  <2>2. ReadsSensor(r, i)
    BY <1>5, <2>1 DEF ReadsSensor
  <2>3. ReadsTime(r, i)
    BY <1>5, <2>1 DEF ReadsTime, Tag
  <2> QED BY <2>1, <2>2, <2>3 DEF SORSays, Tag
<1>8. ASSUME NEW i \in 1..n
      PROVE  ReadsSensor(r, m + i) /\ ReadsTime(r, m + i) /\ SORSays(r, m + i)
  <2>1. ReadsSensor(p, i) /\ ReadsTime(p, i) /\ SORSays(p, i) /\ r[m + i] = p[i]
    BY <1>0, <1>2 DEF FileOk
  <2>2. ReadsSensor(r, m + i)
    BY <1>6, <2>1 DEF ReadsSensor
  <2>3. ReadsTime(r, m + i)
    BY <1>6, <2>1 DEF ReadsTime, Tag
  <2> QED BY <2>1, <2>2, <2>3 DEF SORSays, Tag
<1>9. ASSUME NEW i \in 1..(m + n)
      PROVE  \E j \in 1..(m + n) : Tag(r, j) = Tag(r, i) /\ \A k \in (j + 1)..(m + n) : Tag(r, k) # Tag(r, i)
  <2> DEFINE tag == Tag(r, i)
  <2>1. CASE \E l \in 1..n : Tag(p, l) = tag
    <3>1. PICK j \in 1..n : Tag(p, j) = tag /\ \A k \in (j + 1)..n : Tag(p, k) # tag
      BY <1>0, <2>1 DEF FileOk, SeqOk
    <3>2. m + j \in 1..(m + n) /\ Tag(r, m + j) = tag
      BY <1>4, <3>1
    <3>3. ASSUME NEW k \in ((m + j) + 1)..(m + n)
          PROVE  Tag(r, k) # tag
      <4>1. k - m \in (j + 1)..n /\ k - m \in 1..n /\ m + (k - m) = k
        BY <1>1, <3>1
      <4>2. Tag(p, k - m) # tag /\ Tag(r, m + (k - m)) = Tag(p, k - m)
        BY <1>4, <3>1, <4>1
      <4> QED BY <4>1, <4>2
    <3> QED BY <3>2, <3>3
  <2>2. CASE \A l \in 1..n : Tag(p, l) # tag
    <3>1. i \in 1..m
      BY <1>3, <1>4, <2>2
    <3>2. PICK j \in 1..m : Tag(q, j) = tag /\ \A k \in (j + 1)..m : Tag(q, k) # tag
      BY <1>0, <1>4, <3>1 DEF FileOk, SeqOk
    <3>3. ASSUME NEW k \in (j + 1)..(m + n)
          PROVE  Tag(r, k) # tag
      <4>1. k \in 1..(m + n) /\ (k \in 1..m => k \in (j + 1)..m)
        BY <1>1
      <4> QED BY <1>3, <1>4, <2>2, <3>2, <4>1
    <3> QED BY <1>4, <3>2, <3>3
  <2> QED BY <2>1, <2>2
<1>10. SeqOk(r)
  <2>1. r \in Seq({r[i] : i \in 1..Len(r)})
    BY <1>1, <1>2
  <2> QED BY <1>1, <1>2, <1>9, <2>1 DEF SeqOk
<1>11. \A i \in 1..Len(r) : ReadsSensor(r, i) /\ ReadsTime(r, i) /\ SORSays(r, i)
  BY <1>2, <1>3, <1>7, <1>8
<1> QED BY <1>0, <1>10, <1>11 DEF FileOk

LEMMA EmptyOk == FileOk(<<>>)
<1>1. Len(<<>>) = 0 /\ <<>> \in Seq({<<>>[i] : i \in 1..Len(<<>>)})
  OBVIOUS
<1> QED BY <1>1 DEF FileOk, SeqOk

-----------------------------------------------------------------------------
(* The steps. *)

Begins(t, group) == NewGroup(group) /\ t \in Thread /\ calls[t] = <<>> /\ Starts(t, group)

(* A thread that begins to write begins one of the groups. *)
LEMMA BeginsGroup ==
    ASSUME TagTypes, BeginRiMMS \/ BeginComunication
    PROVE  \E t \in Thread : \E group : NewGroup(group) /\ Begin(t, group)
<1>1. \A hour \in 0..now : hour \in Hour
  BY HoursHaveDates DEF TagTypes, TypeOK
<1>2. CASE BeginRiMMS
  BY <1>1, <1>2, SampleIsGroup, PeriodIsGroup, EventIsGroup DEF BeginRiMMS, Thread, Events
<1>3. CASE BeginComunication
  BY <1>3, PeriodIsGroup DEF BeginComunication, Thread
<1> QED BY <1>2, <1>3

(* What GestFtp does to the files and to the tags. *)
Places == {"none", "sample", "ram", "orphan"}
LEMMA GestSteps ==
    ASSUME TypeOK, GestFtp
    PROVE  /\ UNCHANGED <<timeVars, tm, lines, groups, pc, sorVars, fails, alone>>
           /\ (\E group : Begins("comunication", group)) \/ UNCHANGED <<calls, begun>>
           /\ FilesChanged \/ (UNCHANGED <<file, flag, path, apart>> /\ \E group : Begins("comunication", group))
           /\ flag' \in BOOLEAN /\ gest' \in {"idle", "create", "unflag", "clear", "cat", "rm"}
           /\ uploads' \in 0..MaxUploads
           /\ path' \in [Thread -> Places] /\ \A t \in Thread : path'[t] \in {path[t], "orphan"}
           /\ DOMAIN file' = {"sample", "ram"} /\ file'["ram"] \in {file["ram"], <<>>}
           /\ file'["sample"] \in {file["sample"], <<>>, file["sample"] \o file["ram"]}
<1> USE DEF timeVars, sorVars, groupVars
<1>0. /\ "comunication" \in Thread /\ \A tag \in Events : NewGroup(Event(tag))
      /\ path \in [Thread -> Places] /\ DOMAIN file = {"sample", "ram"} /\ MaxUploads \in Nat
      /\ gest \in {"idle", "create", "unflag", "clear", "cat", "rm"} /\ uploads \in 0..MaxUploads
      /\ flag \in BOOLEAN
  BY EventIsGroup, HoursHaveDates DEF Thread, TypeOK, Places
<1>1. ASSUME NEW name, Removed(name)
      PROVE  path' \in [Thread -> Places] /\ \A t \in Thread : path'[t] \in {path[t], "orphan"}
  <2>1. PICK t \in Thread : path' = path \/ path' = [path EXCEPT ![t] = "orphan"]
    BY <1>1 DEF Removed
  <2> QED BY <1>0, <2>1 DEF Places
<1>2. CASE BeginUpload
  <2>1. Begins("comunication", Event("DOWNLOAD_STARTED"))
    BY <1>0, <1>2 DEF BeginUpload, Begins, In, Events
  <2> QED BY <1>0, <1>2, <2>1 DEF BeginUpload, FilesChanged
<1>3. CASE UploadFails
  <2>1. Begins("comunication", Event("DOWNLOAD_FAILED"))
    BY <1>0, <1>3 DEF UploadFails, Begins, In, Events
  <2> QED BY <1>0, <1>3, <2>1 DEF UploadFails
<1>4. CASE Uploaded
  <2>1. Begins("comunication", Event("STORAGE_CLEARED"))
    BY <1>0, <1>4 DEF Uploaded, Begins, In, Events
  <2>2. path' \in [Thread -> Places] /\ \A t \in Thread : path'[t] \in {path[t], "orphan"}
    BY <1>1, <1>4 DEF Uploaded
  <2> QED BY <1>0, <1>4, <2>1, <2>2 DEF Uploaded, FilesChanged
<1>5. CASE ClearFlag
  BY <1>0, <1>5 DEF ClearFlag, FilesChanged
<1>6. CASE Cat
  BY <1>0, <1>6 DEF Cat, FilesChanged
<1>7. CASE Rm
  <2>2. path' \in [Thread -> Places] /\ \A t \in Thread : path'[t] \in {path[t], "orphan"}
    BY <1>1, <1>7 DEF Rm
  <2> QED BY <1>0, <1>7, <2>2 DEF Rm, FilesChanged
<1> QED BY <1>2, <1>3, <1>4, <1>5, <1>6, <1>7 DEF GestFtp

(* Neither the place nor the season changes. *)
LEMMA SeasonStays ==
    ASSUME TypeOK, [Next]_vars
    PROVE  UNCHANGED <<zone, summer>> /\ (\A hour : Dst(hour)' = Dst(hour))
<1>1. UNCHANGED <<zone, summer>>
  <2>1. GestFtp => UNCHANGED <<zone, summer>>
    BY GestSteps DEF timeVars
  <2> QED BY <2>1 DEF Next, BeginRiMMS, BeginComunication, Begin, TagSOR, AskLocal, MkLocal, MkUTC, PackFields,
         WriteToFile, ChoosePath, AppendTag, OpenFails, Return, LogLine, Tick, vars, timeVars
<1> QED BY <1>1 DEF Dst

(* What a thread works on in Tag_SOR does not change beside it. *)
LEMMA SORStays ==
    ASSUME NEW t \in Thread, SOROk(t), UNCHANGED <<zone, summer>>, now' \in {now, now + 1}, now \in Int,
           begun[t] \in Int, pc'[t] = pc[t], calls'[t] = calls[t], begun'[t] = begun[t],
           raw'[t] = raw[t], data'[t] = data[t]
    PROVE  SOROk(t)'
<1>1. Call(t)' = Call(t) /\ \A hour : AskedFor(t, hour) => AskedFor(t, hour)'
  BY DEF Call, AskedFor
<1>2. SaysTime(data[t])' <=> SaysTime(data[t])
  BY DEF SaysTime, Dst
<1>3. PICK r, d : r = raw[t] /\ d = data[t].raw
  OBVIOUS
<1>4. AskedFor(t, raw[t]) => AskedFor(t, raw[t])'
  <2>1. AskedFor(t, r) => AskedFor(t, r)'
    BY <1>1
  <2> QED BY <1>3, <2>1 DEF AskedFor
<1>5. AskedFor(t, data[t].raw) => AskedFor(t, data[t].raw)'
  <2>1. AskedFor(t, d) => AskedFor(t, d)'
    BY <1>1
  <2> QED BY <1>3, <2>1 DEF AskedFor
<1> QED BY <1>1, <1>2, <1>4, <1>5 DEF SOROk

(* What a thread alone in Tag_SOR packs says its time. *)
LEMMA PackedSays ==
    ASSUME TypeOK, CallsOk, AloneOk, NEW t \in Thread, PackFields(t)
    PROVE  /\ data' = [data EXCEPT ![t] = data'[t]] /\ data'[t].raw = raw[t]
           /\ SaysTime(data'[t])
<1>1. /\ data' = [data EXCEPT ![t] =
           [raw |-> raw[t], alone |-> alone[t], bytes |-> Stamp(Calendar[tm.hour], fuse[t])]]
      /\ pc[t] = "fields" /\ DOMAIN data = Thread
  BY DEF PackFields, At, CallsOk
<1>2. /\ data'[t].raw = raw[t] /\ data'[t].alone = alone[t]
      /\ data'[t].bytes = Stamp(Calendar[tm.hour], fuse[t])
  BY <1>1
<1>3. ASSUME alone[t], Dst(raw[t] - zone) = 0
      PROVE  Says(Stamp(Calendar[tm.hour], fuse[t]), Calendar[raw[t]], zone)
  <2>1. tm = Local(raw[t] - zone) /\ fuse[t] = zone
    BY <1>1, <1>3 DEF AloneOk
  <2>2. raw[t] \in Hour /\ raw[t] \in Int /\ zone \in Int /\ zone \in -12..14
    BY HoursHaveDates DEF TypeOK
  <2>3. tm.hour = raw[t]
    BY <1>3, <2>1, <2>2 DEF Local
  <2>4. Calendar[raw[t]] \in StructTm
    BY <2>2, HoursHaveDates DEF TypeOK
  <2> QED BY <2>1, <2>2, <2>3, <2>4, StampSaysTime
<1> QED BY <1>1, <1>2, <1>3 DEF SaysTime

(* The groups that are written, and Tag_SOR. *)
LEMMA CallsKept ==
    ASSUME TagTypes, [Next]_vars
    PROVE  CallsOk' /\ InSOR' /\ now' \in Hour /\ (\A t \in Thread : groups'[t] \in 0..MaxGroups[t])
           /\ raw' \in [Thread -> Hour]
<1> USE DEF TagTypes
<1> DEFINE Goal == /\ CallsOk' /\ InSOR' /\ now' \in Hour /\ raw' \in [Thread -> Hour]
                   /\ \A t \in Thread : groups'[t] \in 0..MaxGroups[t]
<1>0. /\ now \in Hour /\ raw \in [Thread -> Hour] /\ (\A t \in Thread : groups[t] \in 0..MaxGroups[t])
      /\ calls \in [Thread -> Seq(CallSet)] /\ begun \in [Thread -> Hour] /\ fuse \in [Thread -> Int]
      /\ pc \in [Thread -> {"call", "local", "utc", "fields", "write", "append"}]
      /\ DOMAIN data = Thread /\ DOMAIN groups = Thread /\ MaxGroups \in [Thread -> Nat]
      /\ \A t \in Thread : GroupOk(calls[t]) /\ begun[t] <= now
      /\ MaxHour \in Nat /\ Hour = 0..MaxHour /\ Now \notin Hour /\ MkTime \in Int
      /\ \A t \in Thread : SOROk(t)
  BY HoursHaveDates, MkTimeReturns DEF TypeOK, CallsOk, InSOR
<1>s. UNCHANGED <<zone, summer>>
  BY SeasonStays
<1>n. now \in Int /\ \A t \in Thread : begun[t] \in Int
  BY <1>0
<1>t. ASSUME NEW t \in Thread, now' \in {now, now + 1}, pc'[t] = pc[t], calls'[t] = calls[t],
             begun'[t] = begun[t], raw'[t] = raw[t], data'[t] = data[t]
      PROVE  SOROk(t)'
  BY <1>0, <1>s, <1>n, <1>t, SORStays
<1>1. CASE UNCHANGED <<calls, begun, now, pc, raw, fuse, data, groups>>
  <2>1. InSOR'
    BY <1>1, <1>t DEF InSOR
  <2> QED BY <1>0, <1>1, <2>1 DEF CallsOk
<1>2. ASSUME NEW t \in Thread, NEW group, Begins(t, group), UNCHANGED <<now, pc, raw, fuse, data>>,
             DOMAIN groups' = Thread, \A u \in Thread : groups'[u] \in 0..MaxGroups[u]
      PROVE  Goal
  <2>1. /\ calls[t] = <<>> /\ calls' = [calls EXCEPT ![t] = group] /\ begun' = [begun EXCEPT ![t] = now]
        /\ group \in Seq(CallSet) /\ GroupOk(group)
    BY <1>2 DEF Begins, Starts, NewGroup, GroupOk
  <2>2. CallsOk'
    BY <1>0, <1>2, <2>1 DEF CallsOk
  <2>3. pc[t] = "call"
    BY <1>0, <2>1 DEF SOROk
  <2>4. SOROk(t)'
    BY <1>2, <2>3 DEF SOROk
  <2>5. \A u \in Thread \ {t} : SOROk(u)'
    BY <1>0, <1>2, <1>t, <2>1
  <2> QED BY <1>0, <1>2, <2>2, <2>4, <2>5 DEF InSOR
<1>3. ASSUME NEW t \in Thread, calls[t] # <<>>, Return(t)
      PROVE  Goal
  <2>1. /\ calls' = [calls EXCEPT ![t] = Tail(@)] /\ pc' = [pc EXCEPT ![t] = "call"]
        /\ data' = [data EXCEPT ![t] = <<>>] /\ UNCHANGED <<now, groups, begun, raw, fuse>>
    BY <1>3 DEF Return, Goto, timeVars
  <2>2. GroupOk(Tail(calls[t])) /\ Tail(calls[t]) \in Seq(CallSet)
    BY <1>0, <1>3, GroupTail DEF GroupOk
  <2>3. CallsOk'
    BY <1>0, <2>1, <2>2 DEF CallsOk
  <2>4. SOROk(t)'
    <3>1. pc'[t] = "call"
      BY <1>0, <2>1
    <3> QED BY <3>1 DEF SOROk
  <2>5. \A u \in Thread \ {t} : SOROk(u)'
    BY <1>0, <1>t, <2>1
  <2> QED BY <1>0, <2>1, <2>3, <2>4, <2>5 DEF InSOR
<1>4. ASSUME NEW t \in Thread, AskLocal(t)
      PROVE  Goal
  <2>1. /\ calls[t] # <<>> /\ Call(t).tag = "SOR" /\ UNCHANGED <<calls, begun, now, fuse, data, groups>>
        /\ raw' = [raw EXCEPT ![t] = IF Call(t).hour = Now THEN now ELSE Call(t).hour]
        /\ pc' = [pc EXCEPT ![t] = "local"]
    BY <1>4 DEF AskLocal, At, Goto, timeVars, groupVars
  <2>2. Call(t).hour \in Hour \cup {Now}
    BY <1>0, <2>1, GroupTail, CallFacts DEF Call
  <2>3. raw' \in [Thread -> Hour] /\ AskedFor(t, raw[t])' /\ Call(t)' = Call(t)
    BY <1>0, <2>1, <2>2 DEF AskedFor, Call
  <2>4. SOROk(t)'
    BY <1>0, <2>1, <2>3 DEF SOROk
  <2>5. \A u \in Thread \ {t} : SOROk(u)'
    BY <1>0, <1>t, <2>1
  <2>6. CallsOk'
    BY <1>0, <2>1 DEF CallsOk
  <2> QED BY <1>0, <2>1, <2>3, <2>4, <2>5, <2>6 DEF InSOR
<1>5. ASSUME NEW t \in Thread, MkLocal(t) \/ MkUTC(t)
      PROVE  Goal
  <2>1. /\ calls[t] # <<>> /\ pc[t] \in {"local", "utc"} /\ UNCHANGED <<calls, begun, now, raw, data, groups>>
        /\ (pc' = [pc EXCEPT ![t] = "utc"] \/ pc' = [pc EXCEPT ![t] = "fields"]) /\ fuse' \in [Thread -> Int]
    BY <1>0, <1>5 DEF MkLocal, MkUTC, At, Goto, timeVars, groupVars
  <2>2. Call(t).tag = "SOR" /\ AskedFor(t, raw[t])
    BY <1>0, <2>1 DEF SOROk
  <2>3. pc'[t] \in {"utc", "fields"} /\ Call(t)' = Call(t) /\ AskedFor(t, raw[t])'
    BY <1>0, <2>1, <2>2 DEF AskedFor, Call
  <2>4. SOROk(t)'
    BY <2>1, <2>2, <2>3 DEF SOROk
  <2>5. \A u \in Thread \ {t} : SOROk(u)'
    BY <1>0, <1>t, <2>1
  <2>6. CallsOk'
    BY <1>0, <2>1 DEF CallsOk
  <2> QED BY <1>0, <2>1, <2>4, <2>5, <2>6 DEF InSOR
<1>6. ASSUME NEW t \in Thread, PackFields(t)
      PROVE  Goal
  <2>1. /\ calls[t] # <<>> /\ pc[t] = "fields" /\ UNCHANGED <<calls, begun, now, groups>>
        /\ pc' = [pc EXCEPT ![t] = "write"] /\ raw' = [raw EXCEPT ![t] = 0] /\ fuse' = [fuse EXCEPT ![t] = 0]
    BY <1>0, <1>6 DEF PackFields, At, Goto, timeVars, groupVars
  <2>2. /\ data' = [data EXCEPT ![t] = data'[t]] /\ data'[t].raw = raw[t] /\ SaysTime(data'[t])
    BY <1>6, PackedSays
  <2>3. Call(t).tag = "SOR" /\ AskedFor(t, raw[t])
    BY <1>0, <2>1 DEF SOROk
  <2>4. pc'[t] = "write" /\ Call(t)' = Call(t) /\ AskedFor(t, data[t].raw)'
    BY <1>0, <2>1, <2>2, <2>3 DEF AskedFor, Call
  <2>5. SaysTime(data[t])'
    BY <1>s, <2>2 DEF SaysTime, Dst
  <2>6. SOROk(t)'
    BY <2>1, <2>3, <2>4, <2>5 DEF SOROk
  <2>7. \A u \in Thread \ {t} : SOROk(u)'
    BY <1>0, <1>t, <2>1, <2>2
  <2>8. CallsOk'
    BY <1>0, <2>1, <2>2 DEF CallsOk
  <2>9. raw' \in [Thread -> Hour]
    BY <1>0, <2>1
  <2> QED BY <1>0, <2>1, <2>6, <2>7, <2>8, <2>9 DEF InSOR
<1>7. ASSUME NEW t \in Thread, ChoosePath(t)
      PROVE  Goal
  <2>1. /\ calls[t] # <<>> /\ (pc[t] = "write" \/ Call(t).tag # "SOR")
        /\ UNCHANGED <<calls, begun, now, raw, fuse, data, groups>> /\ pc' = [pc EXCEPT ![t] = "append"]
    BY <1>7 DEF ChoosePath, At, Goto, timeVars, groupVars, sorVars
  <2>2. pc'[t] = "append" /\ Call(t)' = Call(t) /\ (AskedFor(t, data[t].raw) => AskedFor(t, data[t].raw)')
    BY <1>0, <2>1 DEF AskedFor, Call
  <2>3. SaysTime(data[t]) => SaysTime(data[t])'
    BY <1>s, <2>1 DEF SaysTime, Dst
  <2>4. SOROk(t)'
    BY <1>0, <2>1, <2>2, <2>3 DEF SOROk
  <2>5. \A u \in Thread \ {t} : SOROk(u)'
    BY <1>0, <1>t, <2>1
  <2>6. CallsOk'
    BY <1>0, <2>1 DEF CallsOk
  <2> QED BY <1>0, <2>1, <2>4, <2>5, <2>6 DEF InSOR
<1>8. ASSUME NEW t \in Thread, AppendTag(t) \/ OpenFails(t)
      PROVE  Goal
  BY <1>3, <1>8 DEF AppendTag, OpenFails, At
<1>9. CASE Tick
  <2>1. now' = now + 1 /\ now < MaxHour /\ UNCHANGED <<calls, begun, pc, raw, fuse, data, groups>>
    BY <1>9 DEF Tick, groupVars, sorVars
  <2>2. CallsOk'
    BY <1>0, <2>1 DEF CallsOk
  <2>3. InSOR'
    BY <1>t, <2>1 DEF InSOR
  <2> QED BY <1>0, <2>1, <2>2, <2>3
<1>10. CASE LogLine \/ UNCHANGED vars
  BY <1>1, <1>10 DEF LogLine, vars, groupVars, sorVars, timeVars
<1>11. CASE BeginRiMMS \/ BeginComunication
  <2>0. PICK t \in Thread : \E group : NewGroup(group) /\ Begin(t, group)
    BY <1>11, BeginsGroup
  <2>1. PICK group : NewGroup(group) /\ Begin(t, group)
    BY <2>0
  <2>2. /\ Begins(t, group) /\ UNCHANGED <<now, pc, raw, fuse, data>>
        /\ groups' = [groups EXCEPT ![t] = @ + 1] /\ groups[t] < MaxGroups[t]
    BY <2>1 DEF Begin, Begins, Free, timeVars, sorVars
  <2>3. DOMAIN groups' = Thread /\ \A u \in Thread : groups'[u] \in 0..MaxGroups[u]
    BY <1>0, <2>2
  <2> QED BY <1>2, <2>2, <2>3
<1>12. CASE GestFtp
  <2>1. /\ UNCHANGED <<now, groups, pc, raw, fuse, data>>
        /\ (\E group : Begins("comunication", group)) \/ UNCHANGED <<calls, begun>>
    BY <1>12, GestSteps DEF timeVars, sorVars
  <2>2. "comunication" \in Thread
    BY DEF Thread
  <2> QED BY <1>0, <1>1, <1>2, <2>1, <2>2
<1> QED BY <1>4, <1>5, <1>6, <1>7, <1>8, <1>9, <1>10, <1>11, <1>12 DEF Next, TagSOR, WriteToFile

(* The struct tm, and what a thread that is alone finds in it. *)
Pcs == {"call", "local", "utc", "fields", "write", "append"}
TmTypes ==
    /\ TmOk /\ AloneOk /\ alone \in [Thread -> BOOLEAN] /\ pc \in [Thread -> Pcs]
    /\ zone \in Zone /\ summer \in Season /\ tm.hour \in DOMAIN Calendar

LEMMA TmKept ==
    ASSUME TagTypes, [Next]_vars
    PROVE  TmTypes'
<1> USE DEF TagTypes
<1>0. /\ now \in Hour /\ raw \in [Thread -> Hour] /\ fuse \in [Thread -> Int] /\ calls \in [Thread -> Seq(CallSet)]
      /\ pc \in [Thread -> Pcs] /\ alone \in [Thread -> BOOLEAN]
      /\ \A t \in Thread : GroupOk(calls[t])
      /\ Hour \subseteq Int /\ zone \in Int /\ 0 \in Hour
  BY HoursHaveDates DEF TypeOK, CallsOk, Pcs
<1>1. UNCHANGED <<zone, summer>> /\ (\A hour : Local(hour)' = Local(hour) /\ GMT(hour)' = GMT(hour))
  BY SeasonStays DEF Local, GMT
<1> DEFINE Goal == TmOk' /\ AloneOk' /\ alone' \in [Thread -> BOOLEAN] /\ pc' \in [Thread -> Pcs]
<1>2. ASSUME UNCHANGED tm, pc' \in [Thread -> Pcs], alone' \in [Thread -> BOOLEAN],
             \A t \in Thread : alone'[t] => alone[t] /\ pc'[t] = pc[t] /\ raw'[t] = raw[t] /\ fuse'[t] = fuse[t]
      PROVE  Goal
  <2>1. TmOk'
    BY <1>1, <1>2 DEF TmOk
  <2>2. AloneOk'
    BY <1>1, <1>2 DEF AloneOk
  <2> QED BY <1>2, <2>1, <2>2
<1>3. ASSUME BeginRiMMS \/ BeginComunication \/ GestFtp \/ Tick \/ UNCHANGED vars
      PROVE  Goal
  <2>1. UNCHANGED <<tm, pc, raw, fuse, alone>>
    BY <1>3, GestSteps DEF BeginRiMMS, BeginComunication, Begin, Tick, vars, sorVars
  <2> QED BY <1>0, <1>2, <2>1
<1>4. ASSUME NEW t \in Thread, PackFields(t)
      PROVE  Goal
  <2>1. /\ UNCHANGED tm /\ pc' = [pc EXCEPT ![t] = "write"] /\ raw' = [raw EXCEPT ![t] = 0]
        /\ fuse' = [fuse EXCEPT ![t] = 0] /\ alone' = [alone EXCEPT ![t] = FALSE]
    BY <1>4 DEF PackFields, Goto
  <2>2. /\ pc' \in [Thread -> Pcs] /\ alone' \in [Thread -> BOOLEAN]
        /\ \A u \in Thread : alone'[u] => alone[u] /\ pc'[u] = pc[u] /\ raw'[u] = raw[u] /\ fuse'[u] = fuse[u]
    BY <1>0, <2>1 DEF Pcs
  <2> QED BY <1>2, <2>1, <2>2
<1>w. ASSUME NEW t \in Thread, WriteToFile(t)
      PROVE  Goal
  <2>1. /\ UNCHANGED <<raw, fuse>> /\ pc[t] \in {"call", "write", "append"}
        /\ (pc' = [pc EXCEPT ![t] = "append"] \/ pc' = [pc EXCEPT ![t] = "call"])
        /\ UNCHANGED <<tm, alone>> \/ SetTm(t, Local(now))
    BY <1>w DEF WriteToFile, ChoosePath, AppendTag, OpenFails, Return, At, Goto, sorVars
  <2>2. ~alone[t]
    BY <2>1 DEF AloneOk
  <2>3. pc' \in [Thread -> Pcs]
    BY <1>0, <2>1 DEF Pcs
  <2>4. CASE UNCHANGED <<tm, alone>>
    <3>1. \A u \in Thread : alone'[u] => alone[u] /\ pc'[u] = pc[u] /\ raw'[u] = raw[u] /\ fuse'[u] = fuse[u]
      BY <1>0, <2>1, <2>2, <2>4
    <3> QED BY <1>0, <1>2, <2>3, <2>4, <3>1
  <2>5. CASE SetTm(t, Local(now))
    <3>1. tm' = Local(now) /\ alone' = [u \in Thread |-> alone[u] /\ u = t]
      BY <2>5 DEF SetTm
    <3>2. alone' \in [Thread -> BOOLEAN] /\ \A u \in Thread : ~alone'[u]
      BY <1>0, <2>2, <3>1
    <3>3. TmOk' /\ AloneOk'
      BY <1>0, <1>1, <3>1, <3>2 DEF TmOk, AloneOk
    <3> QED BY <2>3, <3>2, <3>3
  <2> QED BY <2>1, <2>4, <2>5
<1>5. ASSUME NEW t \in Thread, AskLocal(t)
      PROVE  Goal
  <2>1. /\ calls[t] # <<>> /\ Call(t).tag = "SOR"
        /\ raw' = [raw EXCEPT ![t] = IF Call(t).hour = Now THEN now ELSE Call(t).hour]
        /\ tm' = Local(IF Call(t).hour = Now THEN now ELSE Call(t).hour)
        /\ pc' = [pc EXCEPT ![t] = "local"] /\ alone' = [u \in Thread |-> u = t]
    BY <1>5 DEF AskLocal, At, Goto
  <2>2. Call(t).hour \in Hour \cup {Now}
    BY <1>0, <2>1, GroupTail, CallFacts DEF Call
  <2>3. raw'[t] \in Hour /\ tm' = Local(raw'[t])
    BY <1>0, <2>1, <2>2
  <2>4. TmOk'
    BY <1>1, <2>3 DEF TmOk
  <2>5. AloneOk'
    BY <1>0, <1>1, <2>1, <2>3 DEF AloneOk
  <2> QED BY <1>0, <2>1, <2>4, <2>5 DEF Pcs
<1>6. ASSUME NEW t \in Thread, MkLocal(t)
      PROVE  Goal
  <2>1. /\ pc[t] = "local" /\ fuse' = [fuse EXCEPT ![t] = MkTime] /\ tm' = GMT(raw[t])
        /\ alone' = [u \in Thread |-> alone[u] /\ u = t] /\ pc' = [pc EXCEPT ![t] = "utc"] /\ UNCHANGED raw
    BY <1>6 DEF MkLocal, At, SetTm, Goto
  <2>2. TmOk'
    BY <1>0, <1>1, <2>1 DEF TmOk
  <2>3. alone[t] => fuse'[t] = raw[t]
    <3>1. alone[t] => tm = Local(raw[t])
      BY <2>1 DEF AloneOk
    <3> QED BY <1>0, <2>1, <3>1, MkTimeReturns
  <2>4. AloneOk'
    BY <1>0, <1>1, <2>1, <2>3 DEF AloneOk
  <2> QED BY <1>0, <2>1, <2>2, <2>4 DEF Pcs
<1>7. ASSUME NEW t \in Thread, MkUTC(t)
      PROVE  Goal
  <2>1. /\ pc[t] = "utc" /\ fuse' = [fuse EXCEPT ![t] = fuse[t] - MkTime] /\ tm' = Local(MkTime)
        /\ alone' = [u \in Thread |-> alone[u] /\ u = t] /\ pc' = [pc EXCEPT ![t] = "fields"] /\ UNCHANGED raw
    BY <1>7 DEF MkUTC, At, SetTm, Goto
  <2>2. TmOk'
    BY <1>0, <1>1, <2>1, MkTimeReturns DEF TmOk
  <2>3. alone[t] => fuse'[t] = zone /\ tm' = Local(raw[t] - zone)
    <3>1. alone[t] => tm = GMT(raw[t]) /\ fuse[t] = raw[t]
      BY <2>1 DEF AloneOk
    <3>2. raw[t] \in Int
      BY <1>0
    <3>3. alone[t] => MkTime = raw[t] - zone
      BY <3>1, <3>2, MkTimeReturns
    <3>4. alone[t] => fuse'[t] = raw[t] - (raw[t] - zone)
      BY <1>0, <2>1, <3>1, <3>3
    <3> QED BY <1>0, <2>1, <3>2, <3>3, <3>4
  <2>4. AloneOk'
    BY <1>0, <1>1, <2>1, <2>3 DEF AloneOk
  <2> QED BY <1>0, <2>1, <2>2, <2>4 DEF Pcs
<1>8. ASSUME LogLine
      PROVE  Goal
  <2>1. /\ tm' = Local(now) /\ UNCHANGED <<pc, raw, fuse>> /\ alone' = [u \in Thread |-> alone[u] /\ u = "log"]
    BY <1>8 DEF LogLine, SetTm, sorVars
  <2>2. alone' \in [Thread -> BOOLEAN] /\ \A u \in Thread : ~alone'[u]
    BY <1>0, <2>1 DEF Thread
  <2>3. TmOk' /\ AloneOk'
    BY <1>0, <1>1, <2>1, <2>2 DEF TmOk, AloneOk
  <2> QED BY <1>0, <2>1, <2>2, <2>3
<1>9. Goal
  BY <1>3, <1>4, <1>w, <1>5, <1>6, <1>7, <1>8 DEF Next, TagSOR
<1>10. zone' \in Zone /\ summer' \in Season
  BY <1>1 DEF TypeOK
<1>11. tm'.hour \in DOMAIN Calendar
  BY <1>1, <1>9, TmHasDate DEF TmOk, TypeOK
<1> QED BY <1>9, <1>10, <1>11 DEF TmTypes

(* Where the files are, and what is marked in apart. *)
FileTypes ==
    /\ PathOk /\ path \in [Thread -> Places] /\ flag \in BOOLEAN
    /\ gest \in {"idle", "create", "unflag", "clear", "cat", "rm"}
    /\ uploads \in 0..MaxUploads /\ fails \in 0..MaxFails /\ lines \in 0..MaxLines
    /\ DOMAIN file = {"sample", "ram"} /\ apart \in [Thread -> SUBSET (Kind \cup {"path"})]

LEMMA PathKept ==
    ASSUME TagTypes, [Next]_vars
    PROVE  FileTypes'
<1> USE DEF TagTypes
<1>0. /\ FileTypes /\ pc \in [Thread -> Pcs] /\ calls \in [Thread -> Seq(CallSet)]
      /\ MaxFails \in Nat /\ MaxLines \in Nat /\ Chosen \in {"sample", "ram"}
      /\ "path" \notin Kind /\ {"SOR", "CURRENTSENSOR"} \subseteq Kind
  BY HoursHaveDates DEF FileTypes, TypeOK, Places, Pcs, CallsOk, Kind, Chosen
<1>1. ASSUME UNCHANGED <<pc, path, gestVars, fails, apart>>, lines' \in 0..MaxLines, DOMAIN file' = {"sample", "ram"}
      PROVE  FileTypes'
  BY <1>0, <1>1 DEF FileTypes, PathOk, Chosen, gestVars
<1>2. ASSUME NEW t \in Thread, TagSOR(t)
      PROVE  FileTypes'
  <2>1. /\ UNCHANGED <<path, flag, gest, uploads, file, fails, apart, lines>>
        /\ \E place \in Pcs \ {"append"} : pc' = [pc EXCEPT ![t] = place]
    BY <1>2 DEF TagSOR, AskLocal, MkLocal, MkUTC, PackFields, Goto, fileVars, gestVars, Pcs
  <2>2. PathOk'
    BY <1>0, <2>1 DEF FileTypes, PathOk, Chosen
  <2> QED BY <1>0, <2>1, <2>2 DEF FileTypes
<1>3. ASSUME NEW t \in Thread, ChoosePath(t)
      PROVE  FileTypes'
  <2>1. /\ UNCHANGED <<flag, gest, uploads, file, fails, lines>> /\ pc' = [pc EXCEPT ![t] = "append"]
        /\ path' = [path EXCEPT ![t] = Chosen] /\ apart' = [apart EXCEPT ![t] = @ \ {"path"}]
    BY <1>3 DEF ChoosePath, Goto, gestVars
  <2>2. PathOk'
    BY <1>0, <2>1 DEF FileTypes, PathOk, Chosen
  <2>3. path' \in [Thread -> Places] /\ apart' \in [Thread -> SUBSET (Kind \cup {"path"})]
    BY <1>0, <2>1 DEF FileTypes, Places
  <2> QED BY <1>0, <2>1, <2>2, <2>3 DEF FileTypes
<1>4. ASSUME NEW t \in Thread, AppendTag(t) \/ OpenFails(t)
      PROVE  FileTypes'
  <2>1. /\ UNCHANGED <<flag, gest, uploads, lines>> /\ pc' = [pc EXCEPT ![t] = "call"]
        /\ path' = [path EXCEPT ![t] = "none"] /\ calls[t] # <<>>
    BY <1>4 DEF AppendTag, OpenFails, Return, Goto, At, gestVars
  <2>2. Call(t).tag \in Kind
    BY <1>0, <2>1, GroupTail, CallFacts DEF CallsOk, Call
  <2>3. /\ DOMAIN file' = {"sample", "ram"} /\ fails' \in 0..MaxFails
        /\ \/ apart' = [apart EXCEPT ![t] = IF "path" \in @ THEN @ ELSE @ \ {Call(t).tag}]
           \/ apart' = [apart EXCEPT ![t] = @ \cup {Call(t).tag}]
    BY <1>0, <1>4 DEF AppendTag, OpenFails, FileTypes
  <2>4. PathOk'
    BY <1>0, <2>1, <2>2, <2>3 DEF FileTypes, PathOk, Chosen
  <2>5. path' \in [Thread -> Places]
    BY <1>0, <2>1 DEF FileTypes, Places
  <2>6. apart' \in [Thread -> SUBSET (Kind \cup {"path"})]
    <3>1. PICK new : /\ apart' = [apart EXCEPT ![t] = new]
                     /\ new \in {apart[t], apart[t] \ {Call(t).tag}, apart[t] \cup {Call(t).tag}}
      BY <2>3
    <3>2. apart[t] \in SUBSET (Kind \cup {"path"})
      BY <1>0 DEF FileTypes
    <3>3. new \in SUBSET (Kind \cup {"path"})
      BY <2>2, <3>1, <3>2
    <3> QED BY <1>0, <3>1, <3>3 DEF FileTypes
  <2> QED BY <1>0, <2>1, <2>3, <2>4, <2>5, <2>6 DEF FileTypes
<1>5. CASE GestFtp
  <2>1. /\ UNCHANGED <<pc, fails, lines>> /\ flag' \in BOOLEAN /\ uploads' \in 0..MaxUploads
        /\ gest' \in {"idle", "create", "unflag", "clear", "cat", "rm"}
        /\ path' \in [Thread -> Places] /\ (\A t \in Thread : path'[t] \in {path[t], "orphan"})
        /\ DOMAIN file' = {"sample", "ram"} /\ (FilesChanged \/ UNCHANGED <<file, flag, path, apart>>)
    BY <1>5, GestSteps
  <2>2. CASE FilesChanged
    BY <1>0, <2>1, <2>2 DEF FileTypes, PathOk, FilesChanged
  <2>3. CASE UNCHANGED <<file, flag, path, apart>>
    BY <1>0, <2>1, <2>3 DEF FileTypes, PathOk, Chosen
  <2> QED BY <2>1, <2>2, <2>3
<1>6. CASE BeginRiMMS \/ BeginComunication \/ LogLine \/ Tick \/ UNCHANGED vars
  <2>1. UNCHANGED <<pc, path, gestVars, fails, apart>> /\ file' = file /\ lines' \in 0..MaxLines
    BY <1>0, <1>6 DEF FileTypes, BeginRiMMS, BeginComunication, Begin, LogLine, Tick, vars, fileVars
  <2> QED BY <1>0, <1>1, <2>1 DEF FileTypes
<1> QED BY <1>2, <1>3, <1>4, <1>5, <1>6 DEF Next, WriteToFile

LEMMA TypesKept ==
    ASSUME TagTypes, [Next]_vars
    PROVE  TagTypes'
BY CallsKept, TmKept, PathKept DEF TagTypes, TypeOK, TmTypes, FileTypes, Pcs, Places

-----------------------------------------------------------------------------
(* What the steps do to the files that are written. *)
Wrote(t) ==
    /\ calls[t] # <<>> /\ calls' = [calls EXCEPT ![t] = Tail(@)]
    /\ UNCHANGED <<now, begun, flag>>
    /\ \A u \in Thread \ {t} : apart'[u] = apart[u]
    /\ \E e : /\ e.by = t /\ e.call = Call(t)
              /\ Call(t).tag = "SOR" => AskedFor(t, e.sor.raw)
              /\ file'[Chosen] \in {file[Chosen], Append(file[Chosen], e)}
              /\ \A tag \in {"SOR", "CURRENTSENSOR"} : tag \notin apart'[t] =>
                   IF Call(t).tag = tag THEN file'[Chosen] = Append(file[Chosen], e) ELSE tag \notin apart[t]

EntryFacts(t, e) ==
    /\ e.by = t /\ e.call = Call(t) /\ e.apart = apart[t] /\ e.sor = data[t] /\ e.at = Times(t)

LEMMA EntrySays ==
    ASSUME NEW t
    PROVE  EntryFacts(t, Entry(t))
<1> DEFINE hours == IF "hour" \in DOMAIN Call(t) THEN {Call(t).hour} ELSE begun[t]..now
<1>1. hours = Times(t)
  BY DEF Times, HasHour
<1> HIDE DEF hours
<1>2. PICK e : e = [by |-> t, call |-> Call(t), apart |-> apart[t], sor |-> data[t], at |-> hours]
  OBVIOUS
<1>3. e.by = t /\ e.call = Call(t) /\ e.apart = apart[t] /\ e.sor = data[t] /\ e.at = hours
  BY <1>2
<1>4. Entry(t) = e
  BY <1>2 DEF Entry, hours
<1> QED BY <1>1, <1>3, <1>4 DEF EntryFacts

LEMMA WritingSteps ==
    ASSUME TagTypes, NEW t \in Thread, AppendTag(t) \/ OpenFails(t)
    PROVE  Wrote(t)
<1> USE DEF TagTypes
<1>1. /\ calls[t] # <<>> /\ pc[t] = "append" /\ calls' = [calls EXCEPT ![t] = Tail(@)]
      /\ UNCHANGED <<now, begun, flag>>
  BY DEF AppendTag, OpenFails, Return, At, timeVars, gestVars
<1>2. /\ apart \in [Thread -> SUBSET (Kind \cup {"path"})] /\ DOMAIN file = {"sample", "ram"}
      /\ Chosen \in {"sample", "ram"}
      /\ path[t] \in {"sample", "ram", "orphan"} /\ ("path" \notin apart[t] => path[t] = Chosen)
      /\ "path" \in apart[t] => {"SOR", "CURRENTSENSOR"} \subseteq apart[t]
  BY <1>1 DEF TypeOK, PathOk, Chosen
<1>3. PICK e : e = Entry(t) /\ EntryFacts(t, e)
  BY EntrySays
<1>4. Call(t).tag = "SOR" => AskedFor(t, e.sor.raw)
  BY <1>1, <1>3 DEF InSOR, SOROk, EntryFacts
<1>5. CASE AppendTag(t)
  <2>1. /\ file' = IF path[t] = "orphan" THEN file ELSE [file EXCEPT ![path[t]] = Append(@, e)]
        /\ apart' = [apart EXCEPT ![t] = IF "path" \in @ THEN @ ELSE @ \ {Call(t).tag}]
    BY <1>3, <1>5 DEF AppendTag
  <2>2. file'[Chosen] \in {file[Chosen], Append(file[Chosen], e)}
    BY <1>2, <2>1
  <2>3. ASSUME NEW tag \in {"SOR", "CURRENTSENSOR"}, tag \notin apart'[t]
        PROVE  IF Call(t).tag = tag THEN file'[Chosen] = Append(file[Chosen], e) ELSE tag \notin apart[t]
    <3>1. "path" \notin apart[t]
      BY <1>2, <2>1, <2>3
    <3> QED BY <1>2, <2>1, <2>3, <3>1
  <2>4. \A u \in Thread \ {t} : apart'[u] = apart[u]
    BY <1>2, <2>1
  <2> QED BY <1>1, <1>3, <1>4, <2>2, <2>3, <2>4 DEF Wrote, EntryFacts
<1>6. CASE OpenFails(t)
  <2>1. UNCHANGED file /\ apart' = [apart EXCEPT ![t] = @ \cup {Call(t).tag}]
    BY <1>6 DEF OpenFails
  <2>2. /\ \A u \in Thread \ {t} : apart'[u] = apart[u]
        /\ \A tag \in {"SOR", "CURRENTSENSOR"} : tag \notin apart'[t] => Call(t).tag # tag /\ tag \notin apart[t]
    BY <1>2, <2>1
  <2> QED BY <1>1, <1>3, <1>4, <2>1, <2>2 DEF Wrote, EntryFacts
<1> QED BY <1>5, <1>6

Began(t, group) == Begins(t, group) /\ UNCHANGED <<now, file, flag, apart>>
Beside ==
    /\ UNCHANGED <<file, flag, calls, begun>> /\ now' \in {now, now + 1}
    /\ \A t \in Thread : apart[t] \ {"path"} \subseteq apart'[t]

LEMMA FileSteps ==
    ASSUME TagTypes, [Next]_vars
    PROVE  \/ \E t \in Thread : \E group : Began(t, group)
           \/ FilesChanged
           \/ Beside
           \/ \E t \in Thread : Wrote(t)
<1> USE DEF TagTypes
<1>0. apart \in [Thread -> SUBSET (Kind \cup {"path"})]
  BY DEF TypeOK
<1>1. CASE BeginRiMMS \/ BeginComunication
  <2>1. PICK t \in Thread : \E group : NewGroup(group) /\ Begin(t, group)
    BY <1>1, BeginsGroup
  <2> QED BY <2>1 DEF Begin, Free, Began, Begins, timeVars, fileVars, gestVars
<1>2. CASE GestFtp
  <2>1. /\ now' = now
        /\ FilesChanged \/ (UNCHANGED <<file, flag, path, apart>> /\ \E group : Begins("comunication", group))
    BY <1>2, GestSteps DEF timeVars
  <2> QED BY <2>1 DEF Began, Thread
<1>3. ASSUME NEW t \in Thread, TagSOR(t)
      PROVE  Beside
  BY <1>3 DEF TagSOR, AskLocal, MkLocal, MkUTC, PackFields, Beside, timeVars, groupVars, fileVars, gestVars
<1>4. ASSUME NEW t \in Thread, ChoosePath(t)
      PROVE  Beside
  BY <1>0, <1>4 DEF ChoosePath, Beside, timeVars, groupVars, gestVars
<1>5. CASE LogLine \/ Tick \/ UNCHANGED vars
  BY <1>5 DEF LogLine, Tick, Beside, vars, timeVars, groupVars, fileVars, gestVars
<1> QED BY <1>1, <1>2, <1>3, <1>4, <1>5, WritingSteps DEF Next, WriteToFile

LEMMA GivenKept ==
    ASSUME NEW q, SeqOk(q), NEW e, NEW r, r = q \/ r = Append(q, e), NEW u
    PROVE  /\ \A s : (e.by # u \/ e.call.tag # "CURRENTSENSOR") /\ HasSensor(q, u, s) => HasSensor(r, u, s)
           /\ \A hours : (e.by # u \/ e.call.tag # "SOR") /\ HasTime(q, u, hours) => HasTime(r, u, hours)
<1>1. ASSUME NEW s, e.by # u \/ e.call.tag # "CURRENTSENSOR", HasSensor(q, u, s)
      PROVE  HasSensor(Append(q, e), u, s)
  <2>1. PICK j \in 1..Len(q) : LastBy(q, u, j, "CURRENTSENSOR") /\ q[j].call.sensor = s
    BY <1>1 DEF HasSensor
  <2>2. /\ j \in 1..Len(Append(q, e)) /\ LastBy(Append(q, e), u, j, "CURRENTSENSOR")
        /\ Append(q, e)[j] = q[j]
    BY <1>1, <2>1, LastByKept
  <2> QED BY <2>1, <2>2 DEF HasSensor
<1>2. ASSUME NEW hours, e.by # u \/ e.call.tag # "SOR", HasTime(q, u, hours)
      PROVE  HasTime(Append(q, e), u, hours)
  <2>1. PICK j \in 1..Len(q) : LastBy(q, u, j, "SOR") /\ q[j].sor.raw \in hours
    BY <1>2 DEF HasTime
  <2>2. /\ j \in 1..Len(Append(q, e)) /\ LastBy(Append(q, e), u, j, "SOR")
        /\ Append(q, e)[j] = q[j]
    BY <1>2, <2>1, LastByKept
  <2> QED BY <2>1, <2>2 DEF HasTime
<1> QED BY <1>1, <1>2

(* The CURRENTSENSOR that the measures of a group will be read with. *)
LEMMA SensorGivenKept ==
    ASSUME TagTypes, FilesOk, SensorGiven, [Next]_vars
    PROVE  SensorGiven'
<1> SUFFICES ASSUME NEW u \in Thread, NEW i \in 1..Len(calls'[u]), OfSensor(calls'[u][i]),
                    \A k \in 1..(i - 1) : calls'[u][k].tag # "CURRENTSENSOR",
                    "CURRENTSENSOR" \notin apart'[u]
             PROVE  HasSensor(file'[Chosen'], u, calls'[u][i].sensor)
  BY DEF SensorGiven, OfSensor
<1>0. /\ calls \in [Thread -> Seq(CallSet)] /\ SeqOk(file[Chosen]) /\ i \in Nat
      /\ \A t \in Thread : GroupOk(calls[t])
  BY DEF TagTypes, CallsOk, FilesOk, FileOk, Chosen
<1>1. ASSUME calls'[u] = calls[u], UNCHANGED <<file, flag>>, "CURRENTSENSOR" \notin apart[u]
      PROVE  HasSensor(file'[Chosen'], u, calls'[u][i].sensor)
  <2>1. HasSensor(file[Chosen], u, calls[u][i].sensor)
    BY <1>1 DEF SensorGiven
  <2> QED BY <1>1, <2>1 DEF Chosen
<1>2. ASSUME NEW t \in Thread, NEW group, Began(t, group)
      PROVE  HasSensor(file'[Chosen'], u, calls'[u][i].sensor)
  <2>1. /\ calls' = [calls EXCEPT ![t] = group] /\ NewGroup(group) /\ UNCHANGED <<file, flag, apart>>
    BY <1>2 DEF Began, Begins, Starts
  <2>2. u # t
    <3> SUFFICES ASSUME u = t
                 PROVE  FALSE
      OBVIOUS
    <3>1. calls'[u] = group
      BY <1>0, <2>1
    <3>2. PICK k \in 1..Len(group) : k < i /\ group[k].tag = "CURRENTSENSOR"
      BY <2>1, <3>1 DEF NewGroup
    <3>3. k \in 1..(i - 1)
      BY <1>0, <3>2
    <3> QED BY <3>1, <3>2, <3>3
  <2> QED BY <1>0, <1>1, <2>1, <2>2
<1>3. CASE FilesChanged
  BY <1>3 DEF FilesChanged
<1>4. CASE Beside
  BY <1>1, <1>4 DEF Beside
<1>5. ASSUME NEW t \in Thread, Wrote(t)
      PROVE  HasSensor(file'[Chosen'], u, calls'[u][i].sensor)
  <2>1. PICK q : q = file[Chosen] /\ SeqOk(q)
    BY <1>0
  <2>2. PICK e : /\ e.by = t /\ e.call = Call(t)
                 /\ file'[Chosen] \in {q, Append(q, e)}
                 /\ "CURRENTSENSOR" \notin apart'[t] =>
                      IF Call(t).tag = "CURRENTSENSOR" THEN file'[Chosen] = Append(q, e)
                                                       ELSE "CURRENTSENSOR" \notin apart[t]
    BY <1>5, <2>1 DEF Wrote
  <2>3. PICK r : r = file'[Chosen] /\ file'[Chosen'] = r /\ (r = q \/ r = Append(q, e))
    BY <1>5, <2>2 DEF Wrote, Chosen
  <2>k. \A v, s : (e.by # v \/ e.call.tag # "CURRENTSENSOR") /\ HasSensor(q, v, s) => HasSensor(r, v, s)
    BY <2>1, <2>3, GivenKept, Zenon
  <2>4. /\ calls[t] # <<>> /\ calls' = [calls EXCEPT ![t] = Tail(@)]
        /\ \A v \in Thread \ {t} : apart'[v] = apart[v]
    BY <1>5 DEF Wrote
  <2>5. CASE u # t
    <3>1. calls'[u] = calls[u] /\ "CURRENTSENSOR" \notin apart[u]
      BY <1>0, <2>4, <2>5
    <3>2. HasSensor(q, u, calls[u][i].sensor)
      BY <2>1, <3>1 DEF SensorGiven
    <3>3. PICK s : s = calls[u][i].sensor /\ HasSensor(q, u, s)
      BY <3>2
    <3>4. HasSensor(r, u, s)
      BY <2>2, <2>5, <2>k, <3>3
    <3> QED BY <2>3, <3>1, <3>3, <3>4
  <2>6. CASE u = t
    <3>1. /\ calls'[t] = Tail(calls[t]) /\ i + 1 \in 1..Len(calls[t]) /\ calls'[t][i] = calls[t][i + 1]
          /\ Call(t) = calls[t][1] /\ 1 \in 1..Len(calls[t]) /\ Call(t) \in CallSet
          /\ \A k \in 1..Len(Tail(calls[t])) : Tail(calls[t])[k] = calls[t][k + 1]
          /\ i \in 1..Len(Tail(calls[t])) /\ Len(Tail(calls[t])) \in Nat
      <4>1. calls'[t] = Tail(calls[t]) /\ GroupOk(calls[t])
        BY <1>0, <2>4
      <4>2. i \in 1..Len(Tail(calls[t]))
        BY <2>6, <4>1
      <4>3. PICK p, w : p = calls[t] /\ w = Tail(p)
        OBVIOUS
      <4>4. /\ i + 1 \in 1..Len(p) /\ w[i] = p[i + 1] /\ Head(p) = p[1] /\ 1 \in 1..Len(p) /\ Head(p) \in CallSet
            /\ (\A k \in 1..Len(w) : w[k] = p[k + 1]) /\ Len(w) \in Nat
        BY <2>4, <4>1, <4>2, <4>3, GroupTail
      <4> QED BY <4>1, <4>2, <4>3, <4>4 DEF Call
    <3>2. CASE Call(t).tag = "CURRENTSENSOR"
      <4>1. r = Append(q, e)
        BY <2>2, <2>3, <2>6, <3>2
      <4>2. 1 < i + 1
        BY <1>0
      <4>3. e.call.sensor = calls[t][i + 1].sensor
        BY <1>0, <2>2, <2>6, <3>1, <3>2, <4>2 DEF GroupOk
      <4>4. /\ Len(q) + 1 \in 1..Len(r) /\ r[Len(q) + 1] = e
            /\ LastBy(r, t, Len(q) + 1, "CURRENTSENSOR")
        BY <2>1, <2>2, <3>2, <4>1, LastByWriter
      <4>5. HasSensor(r, t, e.call.sensor)
        BY <4>4 DEF HasSensor
      <4> QED BY <2>3, <2>6, <3>1, <4>3, <4>5
    <3>3. CASE Call(t).tag # "CURRENTSENSOR"
      <4>1. "CURRENTSENSOR" \notin apart[t]
        BY <2>2, <2>6, <3>3
      <4>2. \A k \in 1..((i + 1) - 1) : calls[t][k].tag # "CURRENTSENSOR"
        <5> TAKE k \in 1..((i + 1) - 1)
        <5>1. CASE k = 1
          BY <3>1, <3>3, <5>1
        <5>2. CASE k # 1
          <6>1. k - 1 \in 1..(i - 1) /\ k - 1 \in 1..Len(Tail(calls[t])) /\ k = (k - 1) + 1
            BY <1>0, <3>1, <5>2
          <6> QED BY <2>6, <3>1, <6>1
        <5> QED BY <5>1, <5>2
      <4>3. HasSensor(q, t, calls[t][i + 1].sensor)
        BY <2>1, <2>6, <3>1, <4>1, <4>2 DEF SensorGiven
      <4>4. PICK s : s = calls[t][i + 1].sensor /\ HasSensor(q, t, s)
        BY <4>3
      <4>5. HasSensor(r, t, s)
        BY <2>2, <2>k, <3>3, <4>4
      <4> QED BY <2>3, <2>6, <3>1, <4>4, <4>5
    <3> QED BY <3>2, <3>3
  <2> QED BY <2>5, <2>6
<1> QED BY <1>2, <1>3, <1>4, <1>5, FileSteps

(* The SOR that the next tag of a group will be read with. *)
LEMMA TimeGivenKept ==
    ASSUME TagTypes, FilesOk, TimeGiven, [Next]_vars
    PROVE  TimeGiven'
<1> SUFFICES ASSUME NEW u \in Thread, calls'[u] # <<>>, Call(u)'.tag # "SOR", "SOR" \notin apart'[u]
             PROVE  HasTime(file'[Chosen'], u, Times(u)')
  BY DEF TimeGiven
<1>0. /\ calls \in [Thread -> Seq(CallSet)] /\ SeqOk(file[Chosen])
      /\ begun \in [Thread -> Hour] /\ now \in Int /\ Hour \subseteq Int /\ Now \notin Hour
      /\ \A t \in Thread : GroupOk(calls[t])
  <2>1. SeqOk(file[Chosen])
    BY DEF FilesOk, FileOk, Chosen
  <2>2. now \in Int /\ Hour \subseteq Int /\ Now \notin Hour
    BY HoursHaveDates DEF TagTypes, TypeOK
  <2> QED BY <2>1, <2>2 DEF TagTypes, CallsOk
<1>1. ASSUME NEW q, NEW hours, HasTime(q, u, hours), file'[Chosen'] = q, hours \subseteq Times(u)'
      PROVE  HasTime(file'[Chosen'], u, Times(u)')
  BY <1>1 DEF HasTime
<1>2. ASSUME calls'[u] = calls[u], begun'[u] = begun[u], now' \in {now, now + 1},
             UNCHANGED <<file, flag>>, "SOR" \notin apart[u]
      PROVE  HasTime(file'[Chosen'], u, Times(u)')
  <2>1. Call(u)' = Call(u) /\ Times(u) \subseteq Times(u)'
    BY <1>0, <1>2 DEF Call, Times
  <2>2. HasTime(file[Chosen], u, Times(u))
    BY <1>2, <2>1 DEF TimeGiven
  <2>3. file'[Chosen'] = file[Chosen]
    BY <1>2 DEF Chosen
  <2>4. PICK q, hours : q = file[Chosen] /\ hours = Times(u)
    OBVIOUS
  <2> QED BY <1>1, <2>1, <2>2, <2>3, <2>4
<1>3. ASSUME NEW t \in Thread, NEW group, Began(t, group)
      PROVE  HasTime(file'[Chosen'], u, Times(u)')
  <2>1. /\ calls' = [calls EXCEPT ![t] = group] /\ begun' = [begun EXCEPT ![t] = now] /\ NewGroup(group)
        /\ UNCHANGED <<now, file, flag, apart>>
    BY <1>3 DEF Began, Begins, Starts
  <2>2. u # t
    BY <1>0, <2>1 DEF NewGroup, Call
  <2> QED BY <1>0, <1>2, <2>1, <2>2
<1>4. CASE FilesChanged
  BY <1>4 DEF FilesChanged
<1>5. CASE Beside
  BY <1>2, <1>5 DEF Beside
<1>6. ASSUME NEW t \in Thread, Wrote(t)
      PROVE  HasTime(file'[Chosen'], u, Times(u)')
  <2>1. PICK q : q = file[Chosen] /\ SeqOk(q)
    BY <1>0
  <2>2. PICK e : /\ e.by = t /\ e.call = Call(t)
                 /\ Call(t).tag = "SOR" => AskedFor(t, e.sor.raw)
                 /\ file'[Chosen] \in {q, Append(q, e)}
                 /\ "SOR" \notin apart'[t] =>
                      IF Call(t).tag = "SOR" THEN file'[Chosen] = Append(q, e) ELSE "SOR" \notin apart[t]
    BY <1>6, <2>1 DEF Wrote
  <2>3. PICK r : r = file'[Chosen] /\ file'[Chosen'] = r /\ (r = q \/ r = Append(q, e))
    BY <1>6, <2>2 DEF Wrote, Chosen
  <2>4. /\ calls[t] # <<>> /\ calls' = [calls EXCEPT ![t] = Tail(@)] /\ UNCHANGED <<now, begun>>
        /\ \A v \in Thread \ {t} : apart'[v] = apart[v]
    BY <1>6 DEF Wrote
  <2>5. \A v, hours : (e.by # v \/ e.call.tag # "SOR") /\ HasTime(q, v, hours) => HasTime(r, v, hours)
    BY <2>1, <2>3, GivenKept, Zenon
  <2>6. CASE u # t
    <3>1. Call(u)' = Call(u) /\ Times(u)' = Times(u) /\ calls[u] # <<>> /\ "SOR" \notin apart[u]
      BY <1>0, <2>4, <2>6 DEF Call, Times
    <3>2. PICK hours : hours = Times(u) /\ HasTime(q, u, hours)
      BY <2>1, <3>1 DEF TimeGiven
    <3>3. HasTime(r, u, hours)
      BY <2>2, <2>5, <2>6, <3>2
    <3> QED BY <1>1, <2>3, <3>1, <3>2, <3>3
  <2>7. CASE u = t
    <3>1. PICK c, d : c = Call(t) /\ d = Call(t)' /\ c \in CallSet /\ d \in CallSet /\ FollowsSOR(c, d)
      <4>1. PICK p, w : p = calls[t] /\ w = Tail(p) /\ w = calls'[t] /\ GroupOk(p) /\ p # <<>> /\ w # <<>>
        BY <1>0, <2>4, <2>7
      <4>2. /\ GroupOk(w) /\ Head(p) = p[1] /\ Head(p) \in CallSet /\ Len(p) \in Nat /\ 1 \in 1..Len(p)
            /\ \A k \in 1..Len(w) : k + 1 \in 1..Len(p) /\ w[k] = p[k + 1]
        BY <4>1, GroupTail
      <4>3. Head(w) = w[1] /\ Head(w) \in CallSet /\ 1 \in 1..Len(w)
        BY <4>1, <4>2, GroupTail
      <4>4. 1 + 1 \in 1..Len(p) /\ w[1] = p[1 + 1]
        BY <4>2, <4>3
      <4>5. FollowsSOR(p[1], p[1 + 1])
        BY <4>1, <4>2, <4>4 DEF GroupOk
      <4> QED BY <4>1, <4>2, <4>3, <4>4, <4>5 DEF Call
    <3>2. d.tag # "SOR" /\ Times(t)' = (IF HasHour(d) THEN {d.hour} ELSE begun[t]..now)
      BY <2>4, <2>7, <3>1 DEF Times, HasHour
    <3>3. CASE c.tag # "SOR"
      <4>1. ~HasHour(c) /\ ~HasHour(d)
        BY <3>1, <3>2, <3>3 DEF FollowsSOR
      <4>2. Times(t) = begun[t]..now /\ Times(t)' = begun[t]..now
        BY <3>1, <3>2, <4>1 DEF Times, HasHour
      <4>3. PICK hours : hours = begun[t]..now /\ HasTime(q, t, hours)
        BY <2>1, <2>2, <2>4, <2>7, <3>1, <3>3, <4>2 DEF TimeGiven
      <4>4. HasTime(r, t, hours)
        BY <2>2, <2>5, <3>1, <3>3, <4>3
      <4> QED BY <1>1, <2>3, <2>7, <4>2, <4>3, <4>4
    <3>4. CASE c.tag = "SOR"
      <4>1. r = Append(q, e)
        BY <2>2, <2>3, <2>7, <3>1, <3>4
      <4>2. /\ Len(q) + 1 \in 1..Len(r) /\ r[Len(q) + 1] = e /\ LastBy(r, t, Len(q) + 1, "SOR")
        BY <2>1, <2>2, <3>1, <3>4, <4>1, LastByWriter
      <4>3. HasTime(r, t, {e.sor.raw})
        BY <4>2 DEF HasTime
      <4>4. c.hour = (IF HasHour(d) THEN d.hour ELSE Now) /\ (HasHour(d) => d.hour # Now)
        BY <1>0, <3>1, <3>2, <3>4, CallFacts DEF FollowsSOR
      <4>5. IF c.hour = Now THEN e.sor.raw \in begun[t]..now ELSE e.sor.raw = c.hour
        BY <2>2, <3>1, <3>4 DEF AskedFor
      <4>6. e.sor.raw \in Times(t)'
        BY <3>2, <4>4, <4>5
      <4>7. PICK hours : hours = {e.sor.raw} /\ hours \subseteq Times(u)'
        BY <2>7, <4>6
      <4> QED BY <1>1, <2>3, <2>7, <4>3, <4>7
    <3> QED BY <3>3, <3>4
  <2> QED BY <2>6, <2>7
<1> QED BY <1>3, <1>4, <1>5, <1>6, FileSteps

-----------------------------------------------------------------------------
(* The files are read right. *)
LEMMA FileStays ==
    ASSUME NEW q, FileOk(q), UNCHANGED <<zone, summer>>
    PROVE  FileOk(q)'
<1>1. \A d : SaysTime(d)' <=> SaysTime(d)
  BY DEF SaysTime, Dst
<1> QED BY <1>1 DEF FileOk, ReadsSensor, ReadsTime, SORSays, SeqOk, ReadAfter, Tag

LEMMA FilesKept ==
    ASSUME TagTypes, FilesOk, SensorGiven, TimeGiven, [Next]_vars
    PROVE  FilesOk'
<1> USE DEF TagTypes
<1>0. /\ DOMAIN file = {"sample", "ram"} /\ FileOk(file["sample"]) /\ FileOk(file["ram"]) /\ FileOk(<<>>)
      /\ UNCHANGED <<zone, summer>>
  BY EmptyOk, SeasonStays DEF FilesOk
<1>1. SUFFICES /\ DOMAIN file' = {"sample", "ram"}
               /\ \E q : q = file'["sample"] /\ FileOk(q)
               /\ \E q : q = file'["ram"] /\ FileOk(q)
  <2>1. PICK q, r : q = file'["sample"] /\ FileOk(q) /\ r = file'["ram"] /\ FileOk(r)
    BY <1>1
  <2>2. FileOk(q)' /\ FileOk(r)'
    BY <1>0, <2>1, FileStays
  <2> QED BY <1>1, <2>1, <2>2 DEF FilesOk
<1>2. CASE UNCHANGED file
  BY <1>0, <1>2
<1>3. ASSUME NEW t \in Thread, AppendTag(t)
      PROVE  /\ DOMAIN file' = {"sample", "ram"}
             /\ \E q : q = file'["sample"] /\ FileOk(q)
             /\ \E q : q = file'["ram"] /\ FileOk(q)
  <2>1. PICK e : e = Entry(t) /\ EntryFacts(t, e)
    BY EntrySays
  <2>2. /\ calls[t] # <<>> /\ pc[t] = "append"
        /\ file' = IF path[t] = "orphan" THEN file ELSE [file EXCEPT ![path[t]] = Append(@, e)]
    BY <1>3, <2>1 DEF AppendTag, At
  <2>3. /\ path[t] \in {"sample", "ram", "orphan"} /\ ("path" \notin apart[t] => path[t] = Chosen)
        /\ "path" \in apart[t] => {"SOR", "CURRENTSENSOR"} \subseteq apart[t]
    BY <2>2 DEF PathOk
  <2>4. CASE path[t] = "orphan"
    BY <1>0, <2>2, <2>4
  <2>5. CASE path[t] # "orphan"
    <3>1. PICK q : q = file[path[t]] /\ FileOk(q)
      BY <1>0, <2>3, <2>5
    <3>2. calls[t][1] = Call(t) /\ 1 \in 1..Len(calls[t])
      BY <2>2, GroupTail DEF CallsOk, Call
    <3>3. EntryOk(q, e)
      <4>1. e.call.tag = "SOR" => SaysTime(e.sor)
        BY <2>1, <2>2 DEF EntryFacts, InSOR, SOROk
      <4>2. ASSUME OfSensor(e.call), "CURRENTSENSOR" \notin e.apart
            PROVE  HasSensor(q, t, e.call.sensor)
        <5>1. OfSensor(calls[t][1]) /\ (\A k \in 1..(1 - 1) : calls[t][k].tag # "CURRENTSENSOR")
              /\ "CURRENTSENSOR" \notin apart[t] /\ path[t] = Chosen
          BY <2>1, <2>3, <3>2, <4>2 DEF EntryFacts
        <5>2. HasSensor(file[Chosen], t, calls[t][1].sensor)
          BY <3>2, <5>1 DEF SensorGiven
        <5> QED BY <2>1, <3>1, <3>2, <5>1, <5>2 DEF EntryFacts
      <4>3. ASSUME e.call.tag # "SOR", "SOR" \notin e.apart
            PROVE  HasTime(q, t, e.at)
        <5>1. Call(t).tag # "SOR" /\ "SOR" \notin apart[t] /\ path[t] = Chosen
          BY <2>1, <2>3, <4>3 DEF EntryFacts
        <5>2. HasTime(file[Chosen], t, Times(t))
          BY <2>2, <5>1 DEF TimeGiven
        <5> QED BY <2>1, <3>1, <5>1, <5>2 DEF EntryFacts
      <4> QED BY <2>1, <4>1, <4>2, <4>3 DEF EntryOk, EntryFacts, HasSensor, HasTime
    <3>4. FileOk(Append(q, e))
      BY <3>1, <3>3, AppendOk
    <3> QED BY <1>0, <2>2, <2>3, <2>5, <3>1, <3>4
  <2> QED BY <2>4, <2>5
<1>4. CASE GestFtp
  <2>1. /\ DOMAIN file' = {"sample", "ram"} /\ file'["ram"] \in {file["ram"], <<>>}
        /\ file'["sample"] \in {file["sample"], <<>>, file["sample"] \o file["ram"]}
    BY <1>4, GestSteps
  <2>2. FileOk(file["sample"] \o file["ram"])
    BY <1>0, JoinOk
  <2> QED BY <1>0, <2>1, <2>2
<1>5. ASSUME NEW t \in Thread, TagSOR(t) \/ ChoosePath(t) \/ OpenFails(t)
      PROVE  UNCHANGED file
  BY <1>5 DEF TagSOR, AskLocal, MkLocal, MkUTC, PackFields, ChoosePath, OpenFails, fileVars
<1>6. CASE BeginRiMMS \/ BeginComunication \/ LogLine \/ Tick \/ UNCHANGED vars
  BY <1>2, <1>6 DEF BeginRiMMS, BeginComunication, Begin, LogLine, Tick, vars, fileVars
<1> QED BY <1>2, <1>3, <1>4, <1>5, <1>6 DEF Next, WriteToFile

-----------------------------------------------------------------------------
(* The invariants above hold in every state of the two threads. *)
THEOREM TagLogIsInductive == Spec => []TagProven
<1>1. Init => TagProven
  <2> SUFFICES ASSUME Init
               PROVE  TagProven
    OBVIOUS
  <2>0. 0 \in Hour /\ <<>> \in Seq(CallSet) /\ now = 0 /\ zone \in Zone /\ summer \in Season /\ tm = GMT(0)
    BY HoursHaveDates DEF Init
  <2>1. tm.hour \in DOMAIN Calendar /\ TmOk
    BY <2>0, TmHasDate DEF TmOk
  <2>2. TypeOK
    <3>1. /\ MaxUploads \in Nat /\ MaxFails \in Nat /\ MaxLines \in Nat /\ MaxGroups \in [Thread -> Nat]
          /\ raw = [t \in Thread |-> 0] /\ raw \in [Thread -> Hour] /\ now \in Hour
      BY <2>0, HoursHaveDates DEF Init
    <3>2. /\ \A t \in Thread : groups[t] \in 0..MaxGroups[t]
          /\ uploads \in 0..MaxUploads /\ fails \in 0..MaxFails /\ lines \in 0..MaxLines
      BY <3>1 DEF Init
    <3>3. /\ pc \in [Thread -> {"call", "local", "utc", "fields", "write", "append"}]
          /\ path \in [Thread -> {"none", "sample", "ram", "orphan"}] /\ flag \in BOOLEAN
          /\ gest \in {"idle", "create", "unflag", "clear", "cat", "rm"}
          /\ DOMAIN file = {"sample", "ram"}
          /\ alone \in [Thread -> BOOLEAN] /\ apart \in [Thread -> SUBSET (Kind \cup {"path"})]
      BY DEF Init
    <3> QED BY <2>0, <2>1, <3>1, <3>2, <3>3 DEF TypeOK
  <2>3. GroupOk(<<>>)
    BY DEF GroupOk
  <2>4. CallsOk
    BY <2>0, <2>3, HoursHaveDates DEF Init, CallsOk
  <2>5. InSOR /\ AloneOk /\ PathOk
    BY DEF Init, InSOR, SOROk, AloneOk, PathOk
  <2>6. FilesOk
    BY EmptyOk DEF Init, FilesOk
  <2>7. SensorGiven /\ TimeGiven
    BY DEF Init, SensorGiven, TimeGiven
  <2> QED BY <2>1, <2>2, <2>4, <2>5, <2>6, <2>7 DEF TagProven, TagTypes
<1>2. TagProven /\ [Next]_vars => TagProven'
  BY TypesKept, FilesKept, SensorGivenKept, TimeGivenKept DEF TagProven
<1> QED BY <1>1, <1>2, PTL DEF Spec

(* However the two threads mix their tags, and GestFtp changes the files      *)
(* between them: a measure is read as its own sensor's, unless its           *)
(* CURRENTSENSOR could not be written, or GestFtp changed FtpUploading or    *)
(* the files after WriteToFile had chosen one for it, or the other thread    *)
(* wrote one of its own in between.                                          *)
THEOREM TagsKeepTheirSensor == Spec => []TagLogInv
<1>1. TagProven => TagLogInv
  <2> SUFFICES ASSUME TagProven
               PROVE  RightSensor
    BY DEF TagProven, TagTypes, TagLogInv
  <2>1. ASSUME NEW q, FileOk(q), NEW i \in DOMAIN q,
               Tag(q, i) \in {"MEASURE", "SAMPLE_TIME_CHANGED"}, "CURRENTSENSOR" \notin q[i].apart
        PROVE  \E j \in ReadAfter(q, i, "CURRENTSENSOR") :
                 q[j].by = q[i].by => q[j].call.sensor = q[i].call.sensor
    <3>1. i \in 1..Len(q)
      BY <2>1 DEF FileOk, SeqOk
    <3> QED BY <2>1, <3>1 DEF FileOk, ReadsSensor, OfSensor, Tag
  <2> QED BY <2>1 DEF TagProven, FilesOk, RightSensor
<1> QED BY <1>1, TagLogIsInductive, PTL

(* And with the time it is about, which the SOR says in GMT and the          *)
(* deviation of winter, unless the SOR is the other thread's, or could not   *)
(* be written, or FtpUploading or the files changed in between, or another   *)
(* thread got at the struct tm while it was worked out, or Tag_SOR took the  *)
(* time for summer.                                                          *)
THEOREM TagsKeepTheirTime == Spec => []RightTime
<1>1. TagProven => RightTime
  <2> SUFFICES ASSUME TagProven
               PROVE  RightTime
    OBVIOUS
  <2>1. ASSUME NEW q, FileOk(q), NEW i \in DOMAIN q, Tag(q, i) # "SOR", "SOR" \notin q[i].apart
        PROVE  \E j \in ReadAfter(q, i, "SOR") :
                 q[j].by = q[i].by =>
                   /\ q[j].sor.raw \in q[i].at
                   /\ q[j].sor.alone /\ Dst(q[j].sor.raw - zone) = 0 =>
                         Says(q[j].sor.bytes, Calendar[q[j].sor.raw], zone)
    <3>1. i \in 1..Len(q)
      BY <2>1 DEF FileOk, SeqOk
    <3> QED BY <2>1, <3>1 DEF FileOk, ReadsTime, SaysTime
  <2> QED BY <2>1 DEF TagProven, FilesOk, RightTime
<1> QED BY <1>1, TagLogIsInductive, PTL
=============================================================================
