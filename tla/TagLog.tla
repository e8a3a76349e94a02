-------------------------------- MODULE TagLog --------------------------------
(***************************************************************************)
(* The tags in the sample log and what a reader makes of them (rimms.c,    *)
(* with the callers in protocolrimms.c and command.c).                     *)
(*                                                                         *)
(* A tag is written after a Tag_SOR that says its time, and the measures   *)
(* of a sensor after a Tag_CURRENTSENSOR.  Each of them is one WriteToFile, *)
(* which looks at FtpUploading for the file, SAMPLE_FILE or SAMPLE_RAM, and *)
(* may fail to open it, and nobody looks at what it returns.  thread_RiMMS  *)
(* and thread_comunication both write: their tags mix; and GestFtp, on the *)
(* latter, changes FtpUploading, removes SAMPLE_FILE and appends SAMPLE_RAM *)
(* to it between two tags of the other.  Tag_SOR works out the time in the *)
(* struct tm that the C library keeps for the whole process, which every   *)
(* line another thread logs overwrites; mktime writes into it too.         *)
(*                                                                         *)
(* Times are in hours, and so is the deviation of the clock from GMT.  What *)
(* is uploaded is SAMPLE_FILE as it is at some moment.  Which records get   *)
(* lost, and what a crash leaves, is in SampleStore.                        *)
(***************************************************************************)
EXTENDS SorTag, Sequences, FiniteSets

CONSTANTS
    Sensor,      \* the sensors
    Calendar,    \* the date and time of every hour, a function to StructTm
    Zone,        \* the offsets the clock may have from GMT without summer time
    Season,      \* the sets of hours that may be those of summer time
    MaxHour,     \* the last hour the clock gets to
    MaxGroups,   \* how many groups of tags a thread begins, but for uploads
    MaxUploads,  \* how many uploads there are
    MaxFails,    \* how often a file cannot be opened
    MaxLines,    \* how many lines other threads log while one is in Tag_SOR
    MaxEvents    \* how much of all this there is beside the groups of thread_RiMMS

Thread == {"RiMMS", "comunication"}
Kind ==
    {"SOR", "CURRENTSENSOR", "MEASURE", "SAMPLE_TIME_CHANGED", "SENSORFAILURE",
     "DOWNLOAD_STARTED", "DOWNLOAD_FAILED", "STORAGE_CLEARED"}
Hour == 0..MaxHour

ASSUME TagLogAssumption ==
    /\ Zone \subseteq -12..12 /\ MaxHour \in Nat /\ MaxGroups \in [Thread -> Nat]
    /\ MaxUploads \in Nat /\ MaxFails \in Nat /\ MaxLines \in Nat /\ MaxEvents \in Nat
    /\ \A zone \in Zone : zone..(MaxHour + zone + 1) \cup (0..MaxHour + 1) \subseteq DOMAIN Calendar
    /\ \A hour \in DOMAIN Calendar : Calendar[hour] \in StructTm

(* The calls that write tags.  A SOR is asked for an hour, or with 0 for    *)
(* the time at which it is written.                                         *)
Now == -1
SOR(hour) == [tag |-> "SOR", hour |-> hour]
Of(tag, s) == [tag |-> tag, sensor |-> s]
Taken(tag, s, hour) == [tag |-> tag, sensor |-> s, hour |-> hour]

(* Mutant: the measures are written with the time at which they are written. *)
SampleOfNow(s, hour) ==
    << SOR(Now), Of("CURRENTSENSOR", s), SOR(Now), Taken("MEASURE", s, hour) >>

(* A sample of sensor s taken at an hour, as ParserData writes it, with one *)
(* measure for the three, which are written alike, each after its SOR.      *)
Sample(s, hour) ==
    << SOR(Now), Of("CURRENTSENSOR", s), SOR(hour), Taken("MEASURE", s, hour) >>

(* A command changes a sensor's period.                                     *)
Period(s) == << SOR(Now), Of("CURRENTSENSOR", s), Of("SAMPLE_TIME_CHANGED", s) >>

(* Something happens that no other tag is read with: Parser finds that a    *)
(* sensor is silent, GestFtp begins or ends an upload.                      *)
Event(tag) == << SOR(Now), [tag |-> tag] >>

VARIABLES
    now,      \* the clock, in hours
    zone, summer, \* where the centralina is, and when summer time is there
    tm,       \* the C library's struct tm: the hour it says, and tm_isdst
    calls,    \* what each thread has still to write of its group
    groups,   \* how many groups it has begun
    pc,       \* where it is in the first of calls
    raw,      \* rawtime
    fuse,     \* local, then offsetFromUTC
    data,     \* data, the bytes Tag_SOR has packed
    path,     \* the file WriteToFile has chosen, and opened
    flag,     \* FtpUploading
    gest,     \* where thread_comunication is in GestFtp
    file,     \* SAMPLE_FILE and SAMPLE_RAM
    uploads, fails, lines, \* how many of each there have been
    \* what is observed, and influences nothing:
    begun,    \* the hour in which its group was begun
    alone,    \* no other thread has written to tm since this Tag_SOR began
    apart     \* the kinds of tag whose last, of this thread, could not be
              \* written, or was before the files were changed; and "path" when
              \* that happened after WriteToFile had chosen one

groupVars == <<calls, groups, begun>>
sorVars == <<raw, fuse, data>>
timeVars == <<now, zone, summer>>
gestVars == <<flag, gest, uploads>>
fileVars == <<path, gestVars, file, fails, apart>>
vars == <<timeVars, tm, lines, groupVars, pc, sorVars, fileVars, alone>>

-----------------------------------------------------------------------------
(* time.h *)

Dst(hour) == IF hour \in summer THEN 1 ELSE 0
Local(hour) == [hour |-> hour + zone + Dst(hour), isdst |-> hour \in summer]
GMT(hour) == [hour |-> hour, isdst |-> FALSE]

(* mktime takes tm for local time, with or without summer time as tm_isdst  *)
(* says, returns the time and sets all fields to the local time it is.      *)
MkTime == tm.hour - zone - (IF tm.isdst THEN 1 ELSE 0)

(* A write to tm by thread t, or by one that writes no tags, "log".         *)
SetTm(t, new) ==
    /\ tm' = new
    /\ alone' = [u \in Thread |-> alone[u] /\ u = t]

-----------------------------------------------------------------------------
(* The groups of tags *)

(* The bound on what happens beside the tags of thread_RiMMS, hours included; *)
(* an upload, which has the most steps, counts for three.                   *)
Spent == groups["comunication"] + 3 * uploads + fails + lines + now

Free(t) == calls[t] = <<>> /\ (t = "comunication" => gest = "idle")

Starts(t, group) ==
    /\ calls' = [calls EXCEPT ![t] = group]
    /\ begun' = [begun EXCEPT ![t] = now]

Begin(t, group) ==
    /\ Free(t) /\ groups[t] < MaxGroups[t]
    /\ Starts(t, group)
    /\ groups' = [groups EXCEPT ![t] = @ + 1]
    /\ UNCHANGED <<timeVars, tm, lines, pc, sorVars, fileVars, alone>>

(* thread_RiMMS: Parser, and the commands of the web page; the time of a    *)
(* sample is its sensor's, in the past.                                     *)
BeginRiMMS ==
    \E s \in Sensor :
        \/ \E hour \in 0..now : Begin("RiMMS", Sample(s, hour))
        \/ Begin("RiMMS", Event("SENSORFAILURE"))
        \/ Begin("RiMMS", Period(s))

(* thread_comunication: the server's commands.                              *)
BeginComunication == Spent < MaxEvents /\ \E s \in Sensor : Begin("comunication", Period(s))

Call(t) == Head(calls[t])
Calls(t, tag) == calls[t] # <<>> /\ Call(t).tag = tag
At(t, place) == calls[t] # <<>> /\ pc[t] = place
Goto(t, place) == pc' = [pc EXCEPT ![t] = place]

-----------------------------------------------------------------------------
(* Tag_SOR *)

(* ptm = localtime ( &rawtime ); *)
AskLocal(t) ==
    /\ At(t, "call") /\ Call(t).tag = "SOR"
    /\ LET hour == IF Call(t).hour = Now THEN now ELSE Call(t).hour
       IN  /\ raw' = [raw EXCEPT ![t] = hour]
           /\ tm' = Local(hour)
    /\ alone' = [u \in Thread |-> u = t]
    /\ Goto(t, "local")
    /\ UNCHANGED <<timeVars, lines, groupVars, fuse, data, fileVars>>

(* local = mktime( ptm ), and at once ptm = gmtime ( &rawtime ).             *)
MkLocal(t) ==
    /\ At(t, "local")
    /\ fuse' = [fuse EXCEPT ![t] = MkTime]
    /\ SetTm(t, GMT(raw[t]))
    /\ Goto(t, "utc")
    /\ UNCHANGED <<timeVars, lines, groupVars, raw, data, fileVars>>

(* utc = mktime( ptm ); the difference of the two, in hours.                *)
MkUTC(t) ==
    /\ At(t, "utc")
    /\ fuse' = [fuse EXCEPT ![t] = @ - MkTime]
    /\ SetTm(t, Local(MkTime))
    /\ Goto(t, "fields")
    /\ UNCHANGED <<timeVars, lines, groupVars, raw, data, fileVars>>

(* The fields of ptm are packed.                                            *)
PackFields(t) ==
    /\ At(t, "fields")
    /\ data' = [data EXCEPT ![t] =
         [raw |-> raw[t], alone |-> alone[t], bytes |-> Stamp(Calendar[tm.hour], fuse[t])]]
    /\ Goto(t, "write")
    /\ raw' = [raw EXCEPT ![t] = 0] /\ fuse' = [fuse EXCEPT ![t] = 0]
    /\ alone' = [alone EXCEPT ![t] = FALSE]
    /\ UNCHANGED <<timeVars, tm, lines, groupVars, fileVars>>

TagSOR(t) == AskLocal(t) \/ MkLocal(t) \/ MkUTC(t) \/ PackFields(t)

-----------------------------------------------------------------------------
(* WriteToFile, which every tag ends with *)

Chosen == IF flag THEN "ram" ELSE "sample"

(* strcpy of the file's name, chosen by FtpUploading.                       *)
ChoosePath(t) ==
    /\ At(t, "write") \/ (At(t, "call") /\ Call(t).tag # "SOR")
    /\ path' = [path EXCEPT ![t] = Chosen]
    /\ apart' = [apart EXCEPT ![t] = @ \ {"path"}]
    /\ Goto(t, "append")
    /\ UNCHANGED <<timeVars, tm, lines, groupVars, sorVars, gestVars, file, fails, alone>>

(* WriteToFile returns, and nobody looks at what.                           *)
Return(t) ==
    /\ Goto(t, "call")
    /\ calls' = [calls EXCEPT ![t] = Tail(@)]
    /\ path' = [path EXCEPT ![t] = "none"]
    /\ data' = [data EXCEPT ![t] = <<>>]
    /\ UNCHANGED <<timeVars, lines, groups, begun, raw, fuse, gestVars>>

(* The tag, with the hours it is about.                                     *)
Entry(t) ==
    [by |-> t, call |-> Call(t), apart |-> apart[t], sor |-> data[t],
     at |-> IF "hour" \in DOMAIN Call(t) THEN {Call(t).hour} ELSE begun[t]..now]

(* Mutant: the file is opened to be written from its start. *)
AppendTagTruncating(t) ==
    /\ At(t, "append")
    /\ file' = IF path[t] = "orphan" THEN file ELSE [file EXCEPT ![path[t]] = <<Entry(t)>>]
    /\ apart' = [apart EXCEPT ![t] = IF "path" \in @ THEN @ ELSE @ \ {Call(t).tag}]
    /\ UNCHANGED <<fails, tm, alone>>
    /\ Return(t)

(* A file that was removed after fopen is one without a name, "orphan".      *)
AppendTag(t) ==
    /\ At(t, "append")
    /\ file' = IF path[t] = "orphan" THEN file ELSE [file EXCEPT ![path[t]] = Append(@, Entry(t))]
    /\ apart' = [apart EXCEPT ![t] = IF "path" \in @ THEN @ ELSE @ \ {Call(t).tag}]
    /\ UNCHANGED <<fails, tm, alone>>
    /\ Return(t)

(* fopen fails, and WriteDebug says so when debug is set.                   *)
OpenFails(t) ==
    /\ At(t, "append") /\ fails < MaxFails /\ Spent < MaxEvents
    /\ fails' = fails + 1
    /\ apart' = [apart EXCEPT ![t] = @ \cup {Call(t).tag}]
    /\ SetTm(t, Local(now)) \/ UNCHANGED <<tm, alone>>
    /\ UNCHANGED file
    /\ Return(t)

-----------------------------------------------------------------------------
(* thread_comunication: GestFtp *)

FilesChanged == apart' = [t \in Thread |-> {"path", "SOR", "CURRENTSENSOR"}]

(* The other thread may have a file open that is removed.                   *)
Removed(name) ==
    \E t \in Thread : path' \in {path, IF path[t] = name THEN [path EXCEPT ![t] = "orphan"] ELSE path}

In(place) == calls["comunication"] = <<>> /\ gest = place

(* An upload is due: FtpUploading is set, and the tags say so.              *)
BeginUpload ==
    /\ In("idle") /\ uploads < MaxUploads /\ Spent + 3 <= MaxEvents
    /\ uploads' = uploads + 1
    /\ flag' = TRUE
    /\ FilesChanged
    /\ Starts("comunication", Event("DOWNLOAD_STARTED"))
    /\ gest' = "create"
    /\ UNCHANGED <<timeVars, tm, lines, groups, pc, sorVars, path, file, fails, alone>>

(* CreateFileToUpload fails and FtpUploading stays set; or what it wrote     *)
(* cannot be loaded; or ftpupload_RiMMS fails.                               *)
UploadFails ==
    /\ In("create")
    /\ Starts("comunication", Event("DOWNLOAD_FAILED"))
    /\ gest' \in {"idle", "unflag", "clear"}
    /\ UNCHANGED <<timeVars, tm, lines, groups, pc, sorVars, path, flag, uploads, file, fails, apart, alone>>

(* RemoveFileSample; STORAGE_CLEARED stands for the pair of it and           *)
(* DOWNLOAD_COMPLETED.                                                       *)
Uploaded ==
    /\ In("create")
    /\ file' = [file EXCEPT !["sample"] = <<>>]
    /\ Removed("sample")
    /\ FilesChanged
    /\ Starts("comunication", Event("STORAGE_CLEARED"))
    /\ gest' = "clear"
    /\ UNCHANGED <<timeVars, tm, lines, groups, pc, sorVars, flag, uploads, fails, alone>>

(* FtpUploading = 0; without what follows when LoadFile failed.             *)
ClearFlag ==
    /\ In("unflag") \/ In("clear")
    /\ flag' = FALSE
    /\ FilesChanged
    /\ gest' = IF gest = "clear" THEN "cat" ELSE "idle"
    /\ UNCHANGED <<timeVars, tm, lines, groupVars, pc, sorVars, path, uploads, file, fails, alone>>

(* cat SAMPLE_RAM >> SAMPLE_FILE                                            *)
Cat ==
    /\ In("cat")
    /\ file' = [file EXCEPT !["sample"] = @ \o file["ram"]]
    /\ FilesChanged
    /\ gest' = "rm"
    /\ UNCHANGED <<timeVars, tm, lines, groupVars, pc, sorVars, path, flag, uploads, fails, alone>>

(* rm SAMPLE_RAM                                                            *)
Rm ==
    /\ In("rm")
    /\ file' = [file EXCEPT !["ram"] = <<>>]
    /\ Removed("ram")
    /\ FilesChanged
    /\ gest' = "idle"
    /\ UNCHANGED <<timeVars, tm, lines, groupVars, pc, sorVars, flag, uploads, fails, alone>>

GestFtp == BeginUpload \/ UploadFails \/ Uploaded \/ ClearFlag \/ Cat \/ Rm

-----------------------------------------------------------------------------
(* A line is written to the log, or the clock to the display, while a thread *)
(* is in Tag_SOR; GestFtp's own lines are among them.                       *)
LogLine ==
    /\ lines < MaxLines /\ Spent < MaxEvents /\ \E t \in Thread : alone[t]
    /\ lines' = lines + 1
    /\ SetTm("log", Local(now))
    /\ UNCHANGED <<timeVars, groupVars, pc, sorVars, fileVars>>

Tick ==
    /\ now < MaxHour /\ Spent < MaxEvents
    /\ now' = now + 1
    /\ UNCHANGED <<zone, summer, tm, lines, groupVars, pc, sorVars, fileVars, alone>>

Init ==
    /\ now = 0 /\ zone \in Zone /\ summer \in Season
    /\ tm = GMT(0)
    /\ calls = [t \in Thread |-> <<>>] /\ groups = [t \in Thread |-> 0]
    /\ pc = [t \in Thread |-> "call"]
    /\ raw = [t \in Thread |-> 0] /\ fuse = [t \in Thread |-> 0] /\ data = [t \in Thread |-> <<>>]
    /\ path = [t \in Thread |-> "none"] /\ flag = FALSE /\ gest = "idle"
    /\ file = [name \in {"sample", "ram"} |-> <<>>] /\ uploads = 0 /\ fails = 0 /\ lines = 0
    /\ alone = [t \in Thread |-> FALSE] /\ begun = [t \in Thread |-> 0]
    /\ apart = [t \in Thread |-> {}]

WriteToFile(t) == ChoosePath(t) \/ AppendTag(t) \/ OpenFails(t)

Next ==
    \/ BeginRiMMS \/ BeginComunication \/ GestFtp
    \/ \E t \in Thread : TagSOR(t) \/ WriteToFile(t)
    \/ LogLine \/ Tick

Spec == Init /\ [][Next]_vars

-----------------------------------------------------------------------------
(* What a reader of a file q makes of entry i: SOR says the time of what    *)
(* follows it, and CURRENTSENSOR whose the measures are.                    *)

Tag(q, i) == q[i].call.tag
ReadAfter(q, i, tag) ==
    {j \in 1..(i - 1) : Tag(q, j) = tag /\ \A k \in (j + 1)..(i - 1) : Tag(q, k) # tag}

TypeOK ==
    /\ now \in Hour /\ zone \in Zone /\ summer \in Season
    /\ tm.hour \in DOMAIN Calendar
    /\ \A t \in Thread : groups[t] \in 0..MaxGroups[t]
    /\ raw \in [Thread -> Hour]
    /\ pc \in [Thread -> {"call", "local", "utc", "fields", "write", "append"}]
    /\ path \in [Thread -> {"none", "sample", "ram", "orphan"}] /\ flag \in BOOLEAN
    /\ gest \in {"idle", "create", "unflag", "clear", "cat", "rm"}
    /\ uploads \in 0..MaxUploads /\ fails \in 0..MaxFails /\ lines \in 0..MaxLines
    /\ DOMAIN file = {"sample", "ram"}
    /\ alone \in [Thread -> BOOLEAN] /\ apart \in [Thread -> SUBSET (Kind \cup {"path"})]

(* A measure is read as its own sensor's.  Its writer's own CURRENTSENSOR    *)
(* is then the one it is read with: this holds unless that could not be     *)
(* written, or GestFtp changed FtpUploading or the files after WriteToFile   *)
(* had chosen one for it, or the other thread wrote one of its own after it *)
(* (ParserData, ParserCommand, GestFtp).                                     *)
RightSensor ==
    \A q \in {file["sample"], file["ram"]} : \A i \in DOMAIN q :
        /\ Tag(q, i) \in {"MEASURE", "SAMPLE_TIME_CHANGED"}
        /\ "CURRENTSENSOR" \notin q[i].apart
        => \E j \in ReadAfter(q, i, "CURRENTSENSOR") :
             q[j].by = q[i].by => q[j].call.sensor = q[i].call.sensor

(* The log's types and its measures' sensors.                                *)
TagLogInv == TypeOK /\ RightSensor

(* The SOR a tag is read with is for the time the tag is about, a sample's   *)
(* own or that of the writing, unless it is the other thread's, or the tag's *)
(* own SOR could not be written, or FtpUploading or the files changed in     *)
(* between; and when no other thread used the C library's struct tm in       *)
(* Tag_SOR, it says that time in GMT and the deviation of winter, but for    *)
(* the times that Tag_SOR takes for summer: those that are in summer when    *)
(* the zone's hours are taken from them once more (mktime of gmtime).        *)
RightTime ==
    \A q \in {file["sample"], file["ram"]} : \A i \in DOMAIN q :
        /\ Tag(q, i) # "SOR"
        /\ "SOR" \notin q[i].apart
        => \E j \in ReadAfter(q, i, "SOR") :
             q[j].by = q[i].by =>
               /\ q[j].sor.raw \in q[i].at
               /\ q[j].sor.alone /\ Dst(q[j].sor.raw - zone) = 0 =>
                     Says(q[j].sor.bytes, Calendar[q[j].sor.raw], zone)
=============================================================================
