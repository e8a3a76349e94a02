---------------------------- MODULE UploadSchedule ----------------------------
(***************************************************************************)
(* When GestFtp uploads (rimms.c).  An upload is due once transferperiod   *)
(* seconds have passed since lasttransferperiod; InitRiMMS, a failed       *)
(* upload, a modem that is offline, every alarm of a sensor and the        *)
(* command SYSTEM,FORCEUPDATE move lasttransferperiod so that the next     *)
(* upload is due in a few seconds; PARAM loads transferperiod again.       *)
(* thread_RiMMS raises the alarms (Parser and CheckSensorThresholds of     *)
(* protocolrimms.c) and answers commands of its channel, while             *)
(* thread_comunication is in GestFtp or answers commands of its own.       *)
(***************************************************************************)
EXTENDS Integers

CONSTANTS
    Settings,        \* the values the configuration may have for transferperiod
    DefaultPeriod,   \* 3600: LoadConfig, for a value that is not positive
    FirstUpload,     \* 30: InitRiMMS
    OfflineRetry,    \* 15: the modem is not online
    FailureRetry,    \* 15: the upload failed
    AlarmDelay,      \* 5: an alarm or a command asks for an upload
    Longest          \* bound: no period is longer

ASSUME ScheduleAssumption ==
    /\ Settings \subseteq Int /\ DefaultPeriod \in Nat \ {0} /\ Longest \in Nat
    /\ FirstUpload \in Nat /\ OfflineRetry \in Nat
    /\ FailureRetry \in Nat /\ AlarmDelay \in Nat
    /\ \A v \in Settings \cup {DefaultPeriod} : v <= Longest

VARIABLES
    modemOnline,  \* GetModemStatus() == 1
    period,       \* transferperiod
    last,         \* lasttransferperiod - GetClockSecond(), not below -Longest
    upc,          \* where thread_comunication is in GestFtp or LoadConfig
    alarm,        \* where thread_RiMMS is with an alarm or in LoadConfig
    quiet,        \* seconds since an upload was last asked for, as far as they matter
    waiting,      \* the newest alarm not yet uploaded: the file its tag is in
    flag,         \* FtpUploading
    stranded,     \* observed only: an upload gave up on the newest alarm
    base,         \* observed only: transferperiod when lasttransferperiod was set
    polled        \* GestFtp has been called in this second

vars == <<modemOnline, period, last, upc, alarm, quiet, waiting, flag, stranded, base,
          polled>>

(* Seconds until the next upload is due. *)
Left == last + period

(* lasttransferperiod is set so that the next upload is due in sec seconds;  *)
(* the two reads and the write of the line are one step.                     *)
ForceUpload(sec) == last' = sec - period /\ base' = period

-----------------------------------------------------------------------------
(* thread_RiMMS: the tag of the alarm is stored, then ForceUpload(5). *)
StoreAlarm ==
    /\ alarm = "none"
    /\ alarm' = "stored"
    /\ waiting' = IF flag THEN "ram" ELSE "sample"
    /\ stranded' = (flag /\ upc \notin {"create", "send"})
    /\ UNCHANGED <<modemOnline, period, last, base, upc, quiet, flag, polled>>

ForceAlarm ==
    /\ alarm = "stored"
    /\ ForceUpload(AlarmDelay)
    /\ alarm' = "none"
    /\ quiet' = 0
    /\ UNCHANGED <<modemOnline, period, upc, waiting, flag, stranded, polled>>

-----------------------------------------------------------------------------
(* Commands: each of the two threads may carry one out between its calls of  *)
(* Parser or GestFtp.                                                        *)

(* SYSTEM,FORCEUPDATE *)
ForceUpdate ==
    /\ alarm = "none" \/ upc = "done"
    /\ ForceUpload(AlarmDelay)
    /\ quiet' = 0
    /\ UNCHANGED <<modemOnline, period, upc, alarm, waiting, flag, stranded, polled>>

(* PARAM: LoadConfig reads transferperiod from the file ... *)
LoadPeriod ==
    /\ \/ alarm = "none" /\ alarm' = "default" /\ UNCHANGED upc
       \/ upc = "done" /\ upc' = "default" /\ UNCHANGED alarm
    /\ period' \in Settings
    /\ UNCHANGED <<modemOnline, last, base, quiet, waiting, flag, stranded, polled>>

(* ... and puts one hour where it finds a value that is not positive. *)
DefaultPeriodLoaded ==
    /\ period' = IF period <= 0 THEN DefaultPeriod ELSE period
    /\ UNCHANGED <<modemOnline, last, base, quiet, waiting, flag, stranded, polled>>

RiMMSLoaded ==
    /\ alarm = "default"
    /\ alarm' = "none"
    /\ DefaultPeriodLoaded
    /\ UNCHANGED upc

ComunicationLoaded ==
    /\ upc = "default"
    /\ upc' = "done"
    /\ DefaultPeriodLoaded
    /\ UNCHANGED alarm

-----------------------------------------------------------------------------
(* thread_comunication: GestFtp *)

NothingDue ==
    /\ upc = "gest"
    /\ Left > 0
    /\ upc' = "done"
    /\ UNCHANGED <<modemOnline, period, last, base, alarm, quiet, waiting, flag, stranded, polled>>

(* Mutant: no second upload while FtpUploading is set. *)
DueUnlessUploading ==
    /\ upc = "gest"
    /\ Left <= 0
    /\ ~flag
    /\ upc' = "due"
    /\ UNCHANGED <<modemOnline, period, last, base, alarm, quiet, waiting, flag, stranded, polled>>

Due ==
    /\ upc = "gest"
    /\ Left <= 0
    /\ upc' = "due"
    /\ UNCHANGED <<modemOnline, period, last, base, alarm, quiet, waiting, flag, stranded, polled>>

ModemOffline ==
    /\ upc = "due"
    /\ ~modemOnline
    /\ ForceUpload(OfflineRetry)
    /\ upc' = "done"
    /\ UNCHANGED <<modemOnline, period, alarm, quiet, waiting, flag, stranded, polled>>

ModemOnline ==
    /\ upc = "due"
    /\ modemOnline
    /\ upc' = "start"
    /\ UNCHANGED <<modemOnline, period, last, base, alarm, quiet, waiting, flag, stranded, polled>>

(* lasttransferperiod = GetClockSecond(); FtpUploading = 1 *)
StartUpload ==
    /\ upc = "start"
    /\ last' = 0 /\ base' = period
    /\ upc' = "create"
    /\ flag' = TRUE
    /\ UNCHANGED <<modemOnline, period, alarm, quiet, waiting, stranded, polled>>

(* CreateFileToUpload takes its snapshot of SAMPLE_FILE. *)
Snapshot ==
    /\ upc = "create"
    /\ upc' = "send"
    /\ UNCHANGED <<modemOnline, period, last, base, alarm, quiet, waiting, flag, stranded, polled>>

(* It fails: the next upload is a whole period away, and the flag is kept. *)
GiveUpCreate ==
    /\ upc = "create"
    /\ stranded' = TRUE
    /\ upc' = "done"
    /\ UNCHANGED <<modemOnline, period, last, base, alarm, quiet, waiting, flag, polled>>

(* LoadFile fails: a whole period too, and SAMPLE_RAM stays where it is. *)
GiveUpLoad ==
    /\ upc = "send"
    /\ stranded' = TRUE
    /\ flag' = FALSE
    /\ upc' = "done"
    /\ UNCHANGED <<modemOnline, period, last, base, alarm, quiet, waiting, polled>>

(* SAMPLE_RAM is appended to SAMPLE_FILE when the upload has ended. *)
EndUpload(rest) ==
    /\ upc = "send"
    /\ flag' = FALSE
    /\ waiting' = IF waiting = "ram" THEN "sample" ELSE rest
    /\ upc' = "done"
    /\ UNCHANGED <<modemOnline, period, alarm, quiet, stranded, polled>>

UploadSucceeds == EndUpload("none") /\ UNCHANGED <<last, base>>

(* Mutant: the retry after a failure is forgotten. *)
UploadFailsForGood == EndUpload(waiting) /\ UNCHANGED <<last, base>>

UploadFails == EndUpload(waiting) /\ ForceUpload(FailureRetry)

(* thread_comunication calls GestFtp every half second, unless GestFtp itself *)
(* takes long.                                                               *)
CallGestFtp ==
    /\ upc = "done"
    /\ ~polled
    /\ upc' = "gest"
    /\ polled' = TRUE
    /\ UNCHANGED <<modemOnline, period, last, base, alarm, quiet, waiting, flag, stranded>>

-----------------------------------------------------------------------------
Busy == upc \in {"create", "send"}

(* A second passes: GestFtp has been called in it or is busy. *)
Tick ==
    /\ (polled /\ upc = "done") \/ Busy
    /\ last' = IF last > -Longest THEN last - 1 ELSE last
    /\ quiet' = IF quiet <= AlarmDelay THEN quiet + 1 ELSE quiet
    /\ polled' = FALSE
    /\ UNCHANGED <<modemOnline, period, base, upc, alarm, waiting, flag, stranded>>

ModemChanges ==
    /\ modemOnline' = ~modemOnline
    /\ UNCHANGED <<period, last, base, upc, alarm, quiet, waiting, flag, stranded, polled>>

-----------------------------------------------------------------------------
(* main has loaded the configuration when it calls InitRiMMS. *)
Init ==
    /\ modemOnline \in BOOLEAN
    /\ period \in {v \in Settings \cup {DefaultPeriod} : v > 0}
    /\ last = FirstUpload - period /\ base = period
    /\ upc = "done" /\ polled = FALSE
    /\ alarm = "none" /\ quiet = AlarmDelay + 1 /\ waiting = "none"
    /\ flag = FALSE /\ stranded = FALSE

GestFtp ==
    \/ NothingDue
    \/ Due
    \/ ModemOffline
    \/ ModemOnline
    \/ StartUpload
    \/ Snapshot
    \/ GiveUpCreate
    \/ GiveUpLoad
    \/ UploadSucceeds
    \/ UploadFails

Comunication == CallGestFtp \/ GestFtp

Alarms == StoreAlarm \/ ForceAlarm

CommandsComing == ForceUpdate \/ LoadPeriod

Loaded == RiMMSLoaded \/ ComunicationLoaded

Next == Comunication \/ Alarms \/ CommandsComing \/ Loaded \/ Tick \/ ModemChanges

Spec == Init /\ [][Next]_vars

(* The two threads are scheduled and time passes; an alarm or a command need *)
(* never come.  thread_comunication calls GestFtp once in every round of its *)
(* loop, and time passes, however many commands come: hence SF.              *)
Fairness ==
    /\ WF_vars(GestFtp) /\ SF_vars(CallGestFtp)
    /\ WF_vars(ForceAlarm)
    /\ WF_vars(RiMMSLoaded) /\ WF_vars(ComunicationLoaded)
    /\ SF_vars(Tick)

FairSpec == Spec /\ Fairness

Delays == {OfflineRetry, FailureRetry, AlarmDelay, FirstUpload}

TypeOK ==
    /\ modemOnline \in BOOLEAN
    /\ {period, base} \subseteq Settings \cup {DefaultPeriod}
    /\ last \in Int /\ \E d \in Delays \cup {base} : last + base <= d
    /\ upc \in {"gest", "due", "start", "create", "send", "done", "default"}
    /\ alarm \in {"none", "stored", "default"}
    /\ quiet \in 0..(AlarmDelay + 1)
    /\ waiting \in {"none", "sample", "ram"}
    /\ flag \in BOOLEAN /\ stranded \in BOOLEAN /\ polled \in BOOLEAN

-----------------------------------------------------------------------------
(* An alarm is not left for the regular upload, hours away: once            *)
(* thread_RiMMS has asked for an upload, the next one is due within the     *)
(* short delays, or one is under way whose snapshot has the alarm, unless   *)
(* an upload gave up before it sent anything, or PARAM loaded a longer      *)
(* transferperiod than the one lasttransferperiod was reckoned with.  The   *)
(* tag is stored before ForceUpload, so a GestFtp that forgets the request  *)
(* has taken the tag.                                                       *)
AlarmIsPrompt ==
    waiting # "none" /\ alarm # "stored" =>
        \/ \E d \in Delays : Left <= d
        \/ waiting = "sample" /\ upc \in {"create", "send"}
        \/ stranded
        \/ period > base

(* The types of the schedule, and that an alarm is prompt.                  *)
ScheduleInv == TypeOK /\ AlarmIsPrompt

(* However often alarms, commands and failures move lasttransferperiod,     *)
(* uploads go on as long as the modem is online, unless requests keep coming*)
(* within the delay each of them sets, or transferperiod keeps being raised.*)
UploadsGoOn ==
    <>[]modemOnline =>
        \/ []<>(upc = "create")
        \/ <>[](quiet <= AlarmDelay)
        \/ []<><<period' > period>>_vars
=============================================================================
