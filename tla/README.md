# A TLA+ model of RiMMS-Linux

RiMMS is the program of a small Linux gateway: it receives measurements from
battery-powered radio sensors over a serial line, logs them to a file, uploads
the file to an FTP server over a modem, and takes commands from the server over
UDP and from a local web server over shared memory. The code is one C process
with four threads and no lock between them (`src/sw`). The modules here model
the parts in which that matters: the hand-over of the log between two threads,
the upload, its schedule, the uplink, the radio link with the sensor table, the
alive timers, the commands with the database behind them, the tags in the log,
the messages on the display, and the start and end of the program.

## The system

| component | code | state | operations | interacts with |
|---|---|---|---|---|
| sample log and upload | `rimms.c` | `FtpUploading`, `sample.dat`, `ramdisk/sample.dat`, the file to upload | `WriteToFile` and the `Tag_` functions on it, `CreateFileToUpload`, `GestFtp` | written by thread_RiMMS (samples, alarms) and by thread_comunication (its own tags, commands) |
| upload schedule | `rimms.c` | `lasttransferperiod`, `transferperiod` | `InitRiMMS`, `ForceUpload`, the guard of `GestFtp`; SYSTEM,FORCEUPDATE and PARAM (`LoadConfig`) | set by both threads |
| FTP client | `ftpclient.c` | two sockets, the position in the dialogue | `ftpupload_RiMMS` | called by `GestFtp`; the server is external |
| modem | `modem.c` | `Modem.status`, `registered`, the ppp link | `GestModem` every half second on thread_modem | `GetModemStatus` is read by `GestFtp` and `GestRiMMSNet` |
| command socket | `rimmsnet.c` | `RiMMSNet.status`, `sockfd`, `timerconnect` | `GestRiMMSNet` on thread_comunication | shares the descriptor numbers of the process with all file accesses |
| radio link | `protocolrimms.c` | serial ring buffer, frame state, `Devices[]` with `lastidradio` | `Parser` every 200 ms on thread_RiMMS, `SendAckSensor`, `ParserData` | log, alarms, display |
| sensor table | `db.c`, `InitDevices`, `command.c` | `RiMMS.sql3`, `Devices`, `DeviceNumber` | SENSOR,UPD and SENSOR,RMV, `LoadDeviceDb` | reloaded on thread_RiMMS (shared memory) or thread_comunication (UDP) while `Parser` uses it |
| alive timers, alarms | end of `Parser`, `CheckSensorThresholds` | `DeviceIndex`, `lastalarm`, alarm flags | one device per pass | tag in the log, `ForceUpload(5)` |
| command interpreter | `command.c` | global `commandparser`, `commandresponse`, `Db` | `ParserCommand`, `ExecCommand` | both threads |
| shared memory channel | `sm.c` | two shared segments | `GestSMComunication`, `WriteSM` | web server process |
| process lifecycle | `main.c` | `flagexit`, one flag per thread | start, signals, ordered shutdown, reboot or power-off | all threads |
| configuration, logging | `utility.c`, `LoadConfig` | the parameters, `log.txt` | `LoadConfig` at the start and after a command, `WriteLog` from all threads | table config, the C library's `struct tm` |
| power and switch | `thread_io` in `main.c` | filters, `PowerIn`, `InCharge`, `LowBattery` | every 100 ms | lifecycle, display |
| display | `display.c` | text ring buffer | `WriteDisplayBuf` from all threads, `GestDisplay` on thread_io | all |

Not part of the running program: `udpcomm.c` is not built, `sqlite3/` and `zlib/`
are vendored, `gpioFastLib.c` and `keyboard.c` are register access.

What is hard: no lock protects the flag, the files, the sensor table or the
countdown, so every pair of steps of two threads may interleave; GestFtp has
early returns that skip its clean-up; the process can be killed and the RAM disk
emptied between any two file operations; frames, acknowledgements and FTP
replies get lost; one thread runs everything that talks to the server. The list
with lines is `hazards` in `PROJECT.json`.

What makes each part correct: the log keeps every accepted sample until the server has it
and delivers it once; the file on the server is whole or absent; uploads go on and an alarm
is uploaded soon; the uplink comes back; an acknowledged packet is saved, once and under the
right sensor, and a value past a threshold is alerted once; a tag in the log is read with
its own time and sensor; a silent sensor is reported and a live one is not; a parser out of
step finds the next frame; a command is run as it was sent, its answer is true, and the
memory agrees with the database after it; a message is shown as it was written; the program
ends when it is told to, and closes only what nothing uses any more. Some of this holds only
with exceptions, and the properties state these exactly.

## Modules

Components are modules of their own; `MC*` modules give constants that a cfg
cannot express; `*Proofs` modules hold the theorems. Operators whose comment
starts with "Mutant:" are wrong versions of the definition that follows them;
no specification uses them.

**RecordLog** is what the log promises: a record is durable or volatile until it
is delivered, and only a loss of power forgets, only volatile ones.

**SampleStore** is `WriteToFile` and `GestFtp`, one action per file operation and
per access to `FtpUploading`. A file is the set of the records in it (an empty
and a missing file are the same to `LoadFile`); a record is one call of
`WriteToFile`. `wpc`/`path` are the position of thread_RiMMS, `pc` of
thread_comunication. A writer that has opened a file which is then removed
writes into an orphan. Faults are a constant: failing `fopen`, file creation,
load, upload, a reply lost after the rename, a kill, a power cut. The ghosts
`stored`, `raced`, `spilled`, `doubtful` say which records were accepted, and which
met a change of the flag, a loss of power, or a fault that leaves them both kept
and delivered. A kill keeps the files of the RAM disk; a power cut empties the RAM disk, the
file to upload included. The shell's `cat` and `rm` are taken to succeed.

**AtomicUpload / FtpUpload**: what GestFtp relies on, and the dialogue that
provides it. `at` is the reply the client works for; `After` is the order of the
commands, `Wanted` the digits. The server may refuse anything, do things whose
reply is lost, answer late, and begin a reply with something that is no digit (`Garbled`):
`get_reply` then returns a negative value, which at CWD leads to a `close(data_s)` before
`data_s` is assigned (`stray`). The replies in `LongReplies` may be longer than `get_line`
takes, which leaves the end of the line for the next read; those in `MultiReplies` may have
several lines, as many as the server likes, of which any may look like the last. `misread`
says that the client has taken such a rest for the answer to another command.
`opendatasock` may fail before it sends EPRT, and leaks its socket where `setsockopt` fails;
`connect_to_server` may fail with its socket open. A write to the data socket has no time
limit: `WriteBlock` is not fair. A write that a signal cuts short is not noticed by
`send_file` (`cut`).

**UploadSchedule**: `last` is `lasttransferperiod`, seen from the present second, and
`period` is `transferperiod`. Every assignment to either is there: `InitRiMMS`, offline,
start of an upload, failure, the alarms of thread_RiMMS, whose store of the tag and whose
`ForceUpload(5)` are two steps, SYSTEM,FORCEUPDATE, and the load of the configuration by
PARAM, which first stores what the file has and then one hour where that is not positive.
Both commands run on either thread. `base` (observed) is the period with which
`lasttransferperiod` was reckoned.

**Modem, RiMMSNet, Uplink**: `GestModem` for the USB modem (with a missing or
unknown `modemtype` it is the default), `GestRiMMSNet` at the level of the
descriptors it uses, and the composition of the two threads with another one
that opens and closes files. RiMMSNet sees the modem only through
`modemOnline`, which Uplink instantiates with `Modem`'s `Online`.

**RadioParser** is the state machine over bytes in `Parser`: `protocolstate` counts the
bytes of a frame that it has seen, `fields` stands for `Rp1` to `bufferdata`, and the sum is
kept as in the code, cleared at a colon in state 0 and added to in every state. Bytes come
as a whole frame, a frame with one byte changed, or a stray byte; several stray bytes are
any other noise, a frame that lost its end, or a frame for another gateway. What a changed
frame leaves Parser in is kept for the bytes behind it, which may complete a frame that
began inside it. The kernel's queue and the ring buffer are one sequence: the buffer has
room for one `read()` and is empty when that is made, so its overflow check is never needed.
An accepted frame is `accepted`, which is what SensorLink starts from.

**SensorLink**: sensors (external) send a packet until they hear its
acknowledgement; `Parser` takes the frames, finds the slot, acknowledges, and
saves the samples one by one, each under the id that the slot has by then, unless
`lastidradio` is the packet's time stamp; then `CheckSensorThresholds`
compares what the slot has - value, thresholds and flag - and in a further step logs the
alert under the id that is there then. Between any two of these steps UPD and RMV may
change the table and reload it: `InitDevices` runs in one step on thread_RiMMS and in four
on thread_comunication, and keeps `lastidradio` and the value by slot, as the code does.
Temperature, humidity and battery go through the same lines one after the other, each with
a value, thresholds and a flag of its own, and are one value here: for the check of one, a
load before or after the check of another is a load between the search for the slot and its own
check, and those are all there.
What is observed: `displaced` are the packets whose slot a load gave to another sensor while
Parser had them; `excused` those that met a crash, a load that moved their sensor or gave
away its slot, the acknowledgement of another packet or a stamp from the slot's former
sensor, or whose sensor is not in the table; `unsure` the sensors whose flag the last check
may have left wrong, because it compared what another had left in the slot. Each is set at
the step that is the cause, not where a property would fail. A packet stands for
a frame with valid samples; a frame with a time stamp below
1000 is acknowledged and dropped by the code and is not modelled.

**AliveTimers**: a frame finds its slot in one step and sets the timer of that slot, whoever
has it by then, in a later one; the alive check is two steps as well (the timer, then the
tag with whatever is in the slot); the reload of the table is one step on thread_RiMMS and
four on thread_comunication, between any of these; and there is a clock. Kept apart from
SensorLink, as the two share nothing but the table. Seconds are counted up to `Bound`, past
everything they are compared with.

**Commands** is a command from the place where it is written to its answer. The web process
writes it into shared memory byte by byte, thread_RiMMS takes it byte by byte beside it; the
server's commands are datagrams that end with an end of line. Both threads then go through
`ParserCommand` and `ExecCommand` with the global `commandparser` and `commandresponse`, and
through the functions of `db.c` with the global `Db`, whose `datarow` has `MaxRows` rows
(100 in the code). A step is a stretch of the code between two accesses to what the threads
share; the copy of a command into its buffer, the parsing of that buffer and the copy of one
row are a step each. SQLite is external: a write transaction and a read exclude each other,
and who comes second fails. `LoadConfig` goes through the parameters in its order: a
`transferperiod`, `modemtype` or `keyboard` that it does not accept gets its default, one of
the others that it refuses ends the load with WRONG, after the value was saved, and a
program that is started again with such a file ends at once. A field of a text is one byte;
ADD, UPD and RMV of a sensor, a parameter and a sensor's name are there, and `PING` stands
for the queries that only format a state. `Ids` and `Param` are the rows of the tables in
their order. A table of more sensors than half the rows of `Db` is left out: two loads at
once could then write past them. The ghosts `mixed`, `shared`, `stale` and `torn` say what
has met the other thread or the death of a process, and `sure` in a command that the table
in memory was right when the command came.

**SorTag, TagLog**: the five bytes of a time tag as arithmetic, and the reading of them that
the comment above `Tag_SOR` gives; then the log as it is read. Each tag is one
`WriteToFile`: it looks at `FtpUploading` for one of the two files, then opens it, which may
fail without anybody noticing, and appends. Beside it thread_comunication writes tags of its
own and goes through `GestFtp`, which changes the flag, removes the sample file, and appends
the one of the RAM disk to it. `localtime`, `gmtime` and `mktime` work in the one `struct
tm` of the C library, which the log lines of any thread overwrite. `summer` is the set of
the hours in which the clock is set to summer time, so that it may begin or end within a
run; zones are whole hours. A sample is written as one measure for its three, each of which
has a SOR of its own. `apart` (observed) says that a tag could not be written, or that the
flag or the files changed after it. A crash is left out: what it loses is in SampleStore.

**Display**: the ring of `WriteDisplayBuf` and `ReadDisplayBuf`, byte by byte, with
every access to `displaybuffercount` and to the flag a step. `spoilt` is observed: two
threads were in the ring at once, or it was full, and it has not been read empty since.

**Lifecycle**: `main` from its signal handlers to its end, and the frame of the
four threads: `flagexit` tells them to stop, `flagexit_<thread>` (`running`) tells
main that they have not. main waits `Patience` seconds for each, cancels it,
and joins it. What a thread does in a pass of its loop is a call, which may
request a reboot or a power-off (a command on two of the threads, the switch on
`thread_io`) and may never return. A cancelled thread ends where it next waits;
`pthread_join` returns 0 for it too, so that the code logs a regular end.

## Runs

All of them pass.

| run | checks | bounds | distinct states |
|---|---|---|---|
| SampleStoreSafety | TypeOK, QuietRecordsSurvive, DeliveredOnce, FailedUploadsLoseNothing, ImplementsLog | 2 records, all faults | 1.7 million |
| SampleStoreLive | SampleToUpload, UploadEnds, QuietRecordsDelivered | 2 records, no kill, power cut or failing open | 17 000 |
| FtpUpload | UploadInv, SocketsAccounted, CallReturns, ImplementsAtomicUpload | 2 blocks, with a directory, four of the replies may be long, three may have several lines | 5.1 million |
| UploadSchedule | ScheduleInv, UploadsGoOn | periods 0, 5 and 12, default 9, delays 6, 3, 3 and 2 seconds | 106 000 |
| Uplink | UplinkInv, LossIsNoticed, ComesOnline, Reconnects | 3 descriptors, delays of the code | 94 000 |
| SensorLink | TableInv, AckedIsSaved, RightSensor, AlertsAreReal, Undisturbed, PacketsAccepted | 2 sensors with 1 and 2 packets of 2 samples, 1 command, 1 crash | 0.93 million |
| RadioParser | FrameInv, BackInStep, ChangedFrameRejected | 3 byte values, frames of 7 bytes | 0.14 million |
| Lifecycle | LifecycleInv, RequestsHonoured, ShutdownEnds | 2 sleeps before a cancellation, a switch held for up to 2 passes | 0.27 million |
| AliveTimers | AliveInv, SilenceIsNoticed | 2 sensors with periods 4 and 2, 2 commands | 252 000 |
| Commands | CommandsInv, AnswersAreTrue, MemoryIsFile | 2 sensors, 2 parameters, 4 rows in `Db`, 2 commands of the web out of 3 and 1 of the server out of 4, 1 death of a process | 4.1 million |
| Display | DisplayInv, MessagesWhole, StatusComesBack | thread_io and one more writer, 3 messages of 2 characters, a ring of 4 cells | 0.9 million |
| TagLog | TagLogInv, RightTime | a group of tags on thread_RiMMS beside an upload, or beside up to three of: a group on the other thread, an hour, a log line, a failing `fopen` | 4.9 million |

Why the bounds are enough: two records let one be on the disk while another is raced onto
the RAM disk, and records do not interact otherwise; one would miss `cat` overwriting. Two
blocks give a file that is partly written. Three descriptors are the socket, a file and a
number that has been reused. Two packets are what `lastidradio` compares, and two sensors,
the second of which has two packets, are what moves into a slot with another's stamp and
value in it; two samples let a load fall between them. In FtpUpload each long reply makes
those after it one late, so the four are at the start, at the last answer before the
directory, at CWD, whose failure closes an unassigned number, and at the rename; those of
several lines are at CWD, at the data and at the last step. In UploadSchedule the delays of
the code (30, 15, 15 and 5 seconds, one hour) are scaled down in their order; one period is
longer than the default, one shorter, and one not positive, so that PARAM moves the next
upload either way. In RadioParser the three byte values are a colon and the two of the
address, so every field may look like part of a head, and three fields are enough to hold a
whole head, or the rest of one after a lost byte. In Lifecycle the delays only count; two
keeps "not yet" apart from "now". In AliveTimers two sensors are one at the end of the table
and one that can come into its slot. In Commands each command of one side meets each of the
other: a query, a removal and a parameter that is refused against a query, an addition, a
change and a parameter that gets its default, so that every pair of functions of `db.c`
overlaps and every way out of `LoadConfig` is taken; the second command of the web finds
what the first left in the channel. In Display a message with its terminator fits once and
not twice into the ring, so that it becomes full and wraps at every position; a third
message is read after both. In TagLog the first group shows what an upload does to a sample
that is being written; without an upload up to three things come together, of which each
pair is enough for one of the exceptions of RightTime, and the calendar goes over the end of
a year and over the time that Tag_SOR takes for the beginning of summer.

What the runs show, with their exceptions: a record is lost only if the write overlapped a
change of `FtpUploading` (`raced`) or the power failed while it was on the RAM disk
(`spilled`); it is delivered twice only after a crash in one of two places or after a reply
lost behind the rename. An upload call leaves a socket open only where the connection
failed, a rename was refused with a digit, or the data socket got no timeout, and may close
a foreign descriptor only at CWD; it returns unless the server never ends a reply or stops
taking data. An alarm is uploaded soon unless an upload gave up before it sent anything, or
PARAM loaded a longer period after it; uploads go on unless requests keep coming within the
delay of each, or the period keeps being raised. An acknowledged packet is lost only to a
crash, to a load that moves its sensor or gives its slot away, to the stamp of the sensor
that had its slot before, to the acknowledgement of another packet, or because its sender is
not in the table (`excused`); a sample is under another sensor's id only when its slot was
given away between the search and the saving (`displaced`). A failure is reported wrongly
only while the table is being loaded or when it is empty, and a silent sensor is reported
within one round of the table and a pass. Noise may put Parser out of step, and a frame with
a colon inside may then leave it so: the checksum of the false frame ends it, and a frame
without one, even one with a wrong byte, brings it back. Of a frame with a wrong byte
nothing is accepted while it arrives. What a colon inside it begins is completed by the
bytes behind it, and is accepted when their sum agrees: the check does not exclude that, nor
does the code. main never frees or detaches what a thread can use, however the thread ended,
and forgets no request; only a SIGTERM that comes before `flagexit` is initialised is lost.
A measure is read as another sensor's only when its CURRENTSENSOR could not be written or
went to another file (`apart`), or when the other thread wrote one in between. A tag is read
at another time only when that happened to its SOR, when the SOR before it is the other
thread's, when a log line or the other thread fell into its Tag_SOR, or when its hour is one
that Tag_SOR takes for summer. An alert is logged once for each time a value goes past a
threshold, unless the packet is `excused` or the check before it was of another slot or
value (`unsure`). An answer is true unless the other thread ran a command at the same time,
and memory is what `LoadConfig` and `InitDevices` make of the database except after work on
the database that overlapped, and behind a parameter that is refused. Messages stay whole
while one thread at a time is in the ring and it is not full.

What the models show of the code that its comments or its readers may not expect:

- The rest of an FTP reply over 100 characters is not discarded but read as the next reply
  (`ftpclient.c:102`). The uploads it spoils are those of `misread`.
- With no sensor configured the alive check raises an alarm in every pass, and `ForceUpload`
  then postpones the first upload for ever (`rimms.c:656`), although the comment at
  `rimms.c:650` has it after 30 seconds. So do alarms of several sensors and
  SYSTEM,FORCEUPDATE, whenever they come five seconds or less apart: UploadsGoOn excludes
  just this. When the last sensor is removed, `Devices[0]` keeps its data and goes on
  raising that sensor's alarm.
- State 1 of `GestRiMMSNet` goes on with a closed descriptor and may close another thread's
  file (`rimmsnet.c:133`).
- The comment on `Tag_SOR` (`rimms.c:103`) says GMT. In summer the call of `mktime` on what
  `gmtime` returned (`rimms.c:139`) moves the hour of the tag by one, and around the change
  it judges the season by the shifted time. RightTime claims GMT for the other hours alone.
- `FtpUploading` may change between the CURRENTSENSOR of a sample and its measure, on one
  thread with no other tag in between: the measure is then read as that of the sensor before
  it in its file. So it is after a `fopen` that fails, as no caller looks at what
  `WriteToFile` returns.
- A reply to CWD that is lost, or does not begin with a digit, makes `ftpupload_RiMMS` close
  `data_s`, which it has not assigned (`ftpclient.c:790`).
- A server that never ends a reply of several lines, or accepts the data connection and
  takes no data, holds thread_comunication for ever: only the reads have a time limit.
- PARAM saves a value before `LoadConfig` looks at it. One that is refused stays in the
  file, the parameters behind it are not loaded any more, and the program does not start
  again with that file (`command.c:92`, `main.c:350`).
- PARAM with a longer `transferperiod` moves an upload that is due in five seconds as much
  further away. While `LoadConfig` has stored a period of 0 and not yet the default, GestFtp
  finds an upload due.
- A reload between the search for the sensor of a frame and the reset of its timer resets
  the timer of another sensor (`protocolrimms.c:604`): its silence is noticed a pass later.
- Two writers past the display's flag may make the count exceed the ring and write one byte
  behind its end.
- A load that overlapped one on the other thread may leave a row of table config in
  `Devices`. `SENSOR,UPD` then finds that name there, changes no row of table sensor, and
  answers OK (`db.c:199`): AnswersAreTrue has the row in the table only when the table was
  right before the command (`sure`).
- `LoadDeviceDb` returns -2 when it meets a lock, and `DeviceNumber` is unsigned: the loop
  of `InitDevices` over the devices then leaves its array. A parameter without a row in
  config gets the value read last (`db.c:81`). SENSOR,ADD always fails, as its SQL statement
  has two commas in a row (`db.c:182`).
- `CheckSensorThresholds` looks at a slot, not at the sensor of the packet
  (`protocolrimms.c`). After a reload of the table beside `Parser`, the slot's flag and
  value can be another sensor's: an alert is then raised for the wrong sensor or is missing,
  until the next packet of that sensor that is checked in its own place.
- `if(data=0x07)` in `ParserData` assigns, so that the mask of a packet is not looked at.
- A threshold of 0 switches both thresholds of a measure off.
- The comment `first instance continues` (`main.c:164`) does not hold beyond the next lines:
  `close(lfp)` gives the lock up.

The system may stop in Lifecycle, FtpUpload, SensorLink, Commands and TagLog, which
are checked without deadlock: a program that has ended does, so does an upload
call that has returned or that waits in a write, and so does a model whose packets, commands or
groups of tags are used up.

## Fairness

Every thread is an endless loop that sleeps 200 or 500 ms, so its steps are weakly fair.
Time passes (`Tick`). Strong fairness is assumed only of steps whose outcome the outside
world decides and that are tried again and again: creating the file, loading and sending it
(SampleStoreLive), and an acknowledgement getting through (SensorLink). The modem is assumed
to answer in full now and then (`GestModemWell`). FtpUpload needs fairness of the client
alone, and not of its writes to the data socket: `get_line` waits up to ten seconds in each
of some 5000 tries, so it ends, and CallReturns leaves out the two waits that nothing ends.
In UploadSchedule the call of GestFtp and the passing of time are strongly fair:
thread_comunication calls GestFtp once in every round of its loop, and a command, which may
come in any round, does not take the place of that call. Nothing is assumed of the server,
of alarms or of commands. In Display thread_io goes on with its loop and each writer with
the message it has begun; nothing is assumed of when messages are announced. Commands and
TagLog state safety only. In Lifecycle main is fair, and each thread in the frame of its
loop, but the return of a call is not: this is what the cancellation is for. Elsewhere the
threads are assumed not to be starved although they have different priorities, and a thread
stuck in a system call is modelled in Lifecycle only.

## Proofs

TLC shows the properties for small instances; these hold for all values of the
constants.

A proof module may extend two components whose names do not meet; each theorem is about
one of them. The provers see bounded recursion and no folds, so the models write sums as a
recursive function and lists without an element as a function of the position.

*SampleStoreProofs.* The inductive invariant of durability says where a quiet
record is at each `pc`: it is in sample, in ram or at the server; between `SendFile`
and `RemoveSample` all quiet records of sample are in buffer, since the flag
sends quiet writers to the RAM disk; between `AppendRam` and `RemoveRam` those of
ram are in sample too. Without the conjunct on what an open path means for a
write that has not been overlapped, the step `WriteAndClose` would not preserve
it. A second invariant says that sample, ram and server hold a record twice only
if it is doubtful. `StoreImplementsLog` maps the steps one by one: writes are
Accept, `AppendRam` is Settle, `Land` is Deliver, and all the others stutter.
`UploadFindsSample` needs no invariant: only a failing `fopen` leaves GestFtp without the
file it has just merged.

*FtpUploadProofs.* Types, and that, whichever replies are long or have several lines, a file
cut off under its temporary name is never renamed unless a write was cut short: the client
asks for the rename only after it has written all blocks (RenameAfterData), and the server
closes the file only when send_file is over (StoredAfterData). `CallProven` adds where a
call stands at each place and how it ended there (Ending), from which SocketsAccounted
follows with its named exceptions: failing `setsockopt`, failing connection, and the
unassigned `data_s` of a lost or garbled reply to CWD are steps of the model, so the theorem
says that there are no others. It also has what the refinement needs: a line that confirms
the rename was sent after it, so that a client that took no other line for it knows that the
file is there (RenameConfirmed, RenameKnown). `CallImplementsAtomicUpload` then maps the
rename at the server to Store, the return of the call to ReturnOk or ReturnError, and every
other step to a stutter.

*ProgramProofs.* Of UploadSchedule, types and ScheduleInv, from an invariant that also says
in which file the newest alarm is while an upload is under way, and that the next upload is
never further away than a delay of the code, or `base`, plus what the period has grown
since: an assignment to `lasttransferperiod` makes `base` the period, and only PARAM makes
the two differ. Of Uplink, UplinkInv: the socket of GestRiMMSNet is open while it is used.
What makes it inductive is that the file of the other thread has a number of its own
(`FileIsOpen`), and that the kernel gives the lowest free number (`LowestNumber`, from the
well-founded order of the naturals). Of Lifecycle, types, LifecycleInv and RequestsHonoured:
the types need that a thread main has not created yet is nowhere and that only existing
threads have set their flag. `Joined` says that the threads before `stage` in the order of
joining are gone, and a thread that is gone takes no step. `Traces` says that `flagexit`
cannot be 0 without a trace of who wanted it: a signal, or a request in `flags`, which
nothing clears once threads exist.

*ParserProofs.* Of RadioParser: that the recursive sum of a sequence of bytes is what Parser
forms byte by byte (`SumsAreSums`, by the least counterexample), hence that a frame taken
whole is accepted (FrameInv) and of one with a changed byte nothing is while it arrives
(ChangedFrameRejected), for bytes of any modulus and frames of any length: to be over with
such a frame, Parser would have to find the sum of its first bytes in the last, and a false
head inside it cannot come to an end before the frame does. With a colon inside, the rest of
that is left to the next bytes and is not claimed. BackInStep: while a frame without a colon
inside is being taken, whole or changed, Parser is in state 0 or at least as far as the
frame is: it leaves 0 only at a colon, which is the first byte, and from then on each byte
brings it one state on or back to 0. So when the frame is over, no state is left but 0. Of
AliveTimers: `TimersTell` relates the age of a slot to the silence of the sensor in it
unless the table is being loaded, or a frame that was found in that slot has its reset still
to come; `JustHeard` has what is then true of it, and is where the additional second of the
bound comes from. `AboutToLog` keeps this for the step between the timer and the tag, and
`IndexComes` counts how far DeviceIndex is from a slot that is due (`Distance`). AliveInv (a
logged failure is a failure) and the bound of SilenceIsNoticed follow, for any number of
sensors and any periods.

*DisplayProofs.* DisplayInv for any number of writers and any sizes: the count never goes
below 0, however many counts are lost, since the reader only subtracts from a count it has
seen above 0 (`ReaderSawSome`); the flag is never left set, since whoever passed it clears
it on every way out; the input index passes the end only between two lines. That the count
stays within the ring needs `Alone`: until accesses meet, one thread at most is inside, and
what it has seen of the count is still so. MessagesWhole needs where the bytes are
(`Placed`): the texts that are due stand one after the other from the output index on, then
the part of a message that a writer has put there. It is proved for `Chars <= Longest`: the
reader cuts a longer text at `Longest`, as the code does.

*TagLogProofs.* StampSaysTime: read as the comment says, the five bytes give back every date
from 2000 to 2063, every time of day and every deviation from -12 to 14 hours. Then the log:
in the file that `FtpUploading` points to, the last CURRENTSENSOR and the last SOR of a
thread are those of the tags it has still to append, unless they are marked as `apart`
(`SensorGiven`, `TimeGiven`); the file that `WriteToFile` has chosen is that one, unless it
is marked (`PathOk`). A file stays readable so (`FileOk`) when an entry is added, when it is
emptied, and when the other is appended to it: within either part the tags are read as
before, but for the first of the second part, which had nothing to be read with and was
marked. In Tag_SOR, the struct tm holds what the thread put there while it is alone
(`AloneOk`), so that the SOR says its time in the hours that Tag_SOR takes for winter
(`SOROk`). TagLogInv and RightTime follow for any sensors, any zones of whole hours, any
calendar, any set of summer hours, and any number of tags, uploads and failing files.

*SensorLinkProofs.* All five invariants of the run, from one that has a part for each: a
frame under way is of the packet its sensor waits for or of the last one (`FrameOk`), and
alone on its way; the slots that can be found have different sensors, so that a frame is
handled in the one slot of its sensor, unless a load has given that away, which `displaced`
records at the load (`FoundRight`, `Displacements`); an acknowledgement under way is of a
packet that is saved, or about to be (`Safe`), sample by sample (`Progress`); the slot in
which a packet will be found again remembers its stamp (`KnownAgain`, `KnownWhenFound`), so
that it is saved once; and the flag of a slot is what its sensor was told, but for `unsure`
(`FlagIsTold`). `LinkNeedsNoExcuse`: without commands and crashes nothing is excused.

*CommandsProofs.* CommandsInv, AnswersAreTrue and MemoryIsFile, from one invariant of five
parts. `TypeInv` has, besides types, that two loads at once never write past the `MaxRows`
rows of `Db` while there are half as many sensors at most (`RowsFit`: the callbacks still to
come have their room), and that the rows of the table keep distinct keys. `ChannelHolds`
says which bytes of the line stand in shmrx, which in the buffer, and which are still to be
written. `Overlaps` relates `mixed` and `shared` to where the two threads are. `MemoryInv`
says how far a load that is on its own has come, row by row, and that what is not `stale` is
what the file holds, or what `LoadConfig` makes of it up to a value it refuses; without
`FirstParam` (a command stands at the first parameter until its transaction is over) the
load of the parameters would not be inductive. `AnswerInv` says at each place what a command
that met no other has read and changed so far, with the value that LoadConfig refuses when
it ends in WRONG. The search of `FindDevicesFromId` for the first slot is that of the least
number (`FirstSlot`).

Assumptions: only the named ones on constants in the modules, and `Chars <= Longest` in
MessagesStayWhole. Liveness and ENABLED stay with TLC: CallReturns, UploadsGoOn,
ComesOnline, Reconnects, LossIsNoticed, PacketsAccepted, ShutdownEnds, StatusComesBack,
UploadEnds and QuietRecordsDelivered. Every invariant that a run checks is also proved.

## Not modelled

- The bytes of the tags other than SOR, and the header, compression and checksum of the
  file to upload: a record is one element. That sizes of 64 KB and more do not fit into
  its 16-bit fields stays an open hazard.
- `calc_sth11` and the decoding of the samples in a frame: arithmetic on one sample.
- Commands that only format a state (lists, sensor values, modem, system), the writing
  of the answer's text, and fields that are too long for their buffers.
- A table of more sensors than half the rows of `Db`, which two loads at once could write past;
  zones that are not whole hours; what a crash leaves of a group of tags.
- `daemonize` and `--kill`: the lock is given up when the lock file is closed, so
  that a second program can run beside the first on the same files.
- The voltage filters of `thread_io`, the LCD with its backlight, keyboard, GPIO:
  sequential arithmetic and register access.
- The AT command exchange is reduced to its outcome (right, unanswered, or cut
  off and read as "not registered").
- `ftp_get`, `ftp_put` and `receive_file`, which nothing calls; `udpcomm.c`, which is
  not built; SQLite and zlib, which are vendored and make up two thirds of the lines of
  the repository.

## Plan

1. RadioParser and SensorLink composed: an accepted frame is what `FindDevice` of
   SensorLink starts from; frames that lose a byte as a kind of their own.
2. Lifecycle composed with SampleStore: a shutdown is a Kill at any `pc`.
3. The layout of the upload file with its sizes modulo 2^16; two programs on one lock file.
4. Proofs: what a step of Lifecycle, of the links and of Commands may never do, as action
   properties from the invariants that are proved; the composition of 1.
