------------------------------- MODULE Commands -------------------------------
(***************************************************************************)
(* The commands of the web interface and of the server: the channel in     *)
(* shared memory (sm.c), the command interpreter (command.c) and the       *)
(* database behind it (db.c, InitDevices, LoadConfig).                     *)
(*                                                                         *)
(* A process of the web interface writes a command into the shared memory  *)
(* shmrx, its end of line last; thread_RiMMS takes it byte by byte, runs   *)
(* it and then clears the end of line.  The commands of the server come as *)
(* datagrams to thread_comunication.  Both threads call ParserCommand,     *)
(* which works on globals (commandparser, commandresponse), and the        *)
(* functions of db.c, which share the rows they read (Db).  There is no    *)
(* lock but those of SQLite, and no busy timeout: a function that meets    *)
(* the lock of the other thread fails.                                     *)
(*                                                                         *)
(* A text is a sequence of fields, each written and taken as one byte; its *)
(* first field stands for the words that name the command ("SENSOR,RMV").  *)
(* The columns of a row are its key and one value for all the others.      *)
(* External: the web process, which writes one command at a time and may   *)
(* die half-way; the server, whose datagrams end with an end of line; the  *)
(* locks of SQLite.                                                        *)
(***************************************************************************)
EXTENDS Naturals, Sequences

CONSTANTS
    Ids,          \* the ids in table sensor when the program is installed
    MaxRows,      \* the rows of Db, 100 in the code
    Param,        \* the parameters LoadConfig reads, in its order
    NotPositive,  \* the values that atoi makes 0 or less
    WebTexts,     \* what the web interface sends
    NetTexts,     \* what the server sends
    MaxWeb, MaxNet, MaxKills

Sensor == {Ids[i] : i \in DOMAIN Ids}
Name == {Param[i] : i \in DOMAIN Param}
Blank == ""
EOL == "\n"
NUL == "0"
Longest == 3                     \* the fields of the longest text
Places == 1..(Longest + 1)
Distinct(q) == \A i, j \in DOMAIN q : q[i] = q[j] => i = j
IsText(t) ==
    /\ t \in Seq({t[i] : i \in DOMAIN t}) /\ Len(t) \in 1..Longest
    /\ \A i \in DOMAIN t : t[i] \notin {EOL, NUL}
Defaults == {"3600", "usb", "disable"}
Word(t, i) == IF i <= Len(t) THEN t[i] ELSE Blank

(* Two loads at once may fill a row for each sensor twice: a table of more   *)
(* sensors than half of MaxRows is outside the model.  A value that is the  *)
(* name of its parameter stands for one that the installation left right.   *)
ASSUME CommandsAssumption ==
    /\ Ids \in Seq(Sensor) /\ Ids # <<>> /\ Distinct(Ids)
    /\ MaxRows \in Nat /\ 2 * Len(Ids) <= MaxRows
    /\ Param \in Seq(Name) /\ Param # <<>> /\ Distinct(Param)
    /\ NotPositive \cap Name = {}
    /\ \A t \in WebTexts \cup NetTexts : IsText(t)
    /\ MaxWeb \in Nat /\ MaxNet \in Nat /\ MaxKills \in Nat

Thread == {"RiMMS", "comunication"}
Other(t) == CHOOSE u \in Thread : u # t
Row(k, v) == [key |-> k, val |-> v]
NoRow == Row(Blank, Blank)
Device(r, n) == [key |-> r.key, val |-> r.val, div |-> n]
Rows == 1..MaxRows                     \* of Db; Devices has more slots
NoJob == [text |-> <<>>, op |-> Blank, a |-> Blank, b |-> Blank,
          res |-> Blank, cur |-> 1, par |-> 1, sure |-> TRUE]

VARIABLES
    web,       \* the web process: what it sends, how much is written
    shm,       \* shmrx and bufferSM_rx, with bufferSMcount_rx
    pc, job,   \* each thread: where it is, and the variables of its stack;
               \* observed: sure, the table was right when the command came
    parser,    \* commandparser
    response,  \* commandresponse
    Db,        \* Db.numrow, Db.datarow
    file,      \* RiMMS.sql3: the tables sensor and config
    lock,      \* the lock each thread holds on it
    dev,       \* Devices: the rows, and how often each was normalised
    number,    \* DeviceNumber
    conf,      \* the parameters in memory
    up,        \* the program has not crashed
    count,     \* commands so far, and how often one of the processes died
    \* what is observed, and influences nothing:
    torn,      \* a web process died, or the program was killed, half-way
    mixed,     \* the threads that ran a command beside the other's
    shared,    \* the threads whose database work the other's overlapped
    stale      \* which of "table", "conf" was last loaded like that

shmVars == <<web, shm, torn>>
dbVars == <<Db, file, lock, dev, number, conf, up, stale>>
parserVars == <<parser, response>>
vars == <<shmVars, pc, job, parserVars, dbVars, count, mixed, shared>>

Goto(t, p) == pc' = [pc EXCEPT ![t] = p]
Set(t, j) == job' = [job EXCEPT ![t] = j]

-----------------------------------------------------------------------------
(* The web process *)

WebIdle == web.text = <<>>
Line == Append(web.text, EOL)

WebStart(t) ==
    /\ WebIdle /\ count.web < MaxWeb
    /\ web' = [text |-> t, done |-> 0]
    /\ count' = [count EXCEPT !.web = @ + 1]
    /\ UNCHANGED <<shm, torn, pc, job, parserVars, dbVars, mixed, shared>>

WebWrite ==
    /\ ~WebIdle /\ web.done < Len(Line)
    /\ shm' = [shm EXCEPT !.rx[web.done + 1] = Line[web.done + 1]]
    /\ web' = [web EXCEPT !.done = @ + 1]
    /\ UNCHANGED <<torn, pc, job, parserVars, dbVars, count, mixed, shared>>

(* The end of line has been cleared: the command was executed. *)
WebEnd ==
    /\ ~WebIdle /\ web.done = Len(Line) /\ shm.rx[web.done] = NUL
    /\ web' = [text |-> <<>>, done |-> 0]
    /\ UNCHANGED <<shm, torn, pc, job, parserVars, dbVars, count, mixed, shared>>

WebDies ==
    /\ ~WebIdle /\ count.kill < MaxKills
    /\ web' = [text |-> <<>>, done |-> 0]
    /\ torn' = (torn \/ web.done > 0)
    /\ count' = [count EXCEPT !.kill = @ + 1]
    /\ UNCHANGED <<shm, pc, job, parserVars, dbVars, mixed, shared>>

-----------------------------------------------------------------------------
(* GestSMComunication and GestRiMMSNet take a command *)

Busy(t) == pc[t] # "idle"
Begin(t, text) ==
    /\ Goto(t, "clear")
    /\ Set(t, [NoJob EXCEPT !.text = text, !.sure = "table" \notin stale])
    /\ mixed' = IF Busy(Other(t)) THEN Thread ELSE mixed \ {t}

TakeByte ==
    /\ up /\ pc["RiMMS"] = "idle"
    /\ shm.rx[shm.at] \notin {NUL, EOL}
    /\ shm' = [rx |-> [shm.rx EXCEPT ![shm.at] = NUL],
               buf |-> [shm.buf EXCEPT ![shm.at] = shm.rx[shm.at]],
               at |-> shm.at + 1]
    /\ UNCHANGED <<web, torn, pc, job, parserVars, dbVars, count, mixed, shared>>

TakeLine ==
    /\ up /\ pc["RiMMS"] = "idle"
    /\ shm.rx[shm.at] = EOL
    /\ Begin("RiMMS", SubSeq(shm.buf, 1, shm.at - 1))
    /\ UNCHANGED <<shmVars, parserVars, dbVars, count, shared>>

TakeDatagram(t) ==
    /\ up /\ pc["comunication"] = "idle" /\ count.net < MaxNet
    /\ Begin("comunication", t)
    /\ count' = [count EXCEPT !.net = @ + 1]
    /\ UNCHANGED <<shmVars, parserVars, dbVars, shared>>

-----------------------------------------------------------------------------
(* ParserCommand and ExecCommand *)

Step(t, p) == up /\ pc[t] = p

Clear(t) ==
    /\ Step(t, "clear") /\ Goto(t, "fill")
    /\ parser' = [i \in 1..Longest |-> Blank]
    /\ response' = NoJob
    /\ UNCHANGED <<shmVars, job, dbVars, count, mixed, shared>>

Fill(t) ==
    /\ Step(t, "fill") /\ Goto(t, "exec")
    /\ parser' = [i \in 1..Longest |->
                    IF i <= Len(job[t].text) THEN job[t].text[i] ELSE parser[i]]
    /\ UNCHANGED <<shmVars, job, response, dbVars, count, mixed, shared>>

Needs == [NAME |-> 2, RMV |-> 2, ADD |-> 3, UPD |-> 3, PARAM |-> 3]

(* The answer is known; it is written into commandresponse. *)
Answer(t, res) == Goto(t, "reply") /\ Set(t, [job[t] EXCEPT !.res = res])

(* The first word is compared, then the others are read. *)
Exec(t) ==
    /\ Step(t, "exec")
    /\ LET op == parser[1]
           known == op \in DOMAIN Needs
       IN  \/ /\ op = "PING" /\ Answer(t, "OK")
           \/ /\ op # "PING" /\ ~known /\ Answer(t, "ERROR")
           \/ /\ known /\ Len(job[t].text) < Needs[op] /\ Answer(t, "PARAMERR")
           \/ /\ known /\ Len(job[t].text) >= Needs[op]
              /\ Set(t, [job[t] EXCEPT !.op = op, !.a = parser[2], !.b = parser[3]])
              /\ Goto(t, CASE op = "NAME" -> "name"
                           [] op = "PARAM" -> "zero"
                           [] OTHER -> "find")
    /\ UNCHANGED <<shmVars, parserVars, dbVars, count, mixed, shared>>

(* Mutant: the last device is never found. *)
FoundButLast(s) == \E i \in 1..number : i < number /\ dev[i].key = s

Found(s) == \E i \in 1..number : dev[i].key = s
Slot(s) == CHOOSE i \in 1..number :
              dev[i].key = s /\ \A j \in 1..(i - 1) : dev[j].key # s

(* GetSensorName *)
NameOf(t) ==
    /\ Step(t, "name")
    /\ Answer(t, IF Found(job[t].a) THEN dev[Slot(job[t].a)].val ELSE "ERRID")
    /\ UNCHANGED <<shmVars, parserVars, dbVars, count, mixed, shared>>

(* FindDevicesFromId, at the top of AddDeviceDb, UpdateDeviceDb, RemoveDeviceDb *)
Find(t) ==
    /\ Step(t, "find")
    /\ IF Found(job[t].a) = (job[t].op = "ADD")
       THEN Answer(t, "DBERR")
       ELSE Goto(t, "zero") /\ UNCHANGED job
    /\ UNCHANGED <<shmVars, parserVars, dbVars, count, mixed, shared>>

Reply(t) ==
    /\ Step(t, "reply")
    /\ response' = [job[t] EXCEPT !.cur = 1, !.par = 1, !.sure = TRUE]
    /\ Goto(t, IF t = "RiMMS" THEN "ack" ELSE "send")
    /\ UNCHANGED <<shmVars, job, parser, dbVars, count, mixed, shared>>

(* Mutant: bufferSMcount_rx is not set back. *)
AcknowledgeKeepsIndex ==
    /\ Step("RiMMS", "ack") /\ Goto("RiMMS", "send")
    /\ shm' = [shm EXCEPT !.rx[shm.at] = NUL]
    /\ UNCHANGED <<web, torn, job, parserVars, dbVars, count, mixed, shared>>

(* GestSMComunication clears the end of line ... *)
Acknowledge ==
    /\ Step("RiMMS", "ack") /\ Goto("RiMMS", "send")
    /\ shm' = [shm EXCEPT !.rx[shm.at] = NUL, !.at = 1]
    /\ UNCHANGED <<web, torn, job, parserVars, dbVars, count, mixed, shared>>

(* ... and what is in commandresponse now goes out (WriteSM, sendto). *)
Send(t) ==
    /\ Step(t, "send") /\ Goto(t, "idle")
    /\ Set(t, NoJob)
    /\ UNCHANGED <<shmVars, parserVars, dbVars, count, mixed, shared>>
-----------------------------------------------------------------------------
(* db.c *)

InDb(t) == pc[t] \in {"write", "commit", "empty", "reset", "select", "rows", "copy",
                      "count", "normal"}
(* The database work of a command begins; it lasts until InDb ends. *)
EnterDb(t) == shared' = IF InDb(Other(t)) THEN Thread ELSE shared \ {t}

(* Db.numrow=0 of SaveParamDb, UpdateDeviceDb, RemoveDeviceDb; the statement *)
(* of AddDeviceDb has a syntax error and fails after that.                   *)
Zero(t) ==
    /\ Step(t, "zero")
    /\ Db' = [Db EXCEPT !.numrow = 0]
    /\ IF job[t].op = "ADD"
       THEN Answer(t, "DBERR") /\ shared' = IF InDb(Other(t)) THEN Thread ELSE shared
       ELSE Goto(t, "write") /\ EnterDb(t) /\ UNCHANGED job
    /\ UNCHANGED <<shmVars, parserVars, file, lock, dev, number, conf, up, stale,
                   count, mixed>>

Write(t) ==
    /\ Step(t, "write")
    /\ IF lock[Other(t)] = "write"
       THEN Answer(t, "DBERR") /\ UNCHANGED lock
       ELSE Goto(t, "commit") /\ lock' = [lock EXCEPT ![t] = "write"] /\ UNCHANGED job
    /\ UNCHANGED <<shmVars, parserVars, Db, file, dev, number, conf, up, stale,
                   count, mixed, shared>>

(* An id is in one row at most. *)
Without(rows, k) ==
    IF \E i \in DOMAIN rows : rows[i].key = k
    THEN LET gap == CHOOSE i \in DOMAIN rows : rows[i].key = k
         IN  [i \in 1..(Len(rows) - 1) |-> IF i < gap THEN rows[i] ELSE rows[i + 1]]
    ELSE rows
Updated(rows, k, v) == [i \in DOMAIN rows |-> IF rows[i].key = k THEN Row(k, v) ELSE rows[i]]
Written(j) ==
    CASE j.op = "PARAM" -> [file EXCEPT !.config = Updated(@, j.a, j.b)]
      [] j.op = "UPD"   -> [file EXCEPT !.sensor = Updated(@, j.a, j.b)]
      [] j.op = "RMV"   -> [file EXCEPT !.sensor = Without(@, j.a)]

(* The end of sqlite3_exec: a reader keeps the transaction from committing. *)
Commit(t) ==
    /\ Step(t, "commit")
    /\ lock' = [lock EXCEPT ![t] = "none"]
    /\ IF lock[Other(t)] = "read"
       THEN Answer(t, "DBERR") /\ UNCHANGED file
       ELSE /\ file' = Written(job[t])
            /\ Goto(t, IF job[t].op = "PARAM" THEN "reset" ELSE "empty")
            /\ UNCHANGED job
    /\ UNCHANGED <<shmVars, parserVars, Db, dev, number, conf, up, stale,
                   count, mixed, shared>>

(* InitDevices *)
Empty(t) ==
    /\ Step(t, "empty") /\ Goto(t, "reset")
    /\ number' = 0
    /\ UNCHANGED <<shmVars, job, parserVars, Db, file, lock, dev, conf, up, stale,
                   count, mixed, shared>>

(* Mutant: Db.numrow is not set to 0 before the rows are read. *)
ResetKeepsRows(t) ==
    /\ Step(t, "reset") /\ Goto(t, "select")
    /\ UNCHANGED <<shmVars, job, parserVars, dbVars, count, mixed, shared>>

(* LoadDeviceDb, or LoadParamDb for one parameter after the other *)
Reset(t) ==
    /\ Step(t, "reset") /\ Goto(t, "select")
    /\ Db' = [Db EXCEPT !.numrow = 0]
    /\ UNCHANGED <<shmVars, job, parserVars, file, lock, dev, number, conf, up, stale,
                   count, mixed, shared>>

Asked(j) == IF j.op = "PARAM" THEN <<file.config[j.par]>> ELSE file.sensor

Select(t) ==
    /\ Step(t, "select") /\ Goto(t, "rows")
    /\ lock' = [lock EXCEPT ![t] = "read"]
    /\ Set(t, [job[t] EXCEPT !.cur = 1])
    /\ UNCHANGED <<shmVars, parserVars, Db, file, dev, number, conf, up, stale,
                   count, mixed, shared>>

Callback(t) ==
    /\ Step(t, "rows") /\ job[t].cur <= Len(Asked(job[t]))
    /\ Db' = [numrow |-> Db.numrow + 1,
              row |-> [Db.row EXCEPT ![Db.numrow + 1] = Asked(job[t])[job[t].cur]]]
    /\ Set(t, [job[t] EXCEPT !.cur = @ + 1])
    /\ UNCHANGED <<shmVars, pc, parserVars, file, lock, dev, number, conf, up, stale,
                   count, mixed, shared>>

RowsEnd(t) ==
    /\ Step(t, "rows") /\ job[t].cur > Len(Asked(job[t]))
    /\ lock' = [lock EXCEPT ![t] = "none"]
    /\ Goto(t, "copy")
    /\ UNCHANGED <<shmVars, job, parserVars, Db, file, dev, number, conf, up, stale,
                   count, mixed, shared>>

Loaded(t, what) == stale' = IF t \in shared THEN stale \cup {what} ELSE stale \ {what}

(* What LoadConfig makes of the value v of a parameter, ... *)
Kept(name, v) ==
    CASE name = "transferperiod" /\ v \in NotPositive -> "3600"
      [] name = "modemtype" /\ v \notin {"usb", "tty"} -> "usb"
      [] name = "keyboard" /\ v \notin {"enable", "disable"} -> "disable"
      [] OTHER -> v

(* ... and the values at which it gives up. *)
Refused(name, v) == name \in {"gwradioaddress", "rimmsnetport"} /\ v \in NotPositive

NextParam(t) ==
    IF job[t].par < Len(Param)
    THEN /\ Set(t, [job[t] EXCEPT !.par = @ + 1]) /\ Goto(t, "reset")
         /\ UNCHANGED stale
    ELSE Answer(t, "OK") /\ Loaded(t, "conf")

(* A value is in its variable before it is found to be wrong; the parameters *)
(* that follow it are not loaded.                                            *)
CopyParam(t) ==
    /\ Step(t, "copy") /\ job[t].op = "PARAM"
    /\ LET name == Param[job[t].par]
           v == Db.row[1].val
       IN  /\ conf' = [conf EXCEPT ![job[t].par] = Kept(name, v)]
           /\ IF Refused(name, v)
              THEN Answer(t, "WRONG") /\ Loaded(t, "conf")
              ELSE NextParam(t)
    /\ UNCHANGED <<shmVars, parserVars, Db, file, lock, dev, number, up,
                   count, mixed, shared>>

(* SQLITE_BUSY.  LoadConfig gives up, or goes on when it was gwradioaddress.  *)
(* InitDevices puts LoadDeviceDb's -2 into the unsigned DeviceNumber and     *)
(* writes to as many devices: the program leaves its memory and is killed.   *)
SelectBusy(t) ==
    /\ Step(t, "select")
    /\ lock[Other(t)] = "write"
    /\ \/ /\ job[t].op # "PARAM"
          /\ up' = FALSE
          /\ UNCHANGED <<pc, job, stale>>
       \/ /\ job[t].op = "PARAM" /\ Param[job[t].par] = "gwradioaddress"
          /\ NextParam(t)
          /\ UNCHANGED up
       \/ /\ job[t].op = "PARAM" /\ Param[job[t].par] # "gwradioaddress"
          /\ Answer(t, "WRONG") /\ stale' = stale \cup {"conf"}
          /\ UNCHANGED up
    /\ UNCHANGED <<shmVars, parserVars, Db, file, lock, dev, number, conf,
                   count, mixed, shared>>

CopyDevices(t) ==
    /\ Step(t, "copy") /\ job[t].op # "PARAM"
    /\ dev' = [i \in Rows |-> IF i <= Db.numrow
                              THEN Device(Db.row[i], 0) ELSE dev[i]]
    /\ Goto(t, "count")
    /\ UNCHANGED <<shmVars, job, parserVars, Db, file, lock, number, conf, up, stale,
                   count, mixed, shared>>

CountDevices(t) ==
    /\ Step(t, "count") /\ Goto(t, "normal")
    /\ number' = Db.numrow
    /\ UNCHANGED <<shmVars, job, parserVars, Db, file, lock, dev, conf, up, stale,
                   count, mixed, shared>>

(* sampleperiod and radioperiod are divided by 10. *)
Normalise(t) ==
    /\ Step(t, "normal") /\ Answer(t, "OK")
    /\ dev' = [i \in Rows |-> IF i <= number THEN [dev[i] EXCEPT !.div = @ + 1] ELSE dev[i]]
    /\ Loaded(t, "table")
    /\ UNCHANGED <<shmVars, parserVars, Db, file, lock, number, conf, up,
                   count, mixed, shared>>

-----------------------------------------------------------------------------
(* The program is killed at any moment, or has crashed, and starts again:   *)
(* OpenShadowMemory, LoadConfig and InitDevices run before the threads, and *)
(* main returns when LoadConfig gives up.                                   *)
Bad(i) == Refused(Param[i], file.config[i].val)

FromFile ==
    /\ dev' = [i \in Rows |-> IF i <= Len(file.sensor)
                              THEN Device(file.sensor[i], 1) ELSE Device(NoRow, 0)]
    /\ number' = Len(file.sensor)
    /\ conf' = [i \in DOMAIN Param |-> Kept(Param[i], file.config[i].val)]
    /\ up' = \A i \in DOMAIN Param : ~Bad(i)
    /\ Db' = [numrow |-> 0, row |-> [i \in Rows |-> NoRow]]

EmptyShm == [rx |-> [i \in Places |-> NUL], buf |-> [i \in 1..Longest |-> Blank], at |-> 1]

Fresh ==
    /\ shm' = EmptyShm
    /\ pc' = [t \in Thread |-> "idle"] /\ job' = [t \in Thread |-> NoJob]
    /\ parser' = [i \in 1..Longest |-> Blank] /\ response' = NoJob
    /\ lock' = [t \in Thread |-> "none"]
    /\ FromFile
    /\ mixed' = {} /\ shared' = {} /\ stale' = {}

Restart ==
    /\ count.kill < MaxKills
    /\ Fresh
    /\ count' = [count EXCEPT !.kill = @ + 1]
    /\ torn' = ~WebIdle
    /\ UNCHANGED <<web, file>>

Init ==
    /\ web = [text |-> <<>>, done |-> 0]
    /\ shm = EmptyShm
    /\ pc = [t \in Thread |-> "idle"] /\ job = [t \in Thread |-> NoJob]
    /\ parser = [i \in 1..Longest |-> Blank] /\ response = NoJob
    /\ file = [sensor |-> [i \in DOMAIN Ids |-> Row(Ids[i], Ids[i])],
               config |-> [i \in DOMAIN Param |-> Row(Param[i], Param[i])]]
    /\ Db = [numrow |-> 0, row |-> [i \in Rows |-> NoRow]]
    /\ lock = [t \in Thread |-> "none"]
    /\ dev = [i \in Rows |-> IF i <= Len(Ids)
                             THEN Device(Row(Ids[i], Ids[i]), 1) ELSE Device(NoRow, 0)]
    /\ number = Len(Ids)
    /\ conf = [i \in DOMAIN Param |-> Kept(Param[i], Param[i])]
    /\ up = TRUE
    /\ count = [web |-> 0, net |-> 0, kill |-> 0]
    /\ torn = FALSE /\ mixed = {} /\ shared = {} /\ stale = {}

Web == (\E t \in WebTexts : WebStart(t)) \/ WebWrite \/ WebEnd \/ WebDies

ExecCommand(t) ==
    Clear(t) \/ Fill(t) \/ Exec(t) \/ NameOf(t) \/ Find(t) \/ Reply(t)

DbCall(t) ==
    \/ Zero(t) \/ Write(t) \/ Commit(t) \/ Empty(t) \/ Reset(t) \/ Select(t)
    \/ SelectBusy(t) \/ Callback(t) \/ RowsEnd(t) \/ CopyParam(t) \/ CopyDevices(t)
    \/ CountDevices(t) \/ Normalise(t)

GestSMComunication == TakeByte \/ TakeLine \/ Acknowledge
GestRiMMSNet == \E t \in NetTexts : TakeDatagram(t)

Next ==
    \/ Web \/ GestSMComunication \/ GestRiMMSNet \/ Restart
    \/ \E t \in Thread : ExecCommand(t) \/ DbCall(t) \/ Send(t)

Spec == Init /\ [][Next]_vars

-----------------------------------------------------------------------------
Words == UNION {{t[i] : i \in DOMAIN t} : t \in WebTexts \cup NetTexts}
Field == Sensor \cup Name \cup Words \cup Defaults \cup {Blank}

TypeOK ==
    /\ web.done \in 0..(Longest + 1) /\ web.text \in WebTexts \cup {<<>>}
    /\ shm.at \in Places
    /\ shm.rx \in [Places -> Field \cup {NUL, EOL}] /\ shm.buf \in [1..Longest -> Field]
    /\ parser \in [1..Longest -> Field]
    /\ Db.numrow \in 0..(2 * Len(Ids)) /\ number \in 0..(2 * Len(Ids))
    /\ lock \in [Thread -> {"none", "read", "write"}]
    /\ mixed \subseteq Thread /\ shared \subseteq Thread /\ stale \subseteq {"table", "conf"}

(* A command that comes through shared memory is run as it was written, and *)
(* while none is written the channel is empty and in step, however the      *)
(* bytes of the two sides interleave.  Only a web process that dies         *)
(* half-way, or the end of the program meanwhile, puts it out of step.      *)
ChannelInStep ==
    torn \/ /\ Busy("RiMMS") /\ pc["RiMMS"] # "send" => job["RiMMS"].text = web.text
            /\ WebIdle => shm = [EmptyShm EXCEPT !.buf = shm.buf]

(* The types of both threads' commands, and that the channel is in step.    *)
CommandsInv == TypeOK /\ ChannelInStep

IdsIn(rows) == {rows[i].key : i \in DOMAIN rows}
ValIn(rows, k) == {rows[i].val : i \in {j \in DOMAIN rows : rows[j].key = k}}

(* LoadConfig comes to parameter i.                                         *)
Reached(i) == \A j \in 1..(i - 1) : ~Bad(j)

(* What a thread answers is the answer to the command it was given, and true *)
(* of the database and of the parameters in memory, when no command of the   *)
(* other thread ran beside it and the table is not left from such a run.  A  *)
(* change of a sensor is answered OK as well when the table was left from    *)
(* such a run before it and names a sensor that is no longer there.  A       *)
(* parameter is saved whatever its value; WRONG says that the file holds a   *)
(* value that LoadConfig refuses, of this parameter or of another, and those *)
(* behind it are not loaded.                                                 *)
AnswersAreTrue ==
    \A t \in Thread \ mixed : pc[t] \in {"ack", "send"} =>
        LET text == job[t].text
            op == Word(text, 1)
            a == Word(text, 2)
            b == Word(text, 3)
            res == response.res
            whole == op \in DOMAIN Needs /\ Len(text) >= Needs[op]
        IN  /\ response.text = text
            /\ ~whole => res = CASE op = "PING" -> "OK"
                                 [] op \in DOMAIN Needs -> "PARAMERR"
                                 [] OTHER -> "ERROR"
            /\ whole /\ op = "PARAM" =>
                 /\ res = IF \E i \in DOMAIN Param : Bad(i) THEN "WRONG" ELSE "OK"
                 /\ \A i \in DOMAIN Param :
                      Param[i] = a => /\ file.config[i].val = b
                                      /\ Reached(i) => conf[i] = Kept(a, b)
            /\ whole /\ "table" \notin stale =>
                 /\ op = "NAME" =>
                      IF a \in IdsIn(file.sensor)
                      THEN {res} = ValIn(file.sensor, a) ELSE res = "ERRID"
                 /\ op = "RMV" =>
                      res \in {"OK", "DBERR"} /\ a \notin IdsIn(file.sensor) /\ ~Found(a)
                 /\ op = "UPD" =>
                      IF res = "OK"
                      THEN /\ ValIn(file.sensor, a) \subseteq {b}
                           /\ job[t].sure => a \in IdsIn(file.sensor)
                      ELSE res = "DBERR" /\ a \notin IdsIn(file.sensor)

(* When no thread works on the database, Devices holds the rows of table     *)
(* sensor, each normalised once, and the parameters are what LoadConfig makes *)
(* of those of table config, up to the first it refuses, unless the last load *)
(* of them overlapped with database work of the other thread: the next load  *)
(* on its own repairs whatever that left.  The program crashes only over a   *)
(* load that was not on its own, and starts unless a parameter is refused.   *)
MemoryIsFile ==
    /\ up \/ shared = Thread \/ \E i \in DOMAIN Param : Bad(i)
    /\ up /\ (\A t \in Thread : ~InDb(t)) =>
         /\ "table" \notin stale =>
              /\ number = Len(file.sensor)
              /\ \A i \in 1..number :
                    dev[i] = Device(file.sensor[i], 1)
         /\ "conf" \notin stale =>
              \A i \in DOMAIN Param :
                  Reached(i) => conf[i] = Kept(Param[i], file.config[i].val)
=============================================================================
