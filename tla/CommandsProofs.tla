---------------------------- MODULE CommandsProofs ----------------------------
(***************************************************************************)
(* For any commands, any table of sensors and any parameters: the types,   *)
(* that the channel in shared memory keeps in step, that memory holds what *)
(* the tables hold, and that the answers are true.                         *)
(*                                                                         *)
(* The four parts of the inductive invariant: the types with the places    *)
(* and locks of the threads (TypeInv), what is in the channel              *)
(* (ChannelHolds), how far a load has come (MemoryInv, which needs to know *)
(* from Overlaps that it is on its own), and what a command that is alone  *)
(* has found out so far (AnswerInv).                                       *)
(***************************************************************************)
EXTENDS Commands, WellFoundedInduction, SequenceTheorems, TLAPS

(* The types of the variables, and of the variables on a thread's stack.    *)
Limit == Len(Ids)
RowSet == [key : Field, val : Field]
Result == Field \cup {"OK", "ERROR", "PARAMERR", "ERRID", "DBERR", "WRONG"}
Job == [text : Seq(Field), op : Field, a : Field, b : Field, res : Result,
        cur : Nat \ {0}, par : DOMAIN Param, sure : BOOLEAN]
Loading == {"empty", "reset", "select", "rows", "copy", "count", "normal"}
InDbPlace == {"write", "commit"} \cup Loading
Place == {"idle", "clear", "fill", "exec", "name", "find", "zero", "reply", "ack", "send"}
           \cup InDbPlace

ShmTypes ==
    /\ web \in [text : WebTexts \cup {<<>>}, done : 0..(Longest + 1)]
    /\ web.done <= Len(Line) /\ (WebIdle => web.done = 0)
    /\ shm \in [rx : [Places -> Field \cup {NUL, EOL}], buf : [1..Longest -> Field], at : Places]
    /\ shm.rx[Longest + 1] \in {NUL, EOL} /\ torn \in BOOLEAN
ThreadTypes ==
    /\ pc \in [Thread -> Place] /\ job \in [Thread -> Job]
    /\ parser \in [1..Longest -> Field] /\ response \in Job
    /\ mixed \subseteq Thread /\ shared \subseteq Thread
    /\ count \in [web : Nat, net : Nat, kill : Nat]
DbTypes ==
    /\ Db \in [numrow : 0..(2 * Limit), row : [Rows -> RowSet]]
    /\ dev \in [Rows -> [key : Field, val : Field, div : Nat]] /\ number \in 0..(2 * Limit)
    /\ conf \in [DOMAIN Param -> Field] /\ lock \in [Thread -> {"none", "read", "write"}]
    /\ up \in BOOLEAN /\ stale \subseteq {"table", "conf"}

(* The tables, whose ids are in one row each. *)
OneRowEach(rows) == \A i, j \in DOMAIN rows : rows[i].key = rows[j].key => i = j
FileOk ==
    /\ file \in [sensor : Seq(RowSet), config : [DOMAIN Param -> RowSet]]
    /\ Len(file.sensor) <= Limit
    /\ OneRowEach(file.sensor)
    /\ \A i \in DOMAIN Param : file.config[i].key = Param[i]

(* The place of a thread fits the command it runs and the lock it holds.    *)
PlaceFits ==
    \A t \in Thread :
        /\ lock[t] = "read" <=> pc[t] = "rows"
        /\ lock[t] = "write" <=> pc[t] = "commit"
        /\ pc[t] \in {"find", "zero"} \cup InDbPlace => job[t].op \in {"ADD", "RMV", "UPD", "PARAM"}
        /\ pc[t] \in InDbPlace => job[t].op # "ADD"
        /\ pc[t] \in {"find", "empty", "count", "normal"} => job[t].op # "PARAM"

(* The rows a thread has still to read fit behind those that are there.      *)
ToCome(t) ==
    CASE pc[t] = "select" -> Limit
      [] pc[t] = "rows" -> Limit + 1 - job[t].cur
      [] OTHER -> 0
RowsFit ==
    /\ \A t \in Thread : pc[t] = "rows" => job[t].cur <= Len(Asked(job[t])) + 1
    /\ Db.numrow + ToCome("RiMMS") + ToCome("comunication") <= 2 * Limit

(* What has a type, with what the types of Db and Devices depend on: a load  *)
(* reads a row more only where there is room for it.                        *)
TypeInv == ShmTypes /\ ThreadTypes /\ DbTypes /\ FileOk /\ PlaceFits /\ RowsFit

(* The channel: while the thread runs a command it holds nothing but the end *)
(* of line; before that, what was written and not yet taken; then nothing.   *)
AtWork == Busy("RiMMS") /\ pc["RiMMS"] # "send"
ShmEmpty == shm.at = 1 /\ \A i \in Places : shm.rx[i] = NUL
AsWritten ==
    /\ ~WebIdle /\ web.done = Len(Line) /\ shm.at = Len(Line)
    /\ job["RiMMS"].text = web.text
    /\ \A i \in Places : shm.rx[i] = IF i = Len(Line) THEN EOL ELSE NUL
Taking ==
    /\ ~WebIdle /\ shm.at <= web.done + 1 /\ shm.at <= Len(Line)
    /\ pc["RiMMS"] = "send" => shm.at = 1
    /\ \A i \in Places : shm.rx[i] = IF i \in shm.at..web.done THEN Line[i] ELSE NUL
    /\ \A i \in 1..(shm.at - 1) : shm.buf[i] = web.text[i]
ChannelHolds ==
    torn \/ IF AtWork THEN AsWritten
            ELSE Taking \/ (ShmEmpty /\ (WebIdle \/ web.done = Len(Line)))

(* Two commands at once are known to be, and so is the work on the database *)
(* of two threads at once; a command on its own has its work on its own.     *)
Overlaps ==
    /\ Busy("RiMMS") /\ Busy("comunication") => mixed = Thread
    /\ InDb("RiMMS") /\ InDb("comunication") => shared = Thread
    /\ \A t \in Thread : InDb(t) /\ t \notin mixed => t \notin shared

(* How far a load has come that nothing disturbs, by the place of the thread *)
(* in it.                                                                    *)
LoadsTable(t) == pc[t] \in Loading /\ job[t].op # "PARAM"
LoadsConfig(t) == pc[t] \in Loading /\ job[t].op = "PARAM"
TableInMemory ==
    /\ number = Len(file.sensor)
    /\ \A i \in 1..number : dev[i] = Device(file.sensor[i], 1)
ConfigInMemory ==
    \A i \in DOMAIN Param : Reached(i) => conf[i] = Kept(Param[i], file.config[i].val)
RowsRead(n) ==
    /\ Db.numrow = n
    /\ \A i \in 1..n : Db.row[i] = file.sensor[i]
DevicesRead == \A i \in 1..Len(file.sensor) : dev[i] = Device(file.sensor[i], 0)
TableLoad(t) ==
    /\ pc[t] = "select" => Db.numrow = 0
    /\ pc[t] = "rows" => RowsRead(job[t].cur - 1)
    /\ pc[t] = "copy" => RowsRead(Len(file.sensor))
    /\ pc[t] = "count" => RowsRead(Len(file.sensor)) /\ DevicesRead
    /\ pc[t] = "normal" => number = Len(file.sensor) /\ DevicesRead
ConfigLoad(t) ==
    /\ \A i \in 1..(job[t].par - 1) :
          ~Bad(i) /\ conf[i] = Kept(Param[i], file.config[i].val)
    /\ pc[t] = "select" => Db.numrow = 0
    /\ pc[t] = "rows" => /\ Db.numrow = job[t].cur - 1
                         /\ job[t].cur = 2 => Db.row[1] = file.config[job[t].par]
    /\ pc[t] = "copy" => Db.row[1] = file.config[job[t].par]

(* Until its transaction is done, a command stands at the first parameter. *)
FirstParam ==
    \A t \in Thread : pc[t] \in {"clear", "fill", "exec", "name", "find", "zero", "write", "commit"}
                        => job[t].par = 1
Running == up \/ shared = Thread \/ \E i \in DOMAIN Param : Bad(i)
MemoryInv ==
    /\ Running
    /\ FirstParam
    /\ \A t \in Thread \ shared : /\ LoadsTable(t) => TableLoad(t)
                                  /\ LoadsConfig(t) => ConfigLoad(t)
    /\ up => /\ "table" \in stale \/ TableInMemory \/ \E t \in Thread : LoadsTable(t)
             /\ "conf" \in stale \/ ConfigInMemory \/ \E t \in Thread : LoadsConfig(t)

(* What a thread that is alone with its command has found out: it has the   *)
(* words of the command, it did what they ask for, and its answer says so.   *)
(* Right is the part of AnswersAreTrue that is about one answer.             *)
Whole(text) == Word(text, 1) \in DOMAIN Needs /\ Len(text) >= Needs[Word(text, 1)]
Right(t, res) ==
    LET text == job[t].text
        op == Word(text, 1)
        a == Word(text, 2)
        b == Word(text, 3)
        whole == op \in DOMAIN Needs /\ Len(text) >= Needs[op]
    IN  /\ ~whole => res = CASE op = "PING" -> "OK"
                             [] op \in DOMAIN Needs -> "PARAMERR"
                             [] OTHER -> "ERROR"
        /\ whole /\ op = "PARAM" =>
             /\ res = IF \E i \in DOMAIN Param : Bad(i) THEN "WRONG" ELSE "OK"
             /\ \A i \in DOMAIN Param :
                  Param[i] = a => /\ file.config[i].val = b
                                  /\ Reached(i) => conf[i] = Kept(a, b)
        /\ whole /\ "table" \notin stale =>
             /\ op = "NAME" =>
                  IF a \in IdsIn(file.sensor)
                  THEN {res} = ValIn(file.sensor, a) ELSE res = "ERRID"
             /\ op = "RMV" =>
                  res \in {"OK", "DBERR"} /\ a \notin IdsIn(file.sensor) /\ ~Found(a)
             /\ op = "UPD" =>
                  IF res = "OK"
                  THEN /\ ValIn(file.sensor, a) \subseteq {b}
                       /\ job[t].sure => a \in IdsIn(file.sensor)
                  ELSE res = "DBERR" /\ a \notin IdsIn(file.sensor)

ToldRight(t) ==
    LET j == job[t] IN
    /\ j.sure => "table" \notin stale
    /\ pc[t] = "fill" => parser = [i \in 1..Longest |-> Blank]
    /\ pc[t] = "exec" => parser = [i \in 1..Longest |-> Word(j.text, i)]
    /\ pc[t] \in {"name", "find", "zero"} \cup InDbPlace =>
         /\ Whole(j.text)
         /\ j.op = Word(j.text, 1) /\ j.a = Word(j.text, 2) /\ j.b = Word(j.text, 3)
         /\ pc[t] = "name" <=> j.op = "NAME"
    /\ pc[t] \in {"zero"} \cup InDbPlace /\ j.op = "UPD" /\ j.sure => j.a \in IdsIn(file.sensor)
    /\ pc[t] \in Loading =>
         /\ j.op = "UPD" => ValIn(file.sensor, j.a) \subseteq {j.b}
         /\ j.op = "RMV" => j.a \notin IdsIn(file.sensor)
         /\ j.op = "PARAM" => \A i \in DOMAIN Param : Param[i] = j.a => file.config[i].val = j.b
    /\ pc[t] = "reply" => Right(t, j.res)
    /\ pc[t] \in {"ack", "send"} => response.text = j.text /\ Right(t, response.res)
AnswerInv == \A t \in Thread : Busy(t) /\ t \notin mixed => ToldRight(t)

-----------------------------------------------------------------------------
LEMMA LeastNumber ==
    ASSUME NEW T, T \subseteq Nat, T # {}
    PROVE  \E n \in T : \A k \in T : n <= k
<1> DEFINE R == {ss \in Nat \X Nat : ss[1] < ss[2]}
<1>1. IsWellFoundedOn(R, Nat)
  BY NatLessThanWellFounded DEF OpToRel
<1>2. PICK n \in T : \A k \in T : <<k, n>> \notin R
  <2> HIDE DEF R
  <2> QED BY <1>1, WFMin
<1>3. ASSUME NEW k \in T PROVE n <= k
  <2>1. n \in Nat /\ k \in Nat /\ ~(k < n)
    BY <1>2, <1>3
  <2> QED BY <2>1
<1> QED BY <1>3

LEMMA Given ==
    /\ Limit \in Nat \ {0} /\ DOMAIN Ids = 1..Limit /\ Ids \in [1..Limit -> Sensor]
    /\ MaxRows \in Nat /\ 2 * Limit <= MaxRows
    /\ Rows = 1..MaxRows /\ 1 \in Rows
    /\ Len(Param) \in Nat \ {0} /\ DOMAIN Param = 1..Len(Param)
    /\ Param \in [DOMAIN Param -> Name]
    /\ \A i, j \in DOMAIN Ids : Ids[i] = Ids[j] => i = j
    /\ \A i, j \in DOMAIN Param : Param[i] = Param[j] => i = j
    /\ Sensor \subseteq Field /\ Name \subseteq Field /\ Blank \in Field
    /\ MaxWeb \in Nat /\ MaxNet \in Nat /\ MaxKills \in Nat
<1>1. Ids \in Seq(Sensor) /\ Ids # <<>> /\ Param \in Seq(Name) /\ Param # <<>>
  BY CommandsAssumption
<1>2. Limit \in Nat \ {0} /\ DOMAIN Ids = 1..Limit /\ Ids \in [1..Limit -> Sensor]
  BY <1>1 DEF Limit
<1>3. Len(Param) \in Nat \ {0} /\ DOMAIN Param = 1..Len(Param) /\ Param \in [DOMAIN Param -> Name]
  BY <1>1
<1>4. /\ MaxRows \in Nat /\ 2 * Limit <= MaxRows
      /\ Rows = 1..MaxRows /\ 1 \in Rows
  BY <1>2, CommandsAssumption DEF Rows, Limit
<1>5. /\ \A i, j \in DOMAIN Ids : Ids[i] = Ids[j] => i = j
      /\ \A i, j \in DOMAIN Param : Param[i] = Param[j] => i = j
  BY CommandsAssumption DEF Distinct
<1>6. Sensor \subseteq Field /\ Name \subseteq Field /\ Blank \in Field
  BY DEF Field
<1>7. MaxWeb \in Nat /\ MaxNet \in Nat /\ MaxKills \in Nat
  BY CommandsAssumption
<1> QED BY <1>2, <1>3, <1>4, <1>5, <1>6, <1>7

LEMMA KeptIsField ==
    ASSUME NEW n, NEW v \in Field
    PROVE  Kept(n, v) \in Field
<1>1. "3600" \in Field /\ "usb" \in Field /\ "disable" \in Field
  BY DEF Field, Defaults
<1> QED BY <1>1 DEF Kept

LEMMA Texts ==
    \A t \in WebTexts \cup NetTexts :
        /\ t \in Seq(Field) /\ Len(t) \in 1..3 /\ DOMAIN t = 1..Len(t) /\ t # <<>>
        /\ \A i \in 1..Len(t) : t[i] \in Field /\ t[i] # EOL /\ t[i] # NUL
<1> SUFFICES ASSUME NEW t \in WebTexts \cup NetTexts
             PROVE  /\ t \in Seq(Field) /\ Len(t) \in 1..3 /\ DOMAIN t = 1..Len(t) /\ t # <<>>
                    /\ \A i \in 1..Len(t) : t[i] \in Field /\ t[i] # EOL /\ t[i] # NUL
  OBVIOUS
<1>1. IsText(t)
  BY CommandsAssumption
<1>2. t \in Seq({t[i] : i \in DOMAIN t}) /\ Len(t) \in 1..3 /\ DOMAIN t = 1..Len(t) /\ t # <<>>
  BY <1>1 DEF IsText, Longest
<1>3. \A i \in 1..Len(t) : t[i] \in Field
  BY <1>2 DEF Field, Words
<1>4. t \in Seq(Field)
  <2>1. t \in [1..Len(t) -> Field] /\ Len(t) \in Nat
    BY <1>2, <1>3
  <2> QED BY <2>1
<1> QED BY <1>1, <1>2, <1>3, <1>4 DEF IsText

LEMMA TwoThreads ==
    /\ "RiMMS" \in Thread /\ "comunication" \in Thread
    /\ Other("RiMMS") = "comunication" /\ Other("comunication") = "RiMMS"
    /\ \A t \in Thread : Other(t) \in Thread /\ Other(t) # t /\ \A u \in Thread : u # t => u = Other(t)
  BY DEF Thread, Other

-----------------------------------------------------------------------------
(* What each kind of step leaves alone. *)
LEMMA ExecFrame ==
    ASSUME NEW t \in Thread, ExecCommand(t) \/ Send(t)
    PROVE  UNCHANGED <<shmVars, dbVars, count, mixed, shared>>
  BY DEF ExecCommand, Send, Clear, Fill, Exec, NameOf, Find, Reply, shmVars, dbVars, parserVars

LEMMA DbFrame ==
    ASSUME NEW t \in Thread, DbCall(t)
    PROVE  UNCHANGED <<shmVars, parserVars, count, mixed>>
  BY DEF DbCall, Zero, Write, Commit, Empty, Reset, Select, SelectBusy, Callback, RowsEnd,
         CopyParam, NextParam, CopyDevices, CountDevices, Normalise, shmVars, dbVars, parserVars

LEMMA OuterFrame ==
    ASSUME Web \/ GestSMComunication \/ GestRiMMSNet
    PROVE  UNCHANGED <<parserVars, dbVars, shared>>
  BY DEF Web, WebStart, WebWrite, WebEnd, WebDies, GestSMComunication, GestRiMMSNet,
         TakeByte, TakeLine, TakeDatagram, Acknowledge, Begin, shmVars, dbVars, parserVars

-----------------------------------------------------------------------------
LEMMA LineFacts ==
    ASSUME ShmTypes
    PROVE  /\ WebIdle => Len(Line) = 1 /\ Line[1] = EOL
           /\ ~WebIdle => /\ web.text \in WebTexts /\ web.text \in Seq(Field)
                          /\ Len(web.text) \in 1..3 /\ Len(Line) = Len(web.text) + 1
                          /\ Line[Len(Line)] = EOL
                          /\ \A i \in 1..Len(web.text) :
                               Line[i] = web.text[i] /\ Line[i] \in Field \ {NUL, EOL}
<1>1. web.text \in WebTexts \cup {<<>>}
  BY DEF ShmTypes
<1>2. CASE WebIdle
  BY <1>2 DEF Line, WebIdle
<1>3. CASE ~WebIdle
  <2>1. web.text \in WebTexts
    BY <1>1, <1>3 DEF WebIdle
  <2>2. /\ web.text \in Seq(Field) /\ Len(web.text) \in 1..3
        /\ \A i \in 1..Len(web.text) : web.text[i] \in Field \ {NUL, EOL}
    BY <2>1, Texts
  <2>3. /\ Len(Line) = Len(web.text) + 1 /\ Line[Len(Line)] = EOL
        /\ \A i \in 1..Len(web.text) : Line[i] = web.text[i]
    BY <2>2 DEF Line
  <2> QED BY <1>3, <2>1, <2>2, <2>3
<1> QED BY <1>2, <1>3

(* A byte of shared memory is written. *)
LEMMA ByteWritten ==
    ASSUME ShmTypes, NEW i \in Places, NEW v \in Field \cup {NUL, EOL},
           shm' = [shm EXCEPT !.rx[i] = v]
    PROVE  /\ shm'.rx = [shm.rx EXCEPT ![i] = v] /\ shm'.buf = shm.buf /\ shm'.at = shm.at
           /\ shm' \in [rx : [Places -> Field \cup {NUL, EOL}], buf : [1..Longest -> Field],
                        at : Places]
<1> DEFINE rxNow == [shm.rx EXCEPT ![i] = v]
<1>1. rxNow \in [Places -> Field \cup {NUL, EOL}]
  BY DEF ShmTypes
<1>2. shm' = [shm EXCEPT !.rx = rxNow]
  OBVIOUS
<1> HIDE DEF rxNow
<1>3. shm'.rx = rxNow /\ shm'.buf = shm.buf /\ shm'.at = shm.at
  BY <1>2 DEF ShmTypes
<1>4. shm' \in [rx : [Places -> Field \cup {NUL, EOL}], buf : [1..Longest -> Field], at : Places]
  BY <1>1, <1>2 DEF ShmTypes
<1> QED BY <1>3, <1>4 DEF rxNow

LEMMA LineEnded ==
    ASSUME ShmTypes, Acknowledge, NUL \in Field \cup {NUL, EOL}
    PROVE  /\ shm'.rx = [shm.rx EXCEPT ![shm.at] = NUL] /\ shm'.buf = shm.buf /\ shm'.at = 1
           /\ shm' \in [rx : [Places -> Field \cup {NUL, EOL}], buf : [1..Longest -> Field],
                        at : Places]
<1> DEFINE rxNow == [shm.rx EXCEPT ![shm.at] = NUL]
<1>1. rxNow \in [Places -> Field \cup {NUL, EOL}] /\ 1 \in Places
  BY DEF ShmTypes, Places, Longest
<1>2. shm' = [shm EXCEPT !.rx = rxNow, !.at = 1]
  BY DEF Acknowledge
<1> HIDE DEF rxNow
<1>3. shm'.rx = rxNow /\ shm'.buf = shm.buf /\ shm'.at = 1
  BY <1>2 DEF ShmTypes
<1>4. shm' \in [rx : [Places -> Field \cup {NUL, EOL}], buf : [1..Longest -> Field], at : Places]
  BY <1>1, <1>2 DEF ShmTypes
<1> QED BY <1>3, <1>4 DEF rxNow

LEMMA ShmStep ==
    ASSUME ShmTypes, [Next]_vars
    PROVE  ShmTypes'
<1> USE DEF Longest, Places
<1>0. NUL \in Field \cup {NUL, EOL} /\ EOL \in Field \cup {NUL, EOL} /\ EOL # NUL
      /\ Blank \in Field
  BY Given DEF NUL, EOL
<1>1. CASE \E t \in WebTexts : WebStart(t)
  <2>1. PICK t \in WebTexts : WebStart(t)
    BY <1>1
  <2>2. Len(Line') \in Nat /\ ~WebIdle' /\ web' = [text |-> t, done |-> 0]
    BY <2>1, Texts DEF WebStart, Line, WebIdle
  <2> QED BY <2>1, <2>2 DEF WebStart, ShmTypes, shmVars
<1>2. CASE WebWrite
  <2>1. /\ web.done + 1 \in 1..Len(Line) /\ Len(Line) \in 1..4 /\ Line' = Line /\ ~WebIdle'
        /\ web' = [web EXCEPT !.done = @ + 1]
        /\ shm' = [shm EXCEPT !.rx[web.done + 1] = Line[web.done + 1]]
        /\ Line[web.done + 1] \in Field \cup {NUL, EOL}
        /\ web.done + 1 = 4 => Line[web.done + 1] = EOL
    BY <1>2, <1>0, LineFacts DEF WebWrite, ShmTypes, Line, WebIdle
  <2>2. shm' \in [rx : [1..4 -> Field \cup {NUL, EOL}], buf : [1..3 -> Field], at : 1..4]
        /\ shm'.rx = [shm.rx EXCEPT ![web.done + 1] = Line[web.done + 1]]
    <3> DEFINE i == web.done + 1
               v == Line[web.done + 1]
    <3>1. i \in Places /\ v \in Field \cup {NUL, EOL} /\ shm' = [shm EXCEPT !.rx[i] = v]
      BY <2>1
    <3> HIDE DEF i, v
    <3>2. /\ shm'.rx = [shm.rx EXCEPT ![i] = v]
          /\ shm' \in [rx : [Places -> Field \cup {NUL, EOL}], buf : [1..Longest -> Field],
                       at : Places]
      BY <3>1, ByteWritten
    <3> QED BY <3>2 DEF i, v
  <2>3. shm'.rx[4] \in {NUL, EOL}
    BY <2>1, <2>2 DEF ShmTypes
  <2>4. web' \in [text : WebTexts \cup {<<>>}, done : 0..4] /\ web'.done <= Len(Line')
    BY <2>1 DEF ShmTypes
  <2> QED BY <1>2, <2>1, <2>2, <2>3, <2>4 DEF WebWrite, ShmTypes
<1>3. CASE WebEnd \/ WebDies
  <2>1. web' = [text |-> <<>>, done |-> 0] /\ UNCHANGED shm /\ torn' \in BOOLEAN
    BY <1>3 DEF WebEnd, WebDies, ShmTypes
  <2>2. WebIdle' /\ Len(Line') = 1
    BY <2>1 DEF WebIdle, Line
  <2> QED BY <2>1, <2>2 DEF ShmTypes
<1>4. CASE TakeByte
  <2>1. /\ shm.at \in 1..3 /\ shm.rx[shm.at] \in Field
        /\ UNCHANGED <<web, torn>>
        /\ shm' = [rx |-> [shm.rx EXCEPT ![shm.at] = NUL],
                   buf |-> [shm.buf EXCEPT ![shm.at] = shm.rx[shm.at]],
                   at |-> shm.at + 1]
    BY <1>4 DEF TakeByte, ShmTypes
  <2> QED BY <2>1, <1>0 DEF ShmTypes, Line, WebIdle
<1>5. CASE Acknowledge
  <2>1. UNCHANGED <<web, torn, Line, WebIdle>>
    BY <1>5 DEF Acknowledge, Line, WebIdle
  <2>2. shm'.rx[4] \in {NUL, EOL}
    BY <1>0, <1>5, LineEnded DEF ShmTypes
  <2> QED BY <1>0, <1>5, LineEnded, <2>1, <2>2 DEF ShmTypes
<1>6. CASE Restart
  <2>1. shm' = EmptyShm /\ UNCHANGED web /\ torn' \in BOOLEAN
    BY <1>6 DEF Restart, Fresh
  <2>2. shm' \in [rx : [1..4 -> Field \cup {NUL, EOL}], buf : [1..3 -> Field], at : 1..4]
        /\ shm'.rx[4] \in {NUL, EOL}
    BY <2>1, <1>0 DEF EmptyShm
  <2> QED BY <2>1, <2>2 DEF ShmTypes, Line, WebIdle
<1>7. CASE UNCHANGED shmVars
  BY <1>7 DEF shmVars, ShmTypes, Line, WebIdle
<1>8. CASE TakeLine \/ GestRiMMSNet
  BY <1>7, <1>8 DEF TakeLine, GestRiMMSNet, TakeDatagram
<1>9. ASSUME NEW t \in Thread, ExecCommand(t) \/ DbCall(t) \/ Send(t) PROVE UNCHANGED shmVars
  BY <1>9, ExecFrame, DbFrame
<1> QED
  BY <1>1, <1>2, <1>3, <1>4, <1>5, <1>6, <1>7, <1>8, <1>9
     DEF Next, Web, GestSMComunication, vars

-----------------------------------------------------------------------------
LEMMA NoJobIsJob == NoJob \in Job /\ [i \in 1..Longest |-> Blank] \in [1..Longest -> Field]
<1>1. Blank \in Field /\ 1 \in DOMAIN Param /\ <<>> \in Seq(Field)
  BY Given
<1>2. Blank \in Result
  BY <1>1 DEF Result
<1> QED BY <1>1, <1>2 DEF NoJob, Job, Longest

(* Devices are searched from the first on. *)
LEMMA FirstSlot ==
    ASSUME DbTypes, NEW s, Found(s)
    PROVE  /\ Slot(s) \in 1..number /\ dev[Slot(s)].key = s
           /\ \A j \in 1..(Slot(s) - 1) : dev[j].key # s
<1> DEFINE T == {i \in 1..number : dev[i].key = s}
<1>1. T \subseteq Nat /\ T # {} /\ number \in Nat
  BY Given DEF Found, DbTypes
<1>2. PICK n \in T : \A k \in T : n <= k
  BY <1>1, LeastNumber
<1>3. /\ n \in 1..number /\ dev[n].key = s
      /\ \A j \in 1..(n - 1) : dev[j].key # s
  BY <1>1, <1>2
<1> QED BY <1>3 DEF Slot

LEMMA TakenText ==
    ASSUME ShmTypes
    PROVE  /\ SubSeq(shm.buf, 1, shm.at - 1) \in Seq(Field)
           /\ Len(SubSeq(shm.buf, 1, shm.at - 1)) = shm.at - 1
           /\ \A i \in 1..(shm.at - 1) : SubSeq(shm.buf, 1, shm.at - 1)[i] = shm.buf[i]
<1>1. shm.buf \in Seq(Field) /\ Len(shm.buf) = 3 /\ shm.at - 1 \in 0..3
  <2>1. shm.buf \in [1..3 -> Field] /\ shm.at \in 1..4
    BY DEF ShmTypes, Longest, Places
  <2>2. shm.buf \in Seq(Field)
    BY <2>1, 3 \in Nat, SeqDef
  <2>3. Len(shm.buf) \in Nat /\ DOMAIN shm.buf = 1..Len(shm.buf)
    BY <2>2
  <2>4. Len(shm.buf) = 3
    BY <2>1, <2>3
  <2> QED BY <2>1, <2>2, <2>4
<1> DEFINE n == shm.at - 1
<1>2. n \in 0..3
  BY <1>1
<1> HIDE DEF n
<1>3. /\ SubSeq(shm.buf, 1, n) \in Seq(Field) /\ Len(SubSeq(shm.buf, 1, n)) = n
      /\ \A i \in 1..n : SubSeq(shm.buf, 1, n)[i] = shm.buf[i]
  BY <1>1, <1>2
<1> QED BY <1>3 DEF n

LEMMA BeginTypes ==
    ASSUME ThreadTypes, NEW t \in Thread, NEW text \in Seq(Field), Begin(t, text)
    PROVE  /\ pc' \in [Thread -> Place] /\ job' \in [Thread -> Job] /\ mixed' \subseteq Thread
           /\ pc' = [pc EXCEPT ![t] = "clear"] /\ job'[t].text = text
<1>1. [NoJob EXCEPT !.text = text, !.sure = "table" \notin stale] \in Job
  BY NoJobIsJob DEF Job
<1>2. [NoJob EXCEPT !.text = text, !.sure = "table" \notin stale].text = text
  BY NoJobIsJob DEF Job
<1>3. job' = [job EXCEPT ![t] = [NoJob EXCEPT !.text = text, !.sure = "table" \notin stale]]
  BY DEF Begin, Set
<1>4. job' \in [Thread -> Job] /\ job'[t].text = text
  BY <1>1, <1>2, <1>3 DEF ThreadTypes
<1>5. pc' \in [Thread -> Place] /\ mixed' \subseteq Thread /\ pc' = [pc EXCEPT ![t] = "clear"]
  BY DEF Begin, Goto, ThreadTypes, Place
<1> QED BY <1>4, <1>5

(* An answer changes nothing else of a command. *)
LEMMA Answered ==
    ASSUME ThreadTypes, NEW t \in Thread, NEW res \in Result, Answer(t, res)
    PROVE  /\ pc' = [pc EXCEPT ![t] = "reply"] /\ pc' \in [Thread -> Place]
           /\ job' \in [Thread -> Job] /\ job' = [job EXCEPT ![t] = job'[t]]
           /\ job'[t].res = res
           /\ job'[t].text = job[t].text /\ job'[t].op = job[t].op /\ job'[t].sure = job[t].sure
           /\ job'[t].a = job[t].a /\ job'[t].b = job[t].b
<1>1. job[t] \in Job
  BY DEF ThreadTypes
<1>2. job' = [job EXCEPT ![t] = [job[t] EXCEPT !.res = res]]
  BY DEF Answer, Set
<1>3. job'[t] = [job[t] EXCEPT !.res = res] /\ job' = [job EXCEPT ![t] = job'[t]]
  BY <1>2 DEF ThreadTypes
<1>4. job'[t] \in Job
  BY <1>1, <1>3 DEF Job
<1>5. job' \in [Thread -> Job]
  BY <1>3, <1>4 DEF ThreadTypes
<1>6. pc' = [pc EXCEPT ![t] = "reply"] /\ pc' \in [Thread -> Place]
  BY DEF Answer, Goto, ThreadTypes, Place
<1>7. /\ job'[t].res = res
      /\ job'[t].text = job[t].text /\ job'[t].op = job[t].op /\ job'[t].sure = job[t].sure
      /\ job'[t].a = job[t].a /\ job'[t].b = job[t].b
  BY <1>1, <1>3 DEF Job
<1> QED BY <1>3, <1>5, <1>6, <1>7

(* The words of a command, once they are read. *)
LEMMA ExecReads ==
    ASSUME ThreadTypes, NEW t \in Thread, NEW p \in Place, Goto(t, p),
           Set(t, [job[t] EXCEPT !.op = parser[1], !.a = parser[2], !.b = parser[3]])
    PROVE  /\ pc' = [pc EXCEPT ![t] = p] /\ pc' \in [Thread -> Place]
           /\ job' \in [Thread -> Job] /\ job' = [job EXCEPT ![t] = job'[t]]
           /\ job'[t].op = parser[1] /\ job'[t].a = parser[2] /\ job'[t].b = parser[3]
           /\ job'[t].text = job[t].text /\ job'[t].sure = job[t].sure
           /\ job'[t].par = job[t].par
<1> DEFINE j == [job[t] EXCEPT !.op = parser[1], !.a = parser[2], !.b = parser[3]]
<1>1. job[t] \in Job /\ parser[1] \in Field /\ parser[2] \in Field /\ parser[3] \in Field
  BY DEF ThreadTypes, Longest
<1>2. /\ j \in Job /\ j.op = parser[1] /\ j.a = parser[2] /\ j.b = parser[3]
      /\ j.text = job[t].text /\ j.sure = job[t].sure /\ j.par = job[t].par
  BY <1>1 DEF Job
<1>3. job' = [job EXCEPT ![t] = j]
  BY DEF Set
<1> HIDE DEF j
<1>4. job'[t] = j /\ job' \in [Thread -> Job] /\ job' = [job EXCEPT ![t] = job'[t]]
  BY <1>2, <1>3 DEF ThreadTypes
<1>5. pc' = [pc EXCEPT ![t] = p] /\ pc' \in [Thread -> Place]
  BY DEF Goto, ThreadTypes
<1> QED BY <1>2, <1>4, <1>5

(* A step of a thread that runs a command is one of the interpreter's or of  *)
(* the database's; it goes on with the same command.                        *)
GoesOn(t) ==
    /\ pc[t] \notin {"idle", "ack", "send"} /\ pc'[t] # "idle"
    /\ pc'[t] \in {"ack", "send"} => pc'[t] = IF t = "RiMMS" THEN "ack" ELSE "send"
    /\ pc' = [pc EXCEPT ![t] = pc'[t]] /\ pc' \in [Thread -> Place]
    /\ job' \in [Thread -> Job] /\ job' = [job EXCEPT ![t] = job'[t]]
    /\ job'[t].text = job[t].text /\ job'[t].sure = job[t].sure
    /\ pc[t] # "exec" =>
         job'[t].op = job[t].op /\ job'[t].a = job[t].a /\ job'[t].b = job[t].b

LEMMA Moves ==
    ASSUME ThreadTypes, NEW t \in Thread, NEW p \in Place \ {"idle", "send", "ack"},
           pc[t] \notin {"idle", "ack", "send"}, Goto(t, p), UNCHANGED job
    PROVE  GoesOn(t) /\ pc'[t] = p
<1>1. pc' = [pc EXCEPT ![t] = p] /\ pc \in [Thread -> Place]
  BY DEF Goto, ThreadTypes
<1>2. pc'[t] = p /\ pc' \in [Thread -> Place] /\ pc' = [pc EXCEPT ![t] = pc'[t]]
  BY <1>1
<1>3. job' \in [Thread -> Job] /\ job' = [job EXCEPT ![t] = job'[t]] /\ job'[t] = job[t]
  BY DEF ThreadTypes
<1> QED BY <1>2, <1>3 DEF GoesOn

LEMMA Answers ==
    ASSUME ThreadTypes, NEW t \in Thread, NEW res \in Result,
           pc[t] \notin {"idle", "ack", "send"}, Answer(t, res)
    PROVE  GoesOn(t) /\ pc'[t] = "reply" /\ job'[t].res = res
<1>1. pc'[t] = "reply" /\ pc' = [pc EXCEPT ![t] = pc'[t]]
  BY Answered DEF ThreadTypes
<1> QED BY <1>1, Answered DEF GoesOn

(* The position in a table or among the parameters. *)
LEMMA Counts ==
    ASSUME ThreadTypes, NEW t \in Thread, NEW n \in Nat \ {0}, NEW m \in DOMAIN Param,
           \/ Set(t, [job[t] EXCEPT !.cur = n]) /\ m = job[t].par
           \/ Set(t, [job[t] EXCEPT !.par = m]) /\ n = job[t].cur
    PROVE  /\ job' \in [Thread -> Job] /\ job' = [job EXCEPT ![t] = job'[t]]
           /\ job'[t].cur = n /\ job'[t].par = m
           /\ job'[t].text = job[t].text /\ job'[t].op = job[t].op /\ job'[t].sure = job[t].sure
           /\ job'[t].a = job[t].a /\ job'[t].b = job[t].b
<1> DEFINE j == job'[t]
<1>1. job[t] \in Job
  BY DEF ThreadTypes
<1>2. \/ job' = [job EXCEPT ![t] = [job[t] EXCEPT !.cur = n]] /\ m = job[t].par
      \/ job' = [job EXCEPT ![t] = [job[t] EXCEPT !.par = m]] /\ n = job[t].cur
  BY DEF Set
<1>3. /\ job' = [job EXCEPT ![t] = j]
      /\ \/ j = [job[t] EXCEPT !.cur = n] /\ m = job[t].par
         \/ j = [job[t] EXCEPT !.par = m] /\ n = job[t].cur
  BY <1>2 DEF ThreadTypes
<1> HIDE DEF j
<1>4. j \in Job /\ j.cur = n /\ j.par = m
      /\ j.text = job[t].text /\ j.op = job[t].op /\ j.sure = job[t].sure
      /\ j.a = job[t].a /\ j.b = job[t].b
  BY <1>1, <1>3 DEF Job
<1>5. job' \in [Thread -> Job]
  BY <1>3, <1>4 DEF ThreadTypes
<1> QED BY <1>3, <1>4, <1>5 DEF j

LEMMA ResultFacts ==
    /\ Field \subseteq Result
    /\ {"OK", "ERROR", "PARAMERR", "ERRID", "DBERR", "WRONG"} \subseteq Result
  BY DEF Result

LEMMA NextParamSteps ==
    ASSUME ThreadTypes, NEW t \in Thread, pc[t] \in {"copy", "select"}, NextParam(t)
    PROVE  /\ GoesOn(t)
           /\ \/ /\ job[t].par < Len(Param) /\ stale' = stale
                 /\ pc'[t] = "reset" /\ job'[t].par = job[t].par + 1
              \/ /\ job[t].par = Len(Param) /\ Loaded(t, "conf")
                 /\ pc'[t] = "reply" /\ job'[t].res = "OK"
<1>1. job[t].par \in 1..Len(Param) /\ job[t].cur \in Nat \ {0} /\ Len(Param) \in Nat
  BY Given DEF ThreadTypes, Job
<1>2. CASE job[t].par < Len(Param)
  <2>1. job[t].par + 1 \in DOMAIN Param
    BY <1>1, <1>2, Given
  <2> DEFINE m == job[t].par + 1
  <2>2. Set(t, [job[t] EXCEPT !.par = job[t].par + 1]) /\ Goto(t, "reset") /\ stale' = stale
    BY <1>2 DEF NextParam
  <2>3. /\ job' \in [Thread -> Job] /\ job' = [job EXCEPT ![t] = job'[t]]
        /\ job'[t].par = m
        /\ job'[t].text = job[t].text /\ job'[t].sure = job[t].sure
        /\ job'[t].op = job[t].op /\ job'[t].a = job[t].a /\ job'[t].b = job[t].b
    <3> DEFINE n == job[t].cur
    <3>1. m \in DOMAIN Param /\ Set(t, [job[t] EXCEPT !.par = m]) /\ n \in Nat \ {0}
      BY <1>1, <2>1, <2>2
    <3>2. \/ Set(t, [job[t] EXCEPT !.cur = n]) /\ m = job[t].par
          \/ Set(t, [job[t] EXCEPT !.par = m]) /\ n = job[t].cur
      BY <3>1
    <3> HIDE DEF m, n
    <3> QED BY <3>1, <3>2, Counts
  <2>4. pc' = [pc EXCEPT ![t] = "reset"] /\ pc'[t] = "reset" /\ pc' \in [Thread -> Place]
    BY <2>2 DEF Goto, ThreadTypes, Place, InDbPlace, Loading
  <2> QED BY <1>2, <2>2, <2>3, <2>4 DEF GoesOn
<1>3. CASE ~(job[t].par < Len(Param))
  <2>1. Answer(t, "OK") /\ Loaded(t, "conf") /\ job[t].par = Len(Param)
    BY <1>1, <1>3 DEF NextParam
  <2>2. GoesOn(t) /\ pc'[t] = "reply" /\ job'[t].res = "OK"
    BY <2>1, Answers, ResultFacts
  <2> QED BY <2>1, <2>2
<1> QED BY <1>2, <1>3

(* What becomes of a parameter that is copied, ... *)
LEMMA CopySteps ==
    ASSUME ThreadTypes, NEW t \in Thread, CopyParam(t)
    PROVE  /\ GoesOn(t) /\ pc[t] = "copy" /\ job[t].op = "PARAM"
           /\ conf' = [conf EXCEPT ![job[t].par] = Kept(Param[job[t].par], Db.row[1].val)]
           /\ UNCHANGED <<Db, file, lock, dev, number, up, shared>>
           /\ \/ /\ Refused(Param[job[t].par], Db.row[1].val) /\ Loaded(t, "conf")
                 /\ pc'[t] = "reply" /\ job'[t].res = "WRONG"
              \/ /\ ~Refused(Param[job[t].par], Db.row[1].val)
                 /\ job[t].par < Len(Param) /\ stale' = stale
                 /\ pc'[t] = "reset" /\ job'[t].par = job[t].par + 1
              \/ /\ ~Refused(Param[job[t].par], Db.row[1].val)
                 /\ job[t].par = Len(Param) /\ Loaded(t, "conf")
                 /\ pc'[t] = "reply" /\ job'[t].res = "OK"
<1>1. /\ pc[t] = "copy" /\ job[t].op = "PARAM"
      /\ conf' = [conf EXCEPT ![job[t].par] = Kept(Param[job[t].par], Db.row[1].val)]
      /\ UNCHANGED <<Db, file, lock, dev, number, up, shared>>
      /\ \/ /\ Refused(Param[job[t].par], Db.row[1].val)
            /\ Answer(t, "WRONG") /\ Loaded(t, "conf")
         \/ ~Refused(Param[job[t].par], Db.row[1].val) /\ NextParam(t)
  BY DEF CopyParam, Step
<1>2. CASE /\ Refused(Param[job[t].par], Db.row[1].val)
           /\ Answer(t, "WRONG") /\ Loaded(t, "conf")
  <2>1. GoesOn(t) /\ pc'[t] = "reply" /\ job'[t].res = "WRONG"
    BY <1>1, <1>2, Answers, ResultFacts
  <2> QED BY <1>1, <1>2, <2>1
<1>3. CASE ~Refused(Param[job[t].par], Db.row[1].val) /\ NextParam(t)
  BY <1>1, <1>3, NextParamSteps
<1> QED BY <1>1, <1>2, <1>3

(* ... and of a load that meets the lock of the other thread. *)
LEMMA BusySteps ==
    ASSUME ThreadTypes, NEW t \in Thread, SelectBusy(t)
    PROVE  /\ GoesOn(t) /\ pc[t] = "select" /\ lock[Other(t)] = "write"
           /\ UNCHANGED <<conf, Db, file, lock, dev, number, shared>>
           /\ \/ /\ job[t].op # "PARAM" /\ up' = FALSE
                 /\ UNCHANGED <<pc, job, stale>>
              \/ /\ job[t].op = "PARAM" /\ UNCHANGED <<up, stale>>
                 /\ pc'[t] = "reset"
              \/ /\ job[t].op = "PARAM" /\ UNCHANGED up /\ pc'[t] = "reply"
                 /\ stale' = stale \cup {"conf"} \/ Loaded(t, "conf")
<1>1. /\ pc[t] = "select" /\ lock[Other(t)] = "write"
      /\ UNCHANGED <<conf, Db, file, lock, dev, number, shared>>
      /\ \/ job[t].op # "PARAM" /\ up' = FALSE /\ UNCHANGED <<pc, job, stale>>
         \/ job[t].op = "PARAM" /\ UNCHANGED up /\ NextParam(t)
         \/ /\ job[t].op = "PARAM" /\ UNCHANGED up
            /\ Answer(t, "WRONG") /\ stale' = stale \cup {"conf"}
  BY DEF SelectBusy, Step
<1>2. CASE job[t].op # "PARAM" /\ up' = FALSE /\ UNCHANGED <<pc, job, stale>>
  BY <1>1, <1>2 DEF GoesOn, ThreadTypes
<1>3. CASE job[t].op = "PARAM" /\ UNCHANGED up /\ NextParam(t)
  BY <1>1, <1>3, NextParamSteps
<1>4. CASE /\ job[t].op = "PARAM" /\ UNCHANGED up
           /\ Answer(t, "WRONG") /\ stale' = stale \cup {"conf"}
  BY <1>1, <1>4, Answers, ResultFacts
<1> QED BY <1>1, <1>2, <1>3, <1>4

LEMMA CommandGoesOn ==
    ASSUME ThreadTypes, DbTypes, NEW t \in Thread, ExecCommand(t) \/ DbCall(t)
    PROVE  GoesOn(t)
<1> USE ResultFacts DEF Place, InDbPlace, Loading, Step
<1>1. CASE Clear(t)
  BY <1>1, Moves DEF Clear
<1>2. CASE Fill(t)
  BY <1>2, Moves DEF Fill
<1>3. CASE Exec(t)
  <2>1. CASE \E res \in Result : Answer(t, res)
    BY <1>3, <2>1, Answers DEF Exec
  <2>2. CASE /\ Set(t, [job[t] EXCEPT !.op = parser[1], !.a = parser[2], !.b = parser[3]])
             /\ \E p \in {"name", "zero", "find"} : Goto(t, p)
    <3>1. PICK p \in {"name", "zero", "find"} : Goto(t, p)
      BY <2>2
    <3>2. /\ pc' = [pc EXCEPT ![t] = p] /\ pc' \in [Thread -> Place]
          /\ job' \in [Thread -> Job] /\ job' = [job EXCEPT ![t] = job'[t]]
          /\ job'[t].text = job[t].text /\ job'[t].sure = job[t].sure
      <4>1. p \in Place
        OBVIOUS
      <4> QED BY <2>2, <3>1, <4>1, ExecReads
    <3>3. pc'[t] = p /\ pc[t] = "exec"
      BY <1>3, <3>2 DEF Exec, ThreadTypes
    <3> QED BY <3>2, <3>3 DEF GoesOn
  <2> QED
    BY <1>3, <2>1, <2>2 DEF Exec
<1>4. CASE NameOf(t)
  <2>1. Found(job[t].a) => dev[Slot(job[t].a)].val \in Result
    BY FirstSlot, Given DEF DbTypes
  <2> QED BY <1>4, <2>1, Answers DEF NameOf
<1>5. CASE Find(t)
  BY <1>5, Answers, Moves DEF Find
<1>6. CASE Reply(t)
  <2>1. /\ pc[t] = "reply" /\ UNCHANGED job
        /\ pc' = [pc EXCEPT ![t] = IF t = "RiMMS" THEN "ack" ELSE "send"]
    BY <1>6 DEF Reply, Goto
  <2>2. pc'[t] = (IF t = "RiMMS" THEN "ack" ELSE "send") /\ pc' \in [Thread -> Place]
    BY <2>1 DEF ThreadTypes
  <2> QED BY <2>1, <2>2 DEF GoesOn, ThreadTypes
<1>7. CASE Zero(t)
  BY <1>7, Answers, Moves DEF Zero
<1>8. CASE Write(t)
  BY <1>8, Answers, Moves DEF Write
<1>9. CASE Commit(t)
  BY <1>9, Answers, Moves DEF Commit
<1>10. CASE Empty(t) \/ Reset(t) \/ RowsEnd(t) \/ CopyDevices(t) \/ CountDevices(t)
  BY <1>10, Moves DEF Empty, Reset, RowsEnd, CopyDevices, CountDevices
<1>11. CASE Select(t)
  <2>1. job[t].par \in DOMAIN Param
    BY DEF ThreadTypes, Job
  <2>2. job' \in [Thread -> Job] /\ job' = [job EXCEPT ![t] = job'[t]]
        /\ job'[t].text = job[t].text /\ job'[t].sure = job[t].sure
        /\ job'[t].op = job[t].op /\ job'[t].a = job[t].a /\ job'[t].b = job[t].b
    <3>1. Set(t, [job[t] EXCEPT !.cur = 1]) /\ 1 \in Nat \ {0}
      BY <1>11 DEF Select
    <3> QED BY <2>1, <3>1, Counts
  <2>3. pc[t] = "select" /\ pc' = [pc EXCEPT ![t] = "rows"]
    BY <1>11 DEF Select, Goto
  <2> QED BY <2>2, <2>3 DEF GoesOn, ThreadTypes
<1>12. CASE SelectBusy(t)
  BY <1>12, BusySteps
<1>13. CASE Callback(t)
  <2>1. job[t].par \in DOMAIN Param /\ job[t].cur + 1 \in Nat \ {0}
    BY DEF ThreadTypes, Job
  <2>2. Set(t, [job[t] EXCEPT !.cur = job[t].cur + 1]) /\ UNCHANGED pc /\ pc[t] = "rows"
    BY <1>13 DEF Callback
  <2>3. job' \in [Thread -> Job] /\ job' = [job EXCEPT ![t] = job'[t]]
        /\ job'[t].text = job[t].text /\ job'[t].sure = job[t].sure
        /\ job'[t].op = job[t].op /\ job'[t].a = job[t].a /\ job'[t].b = job[t].b
    BY <2>1, <2>2, Counts
  <2> QED BY <2>2, <2>3 DEF GoesOn, ThreadTypes
<1>14. CASE CopyParam(t)
  BY <1>14, CopySteps
<1>15. CASE Normalise(t)
  BY <1>15, Answers DEF Normalise
<1> QED
  BY <1>1, <1>2, <1>3, <1>4, <1>5, <1>6, <1>7, <1>8, <1>9, <1>10, <1>11, <1>12, <1>13, <1>14,
     <1>15 DEF ExecCommand, DbCall

-----------------------------------------------------------------------------
LEMMA ReplySays ==
    ASSUME NEW j \in Job, 1 \in DOMAIN Param
    PROVE  LET r == [j EXCEPT !.cur = 1, !.par = 1, !.sure = TRUE]
           IN  r \in Job /\ r.text = j.text /\ r.res = j.res
<1> DEFINE r1 == [j EXCEPT !.cur = 1]
           r2 == [r1 EXCEPT !.par = 1]
<1>1. r1 \in Job /\ r1.text = j.text /\ r1.res = j.res
  BY DEF Job
<1> HIDE DEF r1
<1>2. r2 \in Job /\ r2.text = j.text /\ r2.res = j.res
  BY <1>1 DEF Job
<1> HIDE DEF r2
<1>3. /\ [r2 EXCEPT !.sure = TRUE] \in Job
      /\ [r2 EXCEPT !.sure = TRUE].text = j.text /\ [r2 EXCEPT !.sure = TRUE].res = j.res
  BY <1>2 DEF Job
<1> QED BY <1>3 DEF r1, r2

LEMMA ThreadStep ==
    ASSUME ShmTypes, ThreadTypes, DbTypes, [Next]_vars
    PROVE  ThreadTypes'
<1>0. NoJob \in Job /\ [i \in 1..Longest |-> Blank] \in [1..Longest -> Field]
  BY NoJobIsJob
<1>1. CASE \E t \in Thread : ExecCommand(t) \/ DbCall(t)
  <2>1. PICK t \in Thread : ExecCommand(t) \/ DbCall(t)
    BY <1>1
  <2>2. GoesOn(t)
    BY <2>1, CommandGoesOn
  <2>3. count' = count /\ mixed' = mixed
    BY <2>1, ExecFrame, DbFrame
  <2>4. shared' \subseteq Thread
    <3>1. CASE ExecCommand(t)
      BY <3>1, ExecFrame DEF ThreadTypes
    <3>2. CASE DbCall(t)
      BY <3>2 DEF DbCall, Zero, Write, Commit, Empty, Reset, Select, SelectBusy, Callback,
             RowsEnd, CopyParam, NextParam, CopyDevices, CountDevices, Normalise, EnterDb, ThreadTypes
    <3> QED BY <2>1, <3>1, <3>2
  <2>5. parser' \in [1..Longest -> Field] /\ response' \in Job
    <3>1. CASE Clear(t)
      BY <1>0, <3>1 DEF Clear
    <3>2. CASE Fill(t)
      <4>1. job[t].text \in Seq(Field)
        BY DEF ThreadTypes, Job
      <4>2. \A i \in 1..Longest : i <= Len(job[t].text) => job[t].text[i] \in Field
        BY <4>1 DEF Longest
      <4> QED BY <3>2, <4>2 DEF Fill, ThreadTypes
    <3>3. CASE Reply(t)
      <4>1. 1 \in DOMAIN Param /\ job[t] \in Job
        BY Given DEF ThreadTypes
      <4>2. response' = [job[t] EXCEPT !.cur = 1, !.par = 1, !.sure = TRUE] /\ parser' = parser
        BY <3>3 DEF Reply
      <4>3. response' \in Job
        BY <4>1, <4>2, ReplySays
      <4> QED BY <4>2, <4>3 DEF ThreadTypes
    <3>4. CASE Exec(t) \/ NameOf(t) \/ Find(t) \/ DbCall(t)
      <4>1. UNCHANGED parserVars
        BY <3>4, DbFrame DEF Exec, NameOf, Find
      <4> QED BY <4>1 DEF parserVars, ThreadTypes
    <3> QED BY <2>1, <3>1, <3>2, <3>3, <3>4 DEF ExecCommand
  <2> QED BY <2>2, <2>3, <2>4, <2>5 DEF GoesOn, ThreadTypes
<1>2. CASE \E t \in Thread : Send(t)
  <2>1. PICK t \in Thread : Send(t)
    BY <1>2
  <2> QED BY <1>0, <2>1 DEF Send, Goto, Set, ThreadTypes, Place, parserVars, dbVars
<1>3. CASE TakeLine
  <2>1. SubSeq(shm.buf, 1, shm.at - 1) \in Seq(Field)
    BY TakenText
  <2>2. /\ pc' \in [Thread -> Place] /\ job' \in [Thread -> Job] /\ mixed' \subseteq Thread
    BY <1>3, <2>1, BeginTypes, TwoThreads DEF TakeLine
  <2> QED BY <1>3, <2>2 DEF TakeLine, ThreadTypes, parserVars
<1>4. CASE GestRiMMSNet
  <2>1. PICK text \in NetTexts : TakeDatagram(text)
    BY <1>4 DEF GestRiMMSNet
  <2>2. /\ pc' \in [Thread -> Place] /\ job' \in [Thread -> Job] /\ mixed' \subseteq Thread
    BY <2>1, Texts, BeginTypes, TwoThreads DEF TakeDatagram
  <2>3. count' = [count EXCEPT !.net = @ + 1] /\ count \in [web : Nat, net : Nat, kill : Nat]
    BY <2>1 DEF TakeDatagram, ThreadTypes
  <2>4. count' \in [web : Nat, net : Nat, kill : Nat]
    BY <2>3
  <2> QED BY <2>1, <2>2, <2>4 DEF TakeDatagram, ThreadTypes, parserVars
<1>5. CASE Web
  <2>1. UNCHANGED <<pc, job, parser, response, mixed, shared>>
    BY <1>5 DEF Web, WebStart, WebWrite, WebEnd, WebDies, parserVars
  <2>2. \/ count' = count \/ count' = [count EXCEPT !.web = @ + 1]
        \/ count' = [count EXCEPT !.kill = @ + 1]
    BY <1>5 DEF Web, WebStart, WebWrite, WebEnd, WebDies
  <2>3. count' \in [web : Nat, net : Nat, kill : Nat]
    BY <2>2 DEF ThreadTypes
  <2> QED BY <2>1, <2>3 DEF ThreadTypes
<1>6. CASE TakeByte \/ Acknowledge
  BY <1>6 DEF TakeByte, Acknowledge, Goto, ThreadTypes, Place, parserVars
<1>7. CASE Restart
  <2>1. count' \in [web : Nat, net : Nat, kill : Nat]
    BY <1>7 DEF Restart, ThreadTypes
  <2> QED BY <1>0, <1>7, <2>1 DEF Restart, Fresh, ThreadTypes, Place
<1>8. CASE UNCHANGED vars
  BY <1>8 DEF vars, parserVars, ThreadTypes
<1> QED
  BY <1>1, <1>2, <1>3, <1>4, <1>5, <1>6, <1>7, <1>8 DEF Next, GestSMComunication

-----------------------------------------------------------------------------
LEMMA WithoutRow ==
    ASSUME NEW rows \in Seq(RowSet), OneRowEach(rows), NEW k
    PROVE  /\ Without(rows, k) \in Seq(RowSet) /\ Len(Without(rows, k)) <= Len(rows)
           /\ OneRowEach(Without(rows, k)) /\ k \notin IdsIn(Without(rows, k))
<1>0. Len(rows) \in Nat /\ DOMAIN rows = 1..Len(rows) /\ rows \in [1..Len(rows) -> RowSet]
  OBVIOUS
<1>1. CASE \E i \in DOMAIN rows : rows[i].key = k
  <2> DEFINE gap == CHOOSE i \in DOMAIN rows : rows[i].key = k
             n == Len(rows) - 1
             left == [i \in 1..n |-> IF i < gap THEN rows[i] ELSE rows[i + 1]]
  <2>1. gap \in 1..Len(rows) /\ rows[gap].key = k
    BY <1>0, <1>1
  <2>2. Without(rows, k) = left
    BY <1>1 DEF Without
  <2> HIDE DEF gap
  <2>3. n \in Nat /\ left \in [1..n -> RowSet]
    BY <1>0, <2>1
  <2>4. left \in Seq(RowSet)
    BY <2>3, SeqDef
  <2>5. Len(left) = n
    <3>0. DOMAIN left = 1..n
      OBVIOUS
    <3> HIDE DEF left, n
    <3>1. Len(left) \in Nat /\ DOMAIN left = 1..Len(left)
      BY <2>4
    <3> QED BY <2>3, <3>0, <3>1
  <2>6. \A i \in 1..n : \E j \in 1..Len(rows) :
          /\ left[i] = rows[j] /\ j # gap /\ j = IF i < gap THEN i ELSE i + 1
    BY <1>0, <2>1
  <2>7. OneRowEach(left) /\ k \notin IdsIn(left)
    <3>1. DOMAIN left = 1..n
      OBVIOUS
    <3> HIDE DEF left, n
    <3>2. k \notin IdsIn(left)
      BY <1>0, <2>1, <2>6, <3>1 DEF OneRowEach, IdsIn
    <3>3. ASSUME NEW i \in 1..n, NEW j \in 1..n, left[i].key = left[j].key PROVE i = j
      <4>1. PICK p \in 1..Len(rows) : left[i] = rows[p] /\ p = IF i < gap THEN i ELSE i + 1
        BY <2>6
      <4>2. PICK q \in 1..Len(rows) : left[j] = rows[q] /\ q = IF j < gap THEN j ELSE j + 1
        BY <2>6
      <4>3. p = q
        BY <1>0, <3>3, <4>1, <4>2 DEF OneRowEach
      <4> QED BY <2>1, <2>3, <4>1, <4>2, <4>3
    <3> QED BY <3>1, <3>2, <3>3 DEF OneRowEach
  <2>8. n <= Len(rows)
    BY <1>0
  <2> HIDE DEF left, n
  <2> QED BY <2>2, <2>4, <2>5, <2>7, <2>8
<1>2. CASE ~\E i \in DOMAIN rows : rows[i].key = k
  <2>1. Without(rows, k) = rows
    BY <1>2 DEF Without
  <2> QED BY <1>0, <1>2, <2>1 DEF IdsIn
<1> QED BY <1>1, <1>2

LEMMA UpdatedRow ==
    ASSUME NEW rows, NEW k \in Field, NEW v \in Field,
           \A i \in DOMAIN rows : rows[i] \in RowSet
    PROVE  /\ DOMAIN Updated(rows, k, v) = DOMAIN rows
           /\ \A i \in DOMAIN rows : /\ Updated(rows, k, v)[i] \in RowSet
                                     /\ Updated(rows, k, v)[i].key = rows[i].key
                                     /\ rows[i].key = k => Updated(rows, k, v)[i].val = v
<1>1. Row(k, v) \in RowSet /\ Row(k, v).key = k /\ Row(k, v).val = v
  BY DEF Row, RowSet
<1> QED BY <1>1 DEF Updated

LEMMA UpdatedTable ==
    ASSUME NEW rows \in Seq(RowSet), OneRowEach(rows), NEW k \in Field, NEW v \in Field
    PROVE  /\ Updated(rows, k, v) \in Seq(RowSet) /\ Len(Updated(rows, k, v)) = Len(rows)
           /\ OneRowEach(Updated(rows, k, v)) /\ IdsIn(Updated(rows, k, v)) = IdsIn(rows)
           /\ ValIn(Updated(rows, k, v), k) \subseteq {v}
<1> DEFINE new == Updated(rows, k, v)
<1>0. Len(rows) \in Nat /\ DOMAIN rows = 1..Len(rows) /\ \A i \in DOMAIN rows : rows[i] \in RowSet
  OBVIOUS
<1>1. /\ DOMAIN new = 1..Len(rows)
      /\ \A i \in 1..Len(rows) : /\ new[i] \in RowSet /\ new[i].key = rows[i].key
                                 /\ rows[i].key = k => new[i].val = v
  BY <1>0, UpdatedRow
<1>2. new = [i \in 1..Len(rows) |-> new[i]]
  BY <1>0, <1>1 DEF Updated
<1> HIDE DEF new
<1>3. new \in [1..Len(rows) -> RowSet]
  BY <1>1, <1>2
<1>4. new \in Seq(RowSet)
  BY <1>0, <1>3, SeqDef
<1>5. Len(new) = Len(rows)
  <2>1. Len(new) \in Nat /\ DOMAIN new = 1..Len(new)
    BY <1>4
  <2> QED BY <1>0, <1>1, <2>1
<1>6. OneRowEach(new)
  BY <1>0, <1>1 DEF OneRowEach
<1>7. IdsIn(new) = IdsIn(rows)
  BY <1>0, <1>1 DEF IdsIn
<1>8. ValIn(new, k) \subseteq {v}
  BY <1>0, <1>1 DEF ValIn
<1> QED BY <1>4, <1>5, <1>6, <1>7, <1>8 DEF new

(* What a transaction makes of the tables. *)
LEMMA WrittenFile ==
    ASSUME FileOk, NEW j \in Job, j.op \in {"PARAM", "UPD", "RMV"}
    PROVE  LET new == Written(j)
           IN  /\ new \in [sensor : Seq(RowSet), config : [DOMAIN Param -> RowSet]]
               /\ Len(new.sensor) <= Limit /\ OneRowEach(new.sensor)
               /\ \A i \in DOMAIN Param : new.config[i].key = Param[i]
               /\ j.op = "PARAM" => /\ new.sensor = file.sensor
                                    /\ \A i \in DOMAIN Param :
                                         Param[i] = j.a => new.config[i].val = j.b
               /\ j.op # "PARAM" => new.config = file.config
               /\ j.op = "UPD" => /\ IdsIn(new.sensor) = IdsIn(file.sensor)
                                  /\ ValIn(new.sensor, j.a) \subseteq {j.b}
               /\ j.op = "RMV" => j.a \notin IdsIn(new.sensor)
<1> DEFINE new == Written(j)
<1>0. /\ file \in [sensor : Seq(RowSet), config : [DOMAIN Param -> RowSet]]
      /\ Len(file.sensor) <= Limit /\ OneRowEach(file.sensor)
      /\ \A i \in DOMAIN Param : file.config[i].key = Param[i]
      /\ j.a \in Field /\ j.b \in Field
  BY DEF FileOk, OneRowEach, Job
<1>1. CASE j.op = "PARAM"
  <2>1. new = [file EXCEPT !.config = Updated(file.config, j.a, j.b)]
    BY <1>1 DEF Written
  <2>2. /\ DOMAIN Updated(file.config, j.a, j.b) = DOMAIN Param
        /\ \A i \in DOMAIN Param :
             /\ Updated(file.config, j.a, j.b)[i] \in RowSet
             /\ Updated(file.config, j.a, j.b)[i].key = Param[i]
             /\ Param[i] = j.a => Updated(file.config, j.a, j.b)[i].val = j.b
    <3>1. DOMAIN file.config = DOMAIN Param /\ \A i \in DOMAIN file.config : file.config[i] \in RowSet
      BY <1>0
    <3> DEFINE rows == file.config
    <3>2. /\ DOMAIN Updated(rows, j.a, j.b) = DOMAIN rows
          /\ \A i \in DOMAIN rows : /\ Updated(rows, j.a, j.b)[i] \in RowSet
                                    /\ Updated(rows, j.a, j.b)[i].key = rows[i].key
                                    /\ rows[i].key = j.a => Updated(rows, j.a, j.b)[i].val = j.b
      <4>1. \A i \in DOMAIN rows : rows[i] \in RowSet
        BY <3>1
      <4> HIDE DEF rows
      <4> QED BY <1>0, <4>1, UpdatedRow
    <3> QED BY <1>0, <3>1, <3>2
  <2>3. Updated(file.config, j.a, j.b) \in [DOMAIN Param -> RowSet]
    <3>1. Updated(file.config, j.a, j.b)
            = [i \in DOMAIN Param |-> Updated(file.config, j.a, j.b)[i]]
      BY <1>0, <2>2 DEF Updated
    <3> QED BY <2>2, <3>1
  <2>4. /\ new.config = Updated(file.config, j.a, j.b) /\ new.sensor = file.sensor
        /\ new \in [sensor : Seq(RowSet), config : [DOMAIN Param -> RowSet]]
    BY <1>0, <2>1, <2>3
  <2> QED BY <1>0, <1>1, <2>2, <2>4
<1>2. CASE j.op = "UPD"
  <2>1. new = [file EXCEPT !.sensor = Updated(file.sensor, j.a, j.b)]
    BY <1>2 DEF Written
  <2>2. /\ Updated(file.sensor, j.a, j.b) \in Seq(RowSet)
        /\ Len(Updated(file.sensor, j.a, j.b)) <= Limit
        /\ OneRowEach(Updated(file.sensor, j.a, j.b))
        /\ IdsIn(Updated(file.sensor, j.a, j.b)) = IdsIn(file.sensor)
        /\ ValIn(Updated(file.sensor, j.a, j.b), j.a) \subseteq {j.b}
    BY <1>0, UpdatedTable
  <2>3. /\ new.sensor = Updated(file.sensor, j.a, j.b) /\ new.config = file.config
        /\ new \in [sensor : Seq(RowSet), config : [DOMAIN Param -> RowSet]]
    BY <1>0, <2>1, <2>2
  <2> QED BY <1>0, <1>2, <2>2, <2>3
<1>3. CASE j.op = "RMV"
  <2>1. new = [file EXCEPT !.sensor = Without(file.sensor, j.a)]
    BY <1>3 DEF Written
  <2>2. /\ Without(file.sensor, j.a) \in Seq(RowSet)
        /\ Len(Without(file.sensor, j.a)) \in Nat
        /\ Len(Without(file.sensor, j.a)) <= Len(file.sensor)
        /\ OneRowEach(Without(file.sensor, j.a))
        /\ j.a \notin IdsIn(Without(file.sensor, j.a))
    BY <1>0, WithoutRow
  <2>3. /\ new.sensor = Without(file.sensor, j.a) /\ new.config = file.config
        /\ new \in [sensor : Seq(RowSet), config : [DOMAIN Param -> RowSet]]
    BY <1>0, <2>1, <2>2
  <2>4. Len(file.sensor) \in Nat /\ Limit \in Nat
    BY <1>0, Given
  <2>5. Len(new.sensor) <= Limit
    BY <1>0, <2>2, <2>3, <2>4
  <2> QED BY <1>0, <1>3, <2>2, <2>3, <2>5
<1> QED BY <1>1, <1>2, <1>3

-----------------------------------------------------------------------------
LEMMA FileStep ==
    ASSUME ThreadTypes, FileOk, PlaceFits, [Next]_vars
    PROVE  FileOk'
<1>1. CASE UNCHANGED file
  BY <1>1 DEF FileOk
<1>2. ASSUME NEW t \in Thread, Commit(t) PROVE FileOk'
  <2>1. job[t] \in Job /\ job[t].op \in {"PARAM", "UPD", "RMV"}
    BY <1>2 DEF Commit, Step, PlaceFits, InDbPlace, ThreadTypes
  <2>2. file' = file \/ file' = Written(job[t])
    BY <1>2 DEF Commit
  <2> QED BY <1>1, <2>1, <2>2, WrittenFile DEF FileOk
<1>3. ASSUME NEW t \in Thread, ExecCommand(t) \/ Send(t) PROVE UNCHANGED file
  BY <1>3, ExecFrame DEF dbVars
<1>4. ASSUME NEW t \in Thread, DbCall(t), ~Commit(t) PROVE UNCHANGED file
  BY <1>4 DEF DbCall, Zero, Write, Empty, Reset, Select, SelectBusy, Callback,
         RowsEnd, CopyParam, NextParam, CopyDevices, CountDevices, Normalise
<1>5. CASE Web \/ GestSMComunication \/ GestRiMMSNet
  BY <1>1, <1>5, OuterFrame DEF dbVars
<1>6. CASE Restart \/ UNCHANGED vars
  BY <1>1, <1>6 DEF Restart, vars, dbVars
<1> QED BY <1>1, <1>2, <1>3, <1>4, <1>5, <1>6 DEF Next

(* One thread alone: its place fits its command and its lock. *)
FitsOne(t) ==
    /\ lock[t] = "read" <=> pc[t] = "rows"
    /\ lock[t] = "write" <=> pc[t] = "commit"
    /\ pc[t] \in {"find", "zero"} \cup InDbPlace => job[t].op \in {"ADD", "RMV", "UPD", "PARAM"}
    /\ pc[t] \in InDbPlace => job[t].op # "ADD"
    /\ pc[t] \in {"find", "empty", "count", "normal"} => job[t].op # "PARAM"

LEMMA PlaceStep ==
    ASSUME ThreadTypes, DbTypes, PlaceFits, [Next]_vars
    PROVE  PlaceFits'
<1> USE DEF InDbPlace, Loading
<1>0. \A t \in Thread : FitsOne(t)
  BY DEF PlaceFits, FitsOne
<1>1. ASSUME NEW t \in Thread, ExecCommand(t) \/ DbCall(t) PROVE \A u \in Thread : FitsOne(u)'
  <2>1. GoesOn(t)
    BY <1>1, CommandGoesOn
  <2>2. \A u \in Thread : u # t => pc'[u] = pc[u] /\ job'[u] = job[u]
    BY <2>1 DEF GoesOn, ThreadTypes
  <2>3. \A u \in Thread : u # t => lock'[u] = lock[u]
    <3>1. CASE ExecCommand(t)
      BY <3>1, ExecFrame DEF dbVars
    <3>2. CASE DbCall(t)
      BY <3>2 DEF DbCall, Zero, Write, Commit, Empty, Reset, Select, SelectBusy, Callback,
             RowsEnd, CopyParam, NextParam, CopyDevices, CountDevices, Normalise, DbTypes
    <3> QED BY <1>1, <3>1, <3>2
  <2>4. FitsOne(t) /\ pc[t] \in Place /\ pc \in [Thread -> Place] /\ lock[t] \in {"none", "read", "write"}
        /\ lock \in [Thread -> {"none", "read", "write"}]
    BY <1>0 DEF ThreadTypes, DbTypes
  <2>5. pc[t] # "exec" => job'[t].op = job[t].op
    BY <2>1 DEF GoesOn
  <2> USE DEF FitsOne, Goto, Answer
  <2>6. CASE Clear(t) \/ Fill(t) \/ NameOf(t) \/ Find(t) \/ Reply(t)
    <3>1. lock' = lock
      BY <2>6 DEF Clear, Fill, NameOf, Find, Reply, dbVars
    <3>2. pc'[t] \in {"fill", "exec", "reply", "zero", "ack", "send"} /\ (pc'[t] = "zero" => pc[t] = "find")
          /\ pc[t] \in {"clear", "fill", "name", "find", "reply"}
      BY <2>4, <2>6 DEF Clear, Fill, NameOf, Find, Reply, Step
    <3> QED BY <2>2, <2>4, <2>5, <3>1, <3>2, <1>0
  <2>7. CASE Exec(t)
    <3>1. lock' = lock /\ pc[t] = "exec"
      BY <2>7 DEF Exec, dbVars, Step
    <3>2. CASE \E res : Answer(t, res)
      BY <1>0, <2>2, <2>4, <3>1, <3>2
    <3>3. CASE /\ parser[1] \in DOMAIN Needs
               /\ Set(t, [job[t] EXCEPT !.op = parser[1], !.a = parser[2], !.b = parser[3]])
               /\ Goto(t, CASE parser[1] = "NAME" -> "name"
                           [] parser[1] = "PARAM" -> "zero"
                           [] OTHER -> "find")
      <4>1. parser[1] \in {"NAME", "RMV", "ADD", "UPD", "PARAM"}
        BY <3>3 DEF Needs
      <4>2. \E p \in {"name", "zero", "find"} : Goto(t, p)
        BY <3>3
      <4>3. job'[t].op = parser[1]
        <5>1. PICK p \in {"name", "zero", "find"} : Goto(t, p)
          BY <4>2
        <5>2. p \in Place
          BY DEF Place
        <5> QED BY <3>3, <5>1, <5>2, ExecReads
      <4>4. pc'[t] = CASE parser[1] = "NAME" -> "name"
                       [] parser[1] = "PARAM" -> "zero"
                       [] OTHER -> "find"
        BY <2>4, <3>3
      <4> QED BY <1>0, <2>2, <2>4, <3>1, <4>1, <4>3, <4>4
    <3> QED BY <2>7, <3>2, <3>3 DEF Exec
  <2>8. CASE Zero(t)
    <3>1. lock' = lock /\ pc[t] = "zero" /\ pc'[t] \in {"reply", "write"}
          /\ (pc'[t] = "write" => job[t].op # "ADD")
      BY <2>4, <2>8 DEF Zero, Step
    <3> QED BY <1>0, <2>2, <2>4, <2>5, <3>1
  <2>9. CASE Write(t)
    BY <1>0, <2>2, <2>3, <2>4, <2>5, <2>9 DEF Write, Step
  <2>10. CASE Commit(t)
    BY <1>0, <2>2, <2>3, <2>4, <2>5, <2>10 DEF Commit, Step
  <2>11. CASE Empty(t) \/ Reset(t) \/ CopyDevices(t) \/ CountDevices(t)
    BY <1>0, <2>2, <2>4, <2>5, <2>11 DEF Empty, Reset, CopyDevices, CountDevices, Step
  <2>12. CASE Select(t) \/ RowsEnd(t)
    BY <1>0, <2>2, <2>3, <2>4, <2>5, <2>12 DEF Select, RowsEnd, Step
  <2>13. CASE SelectBusy(t)
    <3>1. lock' = lock /\ pc[t] = "select" /\ pc'[t] \in {"reply", "select", "reset"}
      BY <2>13, BusySteps
    <3> QED BY <1>0, <2>2, <2>4, <2>5, <3>1
  <2>14. CASE Callback(t)
    BY <1>0, <2>2, <2>4, <2>5, <2>14 DEF Callback, Step
  <2>15. CASE CopyParam(t)
    <3>1. lock' = lock /\ pc[t] = "copy" /\ pc'[t] \in {"reply", "reset"}
      BY <2>15, CopySteps
    <3> QED BY <1>0, <2>2, <2>4, <2>5, <3>1
  <2>16. CASE Normalise(t)
    BY <1>0, <2>2, <2>4, <2>5, <2>16 DEF Normalise, Step
  <2> QED
    BY <1>1, <2>6, <2>7, <2>8, <2>9, <2>10, <2>11, <2>12, <2>13, <2>14, <2>15, <2>16
       DEF ExecCommand, DbCall
<1>2. ASSUME NEW t \in Thread, Send(t) PROVE \A u \in Thread : FitsOne(u)'
  BY <1>0, <1>2 DEF Send, Goto, Set, FitsOne, dbVars, Step, ThreadTypes
<1>3. CASE TakeLine \/ GestRiMMSNet
  <2>1. PICK t \in Thread : /\ pc' = [pc EXCEPT ![t] = "clear"] /\ pc[t] = "idle"
                            /\ \A u \in Thread : u # t => job'[u] = job[u]
    BY <1>3, TwoThreads
       DEF TakeLine, GestRiMMSNet, TakeDatagram, Begin, Goto, Set, ThreadTypes
  <2>2. lock' = lock
    BY <1>3, OuterFrame DEF GestSMComunication, dbVars
  <2> QED BY <1>0, <2>1, <2>2 DEF FitsOne, ThreadTypes, PlaceFits
<1>4. CASE Web \/ TakeByte \/ UNCHANGED vars
  <2>1. UNCHANGED <<pc, job, lock>>
    BY <1>4 DEF Web, WebStart, WebWrite, WebEnd, WebDies, TakeByte, dbVars, vars
  <2> QED BY <2>1 DEF PlaceFits
<1>5. CASE Acknowledge
  BY <1>0, <1>5 DEF Acknowledge, Step, Goto, FitsOne, PlaceFits, dbVars, ThreadTypes
<1>6. CASE Restart
  BY <1>6 DEF Restart, Fresh, PlaceFits
<1>7. (\A u \in Thread : FitsOne(u)') => PlaceFits'
  BY DEF FitsOne, PlaceFits
<1> QED
  BY <1>1, <1>2, <1>3, <1>4, <1>5, <1>6, <1>7 DEF Next, GestSMComunication

-----------------------------------------------------------------------------
(* What a thread reads: rows of the file, as many as there may be. *)
LEMMA AskedRows ==
    ASSUME FileOk, NEW j \in Job
    PROVE  /\ Len(Asked(j)) \in 0..Limit
           /\ \A i \in 1..Len(Asked(j)) : Asked(j)[i] \in RowSet
<1>1. CASE j.op = "PARAM"
  <2>1. Asked(j) = <<file.config[j.par]>> /\ file.config[j.par] \in RowSet
    BY <1>1 DEF Asked, FileOk, Job
  <2> QED BY <2>1, Given
<1>2. CASE j.op # "PARAM"
  BY <1>2, Given DEF Asked, FileOk
<1> QED BY <1>1, <1>2

(* The rows that are still to be read fit behind those in Db. *)
LEMMA RoomInDb ==
    ASSUME ThreadTypes, DbTypes, FileOk, RowsFit, NEW t \in Thread
    PROVE  /\ ToCome(t) \in 0..Limit /\ ToCome(Other(t)) \in 0..Limit
           /\ Db.numrow + ToCome(t) + ToCome(Other(t)) <= 2 * Limit
           /\ pc[t] = "rows" /\ job[t].cur <= Len(Asked(job[t]))
                => Db.numrow + 1 \in Rows /\ Db.numrow + 1 <= 2 * Limit
<1>1. \A u \in Thread : ToCome(u) \in 0..Limit
  <2> SUFFICES ASSUME NEW u \in Thread PROVE ToCome(u) \in 0..Limit
    OBVIOUS
  <2>1. job[u] \in Job /\ job[u].cur \in Nat \ {0}
    BY DEF ThreadTypes, Job
  <2>2. Len(Asked(job[u])) \in 0..Limit /\ Limit \in Nat
    BY <2>1, AskedRows, Given
  <2>3. pc[u] = "rows" => job[u].cur <= Len(Asked(job[u])) + 1
    BY DEF RowsFit
  <2> QED BY <2>1, <2>2, <2>3 DEF ToCome
<1>2. Db.numrow + ToCome(t) + ToCome(Other(t)) <= 2 * Limit
  <2>1. Db.numrow \in Nat
    BY Given DEF DbTypes
  <2> QED BY <1>1, <2>1, TwoThreads DEF RowsFit, Thread
<1>3. pc[t] = "rows" /\ job[t].cur <= Len(Asked(job[t]))
        => Db.numrow + 1 \in Rows /\ Db.numrow + 1 <= 2 * Limit
  <2> SUFFICES ASSUME pc[t] = "rows", job[t].cur <= Len(Asked(job[t]))
               PROVE  Db.numrow + 1 \in Rows /\ Db.numrow + 1 <= 2 * Limit
    OBVIOUS
  <2>1. job[t] \in Job /\ job[t].cur \in Nat \ {0}
    BY DEF ThreadTypes, Job
  <2>2. Len(Asked(job[t])) \in 0..Limit /\ Limit \in Nat /\ Rows = 1..MaxRows /\ MaxRows \in Nat /\ 2 * Limit <= MaxRows
    BY <2>1, AskedRows, Given
  <2>3. ToCome(t) = Limit + 1 - job[t].cur /\ Db.numrow \in Nat
    BY <2>2 DEF ToCome, DbTypes
  <2>4. ToCome(t) >= 1 /\ ToCome(t) \in Nat /\ ToCome(Other(t)) \in Nat
    BY <1>1, <2>1, <2>2, <2>3, TwoThreads
  <2>5. Db.numrow + 1 <= 2 * Limit
    BY <1>2, <2>2, <2>3, <2>4
  <2> QED BY <2>2, <2>3, <2>5
<1> QED BY <1>1, <1>2, <1>3, TwoThreads

LEMMA DbTypesStep ==
    ASSUME ThreadTypes, DbTypes, FileOk, RowsFit, [Next]_vars
    PROVE  DbTypes'
<1>0. Limit \in Nat \ {0} /\ Rows = 1..MaxRows /\ MaxRows \in Nat /\ 2 * Limit <= MaxRows /\ 1 \in Rows
  BY Given
<1>1. CASE UNCHANGED dbVars
  BY <1>1 DEF dbVars, DbTypes
<1>2. ASSUME NEW t \in Thread, DbCall(t) PROVE DbTypes'
  <2>1. CASE Zero(t) \/ Reset(t)
    <3>1. Db' = [Db EXCEPT !.numrow = 0] /\ UNCHANGED <<lock, dev, number, conf, up, stale>>
      BY <2>1 DEF Zero, Reset
    <3>2. 0 \in 0..(2 * Limit)
      BY <1>0
    <3>3. Db' \in [numrow : 0..(2 * Limit), row : [Rows -> RowSet]]
      BY <3>1, <3>2 DEF DbTypes
    <3> QED BY <3>1, <3>3 DEF DbTypes
  <2>2. CASE Write(t)
    BY <2>2 DEF Write, DbTypes
  <2>3. CASE Commit(t)
    BY <2>3 DEF Commit, DbTypes
  <2>4. CASE Empty(t)
    BY <1>0, <2>4 DEF Empty, DbTypes
  <2>5. CASE Select(t) \/ RowsEnd(t)
    BY <2>5 DEF Select, RowsEnd, DbTypes
  <2>6. CASE SelectBusy(t)
    <3>1. /\ UNCHANGED <<conf, Db, file, lock, dev, number>> /\ up' \in BOOLEAN
          /\ stale' \subseteq {"table", "conf"}
      BY <2>6, BusySteps DEF Loaded, DbTypes
    <3> QED BY <3>1 DEF DbTypes
  <2>7. CASE Callback(t)
    <3> DEFINE r == Asked(job[t])[job[t].cur]
    <3>1. /\ job[t] \in Job /\ job[t].cur \in Nat \ {0}
          /\ Len(Asked(job[t])) \in Nat /\ job[t].cur <= Len(Asked(job[t])) /\ pc[t] = "rows"
      BY <2>7, AskedRows, <1>0 DEF Callback, Step, ThreadTypes, Job
    <3>2. r \in RowSet
      BY <3>1, AskedRows
    <3>3. Db.numrow + 1 \in Rows /\ Db.numrow + 1 \in 0..(2 * Limit)
      BY <1>0, <3>1, RoomInDb
    <3>4. /\ Db' = [numrow |-> Db.numrow + 1, row |-> [Db.row EXCEPT ![Db.numrow + 1] = r]]
          /\ UNCHANGED <<lock, dev, number, conf, up, stale>>
      BY <2>7 DEF Callback
    <3> HIDE DEF r
    <3>5. Db' \in [numrow : 0..(2 * Limit), row : [Rows -> RowSet]]
      BY <1>0, <3>2, <3>3, <3>4 DEF DbTypes
    <3> QED BY <3>4, <3>5 DEF DbTypes
  <2>8. CASE CopyParam(t)
    <3>1. Db.row[1].val \in Field
      BY <1>0 DEF DbTypes, RowSet
    <3>2. Kept(Param[job[t].par], Db.row[1].val) \in Field
      BY <3>1, KeptIsField
    <3>3. conf' \in [DOMAIN Param -> Field]
      BY <2>8, <3>2, CopySteps DEF DbTypes
    <3>4. stale' \subseteq {"table", "conf"}
      BY <2>8, CopySteps DEF Loaded, DbTypes
    <3> QED BY <2>8, <3>3, <3>4, CopySteps DEF DbTypes
  <2>9. CASE CopyDevices(t)
    <3>1. \A i \in Rows : Device(Db.row[i], 0) \in [key : Field, val : Field, div : Nat]
      BY DEF Device, DbTypes, RowSet
    <3>2. dev' \in [Rows -> [key : Field, val : Field, div : Nat]]
      BY <2>9, <3>1 DEF CopyDevices, DbTypes
    <3> QED BY <2>9, <3>2 DEF CopyDevices, DbTypes
  <2>10. CASE CountDevices(t)
    BY <2>10 DEF CountDevices, DbTypes
  <2>11. CASE Normalise(t)
    <3>1. \A i \in Rows : [dev[i] EXCEPT !.div = @ + 1] \in [key : Field, val : Field, div : Nat]
      BY DEF DbTypes
    <3>2. dev' \in [Rows -> [key : Field, val : Field, div : Nat]]
      BY <2>11, <3>1 DEF Normalise, DbTypes
    <3>3. stale' \subseteq {"table", "conf"}
      BY <2>11 DEF Normalise, Loaded, DbTypes
    <3> QED BY <2>11, <3>2, <3>3 DEF Normalise, DbTypes
  <2> QED
    BY <1>2, <2>1, <2>2, <2>3, <2>4, <2>5, <2>6, <2>7, <2>8, <2>9, <2>10, <2>11 DEF DbCall
<1>3. ASSUME NEW t \in Thread, ExecCommand(t) \/ Send(t) PROVE DbTypes'
  BY <1>1, <1>3, ExecFrame
<1>4. CASE Web \/ GestSMComunication \/ GestRiMMSNet
  BY <1>1, <1>4, OuterFrame
<1>5. CASE Restart
  <2>1. /\ FromFile /\ lock' = [t \in Thread |-> "none"] /\ up' \in BOOLEAN /\ stale' = {}
    BY <1>5 DEF Restart, Fresh, FromFile
  <2>2. NoRow \in RowSet /\ Device(NoRow, 0) \in [key : Field, val : Field, div : Nat]
    BY Given DEF NoRow, Row, RowSet, Device
  <2>3. Db' \in [numrow : 0..(2 * Limit), row : [Rows -> RowSet]]
    BY <1>0, <2>1, <2>2 DEF FromFile
  <2>4. /\ Len(file.sensor) \in Nat /\ Len(file.sensor) <= Limit
        /\ \A i \in 1..Len(file.sensor) : file.sensor[i] \in RowSet
    BY <1>0 DEF FileOk
  <2>5. number' \in 0..(2 * Limit)
    BY <1>0, <2>1, <2>4 DEF FromFile
  <2>6. \A i \in Rows : i <= Len(file.sensor) =>
          Device(file.sensor[i], 1) \in [key : Field, val : Field, div : Nat]
    BY <1>0, <2>4 DEF Device, RowSet
  <2>7. dev' \in [Rows -> [key : Field, val : Field, div : Nat]]
    BY <2>1, <2>2, <2>6 DEF FromFile
  <2>8. conf' \in [DOMAIN Param -> Field]
    <3>1. \A i \in DOMAIN Param : file.config[i].val \in Field
      BY DEF FileOk, RowSet
    <3>2. \A i \in DOMAIN Param : Kept(Param[i], file.config[i].val) \in Field
      BY <3>1, KeptIsField
    <3> QED BY <2>1, <3>2 DEF FromFile
  <2> QED BY <2>1, <2>3, <2>5, <2>7, <2>8 DEF DbTypes
<1>6. CASE UNCHANGED vars
  BY <1>1, <1>6 DEF vars
<1> QED BY <1>1, <1>2, <1>3, <1>4, <1>5, <1>6 DEF Next

(* The rows still to come, counted for each thread. *)
LEMMA RowsStep ==
    ASSUME ThreadTypes, DbTypes, FileOk, PlaceFits, RowsFit, [Next]_vars
    PROVE  RowsFit'
<1>0. Limit \in Nat \ {0} /\ Db.numrow \in Nat
  BY Given DEF DbTypes
<1>1. ASSUME NEW t \in Thread, ExecCommand(t) \/ DbCall(t) PROVE RowsFit'
  <2> DEFINE o == Other(t)
  <2>0. /\ o \in Thread /\ o # t /\ \A v \in Thread : v = t \/ v = o
        /\ job[t] \in Job /\ job[t].cur \in Nat \ {0} /\ job[o] \in Job
    BY TwoThreads DEF ThreadTypes, Job
  <2> HIDE DEF o
  <2>1. pc'[o] = pc[o] /\ job'[o] = job[o]
    BY <1>1, <2>0, CommandGoesOn DEF GoesOn, ThreadTypes
  <2>2. /\ ToCome(t) \in 0..Limit /\ ToCome(o) \in 0..Limit
        /\ Db.numrow + ToCome(t) + ToCome(o) <= 2 * Limit
    BY RoomInDb DEF o
  <2>3. ToCome(o)' = ToCome(o)
    BY <2>1 DEF ToCome
  <2>4. pc[o] = "rows" => file' = file
    <3>1. CASE Commit(t)
      <4>1. pc[o] = "rows" => lock[Other(t)] = "read"
        BY <2>0 DEF PlaceFits, o
      <4> QED BY <3>1, <4>1 DEF Commit
    <3>2. CASE ExecCommand(t)
      BY <3>2, ExecFrame DEF dbVars
    <3>3. CASE DbCall(t) /\ ~Commit(t)
      BY <3>3 DEF DbCall, Zero, Write, Empty, Reset, Select, SelectBusy, Callback,
             RowsEnd, CopyParam, NextParam, CopyDevices, CountDevices, Normalise
    <3> QED BY <1>1, <3>1, <3>2, <3>3
  <2>5. pc'[o] = "rows" => job'[o].cur <= Len(Asked(job[o]))' + 1
    BY <2>1, <2>4, <2>0 DEF RowsFit, Asked
  <2>6. SUFFICES /\ pc'[t] = "rows" => job'[t].cur <= Len(Asked(job[t]))' + 1
                 /\ ToCome(t)' \in Nat /\ Db'.numrow \in Nat
                 /\ \/ Db'.numrow + ToCome(t)' <= Db.numrow + ToCome(t)
                    \/ Db'.numrow + ToCome(t)' <= Limit
    <3> SUFFICES ASSUME /\ pc'[t] = "rows" => job'[t].cur <= Len(Asked(job[t]))' + 1
                        /\ ToCome(t)' \in Nat /\ Db'.numrow \in Nat
                        /\ \/ Db'.numrow + ToCome(t)' <= Db.numrow + ToCome(t)
                           \/ Db'.numrow + ToCome(t)' <= Limit
                 PROVE  RowsFit'
      OBVIOUS
    <3>1. ToCome(o)' \in Nat /\ Db'.numrow + ToCome(t)' + ToCome(o)' <= 2 * Limit
      BY <1>0, <2>2, <2>3
    <3>2. Db'.numrow + ToCome("RiMMS")' + ToCome("comunication")' <= 2 * Limit
      <4>1. \/ t = "RiMMS" /\ o = "comunication"
            \/ t = "comunication" /\ o = "RiMMS"
        BY TwoThreads DEF Thread, o
      <4>2. CASE t = "RiMMS" /\ o = "comunication"
        BY <3>1, <4>2
      <4>3. CASE t = "comunication" /\ o = "RiMMS"
        <5>1. ToCome("comunication")' + ToCome("RiMMS")' = ToCome("RiMMS")' + ToCome("comunication")'
          BY <3>1, <4>3
        <5> QED BY <3>1, <4>3, <5>1
      <4> QED BY <4>1, <4>2, <4>3
    <3> QED BY <2>0, <2>5, <3>2 DEF RowsFit
  <2>7. CASE ExecCommand(t)
    <3>1. Db' = Db /\ pc'[t] \notin {"select", "rows"}
      BY <2>7, ExecFrame
         DEF dbVars, ExecCommand, Clear, Fill, Exec, NameOf, Find, Reply, Answer, Goto, ThreadTypes
    <3>2. ToCome(t)' = 0
      BY <3>1 DEF ToCome
    <3> QED BY <1>0, <2>2, <3>1, <3>2
  <2>8. CASE Zero(t)
    <3>1. Db'.numrow = 0 /\ pc'[t] \notin {"select", "rows"}
      BY <2>8 DEF Zero, Answer, Goto, ThreadTypes, DbTypes
    <3>2. ToCome(t)' = 0
      BY <3>1 DEF ToCome
    <3> QED BY <1>0, <2>2, <3>1, <3>2
  <2>9. CASE Write(t) \/ Commit(t) \/ Empty(t) \/ CopyDevices(t) \/ CountDevices(t)
             \/ Normalise(t) \/ CopyParam(t) \/ RowsEnd(t)
    <3>1. Db' = Db /\ pc'[t] \notin {"select", "rows"}
      BY <2>9, CopySteps DEF Write, Commit, Empty, CopyDevices, CountDevices, Normalise, RowsEnd,
             Answer, Goto, ThreadTypes
    <3>2. ToCome(t)' = 0
      BY <3>1 DEF ToCome
    <3> QED BY <1>0, <2>2, <3>1, <3>2
  <2>10. CASE Reset(t)
    <3>1. Db'.numrow = 0 /\ pc'[t] = "select"
      BY <2>10 DEF Reset, Goto, ThreadTypes, DbTypes
    <3>2. ToCome(t)' = Limit
      BY <3>1 DEF ToCome
    <3> QED BY <1>0, <3>1, <3>2
  <2>11. CASE Select(t)
    <3>1. /\ Db' = Db /\ pc'[t] = "rows" /\ pc[t] = "select" /\ file' = file
          /\ Set(t, [job[t] EXCEPT !.cur = 1]) /\ 1 \in Nat \ {0} /\ job[t].par \in DOMAIN Param
      BY <2>11 DEF Select, Goto, Step, ThreadTypes, Job
    <3>2. job'[t].cur = 1
      BY <3>1, Counts
    <3>3. ToCome(t)' = Limit /\ ToCome(t) = Limit
      BY <1>0, <3>1, <3>2 DEF ToCome
    <3>4. Len(Asked(job[t]))' \in Nat
      <4>1. job'[t] \in Job /\ FileOk'
        BY <1>1, <3>1, CommandGoesOn DEF GoesOn, FileOk
      <4>2. Len(Asked(job[t])') \in Nat
        <5>1. CASE job'[t].op = "PARAM"
          BY <5>1 DEF Asked
        <5>2. CASE job'[t].op # "PARAM"
          BY <4>1, <5>2 DEF Asked, FileOk
        <5> QED BY <5>1, <5>2
      <4> QED BY <4>2
    <3> QED BY <1>0, <3>1, <3>2, <3>3, <3>4
  <2>12. CASE SelectBusy(t)
    <3>1. Db' = Db /\ pc[t] = "select" /\ pc'[t] \in {"select", "reset", "reply"}
      BY <2>12, BusySteps
    <3>2. ToCome(t) = Limit /\ ToCome(t)' \in {Limit, 0}
      BY <3>1 DEF ToCome
    <3> QED BY <1>0, <3>1, <3>2
  <2>13. CASE Callback(t)
    <3>1. /\ Db'.numrow = Db.numrow + 1 /\ pc'[t] = "rows" /\ pc[t] = "rows" /\ file' = file
          /\ Set(t, [job[t] EXCEPT !.cur = job[t].cur + 1]) /\ job[t].cur + 1 \in Nat \ {0}
          /\ job[t].par \in DOMAIN Param /\ job[t].cur <= Len(Asked(job[t]))
      BY <2>13, <2>0 DEF Callback, Step, ThreadTypes, Job
    <3>2. job'[t].cur = job[t].cur + 1 /\ job'[t].op = job[t].op /\ job'[t].par = job[t].par
      <4>1. job' = [job EXCEPT ![t] = [job[t] EXCEPT !.cur = job[t].cur + 1]]
        BY <3>1 DEF Set
      <4>2. job'[t] = [job[t] EXCEPT !.cur = job[t].cur + 1]
        BY <4>1 DEF ThreadTypes
      <4> QED BY <2>0, <4>2 DEF Job
    <3>3. Asked(job[t])' = Asked(job[t]) /\ Len(Asked(job[t])) \in 0..Limit
      BY <2>0, <3>1, <3>2, AskedRows DEF Asked
    <3>4. ToCome(t)' = Limit - job[t].cur /\ ToCome(t) = Limit + 1 - job[t].cur
      BY <1>0, <2>0, <3>1, <3>2 DEF ToCome
    <3>5. job[t].cur <= Len(Asked(job[t])) /\ Len(Asked(job[t])) <= Limit
          /\ Len(Asked(job[t])) \in Nat
      BY <1>0, <3>1, <3>3
    <3>6. ToCome(t)' \in Nat /\ Db'.numrow \in Nat
          /\ Db'.numrow + ToCome(t)' = Db.numrow + ToCome(t)
      <4>1. job[t].cur <= Limit
        BY <1>0, <2>0, <3>5
      <4>2. Limit - job[t].cur \in Nat
        BY <1>0, <2>0, <4>1
      <4>3. Db.numrow + 1 + (Limit - job[t].cur) = Db.numrow + (Limit + 1 - job[t].cur)
        BY <1>0, <2>0
      <4>4. Db'.numrow \in Nat /\ Db'.numrow = Db.numrow + 1
        BY <1>0, <3>1
      <4> QED BY <3>4, <4>2, <4>3, <4>4
    <3>7. job'[t].cur <= Len(Asked(job[t]))' + 1
      BY <2>0, <3>2, <3>3, <3>5
    <3>8. Db.numrow + ToCome(t) \in Nat
      BY <1>0, <2>2
    <3> QED BY <2>6, <3>6, <3>7, <3>8
  <2> QED
    BY <1>1, <2>7, <2>8, <2>9, <2>10, <2>11, <2>12, <2>13 DEF DbCall
<1>2. ASSUME \A t \in Thread : /\ job'[t] = job[t] \/ pc'[t] \notin {"select", "rows"}
                               /\ pc'[t] = pc[t] \/ pc'[t] \notin {"select", "rows"},
             UNCHANGED <<Db, file>>
      PROVE  RowsFit'
  <2>1. \A t \in Thread : ToCome(t)' = ToCome(t) \/ ToCome(t)' = 0
    BY <1>2 DEF ToCome
  <2>2. \A t \in Thread : ToCome(t) \in 0..Limit
    BY RoomInDb
  <2>3. \A t \in Thread : pc'[t] = "rows" => job'[t].cur <= Len(Asked(job[t]))' + 1
    BY <1>2 DEF RowsFit, Asked
  <2>4. Db'.numrow + ToCome("RiMMS")' + ToCome("comunication")' <= 2 * Limit
    BY <1>0, <1>2, <2>1, <2>2, TwoThreads DEF RowsFit
  <2> QED BY <2>3, <2>4 DEF RowsFit
<1>3. ASSUME NEW t \in Thread, Send(t) PROVE RowsFit'
  <2>1. UNCHANGED <<Db, file>> /\ pc' = [pc EXCEPT ![t] = "idle"]
        /\ job' = [job EXCEPT ![t] = NoJob]
    BY <1>3 DEF Send, Goto, Set, dbVars
  <2> QED BY <1>2, <2>1 DEF ThreadTypes
<1>4. CASE TakeLine \/ GestRiMMSNet
  <2>1. PICK t, j : /\ t \in Thread /\ pc' = [pc EXCEPT ![t] = "clear"]
                    /\ job' = [job EXCEPT ![t] = j]
    BY <1>4, TwoThreads DEF TakeLine, GestRiMMSNet, TakeDatagram, Begin, Goto, Set
  <2>2. UNCHANGED <<Db, file>>
    BY <1>4, OuterFrame DEF GestSMComunication, dbVars
  <2> QED BY <1>2, <2>1, <2>2 DEF ThreadTypes
<1>5. CASE Web \/ TakeByte \/ Acknowledge \/ UNCHANGED vars
  <2>1. UNCHANGED <<job, Db, file>>
    BY <1>5 DEF Web, WebStart, WebWrite, WebEnd, WebDies, TakeByte, Acknowledge, dbVars, vars
  <2>2. pc' = pc \/ pc' = [pc EXCEPT !["RiMMS"] = "send"]
    BY <1>5 DEF Web, WebStart, WebWrite, WebEnd, WebDies, TakeByte, Acknowledge, Goto, vars
  <2> QED BY <1>2, <2>1, <2>2 DEF ThreadTypes
<1>6. CASE Restart
  <2>1. Db'.numrow = 0 /\ \A t \in Thread : pc'[t] = "idle"
    BY <1>6 DEF Restart, Fresh, FromFile
  <2>2. \A t \in Thread : ToCome(t)' = 0
    BY <2>1 DEF ToCome
  <2> QED BY <1>0, <2>1, <2>2, TwoThreads DEF RowsFit
<1> QED
  BY <1>1, <1>3, <1>4, <1>5, <1>6 DEF Next, GestSMComunication

LEMMA TypeStep ==
    ASSUME TypeInv, [Next]_vars
    PROVE  TypeInv'
  BY ShmStep, ThreadStep, DbTypesStep, FileStep, PlaceStep, RowsStep DEF TypeInv

LEMMA TypeStart ==
    ASSUME Init
    PROVE  TypeInv
<1> USE DEF Init
<1>0. /\ Limit \in Nat \ {0} /\ DOMAIN Ids = 1..Limit /\ Ids \in [1..Limit -> Sensor]
      /\ Rows = 1..MaxRows /\ MaxRows \in Nat /\ 2 * Limit <= MaxRows /\ Len(Ids) = Limit
      /\ DOMAIN Param = 1..Len(Param) /\ Param \in [DOMAIN Param -> Name]
      /\ Sensor \subseteq Field /\ Name \subseteq Field /\ Blank \in Field
  BY Given DEF Limit
<1>1. ShmTypes
  <2>1. web = [text |-> <<>>, done |-> 0] /\ Len(Line) = 1 /\ web.done <= Len(Line)
    BY DEF Line
  <2>2. shm \in [rx : [Places -> Field \cup {NUL, EOL}], buf : [1..Longest -> Field], at : Places]
        /\ shm.rx[Longest + 1] \in {NUL, EOL}
    BY <1>0 DEF EmptyShm, Places, Longest
  <2>3. web \in [text : WebTexts \cup {<<>>}, done : 0..(Longest + 1)] /\ torn \in BOOLEAN
    <3>1. 0 \in 0..(Longest + 1) /\ <<>> \in WebTexts \cup {<<>>}
      BY DEF Longest
    <3>2. [text |-> <<>>, done |-> 0] \in [text : WebTexts \cup {<<>>}, done : 0..(Longest + 1)]
      BY <3>1
    <3>3. torn \in BOOLEAN
      OBVIOUS
    <3> QED BY <2>1, <3>2, <3>3
  <2> QED BY <2>1, <2>2, <2>3 DEF ShmTypes, WebIdle
<1>2. ThreadTypes
  BY <1>0, NoJobIsJob DEF ThreadTypes, Place
<1>3. file.sensor \in Seq(RowSet) /\ Len(file.sensor) = Limit /\ DOMAIN file.sensor = 1..Limit
  <2>1. file.sensor = [i \in 1..Limit |-> Row(Ids[i], Ids[i])] /\ Limit \in Nat
    BY <1>0
  <2>2. \A i \in 1..Limit : Row(Ids[i], Ids[i]) \in RowSet
    BY <1>0 DEF Row, RowSet
  <2>3. file.sensor \in [1..Limit -> RowSet]
    BY <2>1, <2>2
  <2>4. file.sensor \in Seq(RowSet)
    BY <2>1, <2>3, SeqDef
  <2>5. Len(file.sensor) \in Nat /\ DOMAIN file.sensor = 1..Len(file.sensor)
    BY <2>4
  <2> QED BY <2>1, <2>4, <2>5
<1>4. FileOk
  <2>1. file.config \in [DOMAIN Param -> RowSet] /\ \A i \in DOMAIN Param : file.config[i].key = Param[i]
    BY <1>0 DEF Row, RowSet
  <2>2. OneRowEach(file.sensor)
    BY <1>0, <1>3, Given DEF OneRowEach, Row
  <2>3. file \in [sensor : Seq(RowSet), config : [DOMAIN Param -> RowSet]]
    BY <1>3, <2>1
  <2> QED BY <1>0, <1>3, <2>1, <2>2, <2>3 DEF FileOk
<1>5. DbTypes
  <2>1. NoRow \in RowSet /\ Device(NoRow, 0) \in [key : Field, val : Field, div : Nat]
    BY <1>0 DEF NoRow, Row, RowSet, Device
  <2>2. Db \in [numrow : 0..(2 * Limit), row : [Rows -> RowSet]]
    BY <1>0, <2>1
  <2>3. \A i \in 1..Limit : Device(Row(Ids[i], Ids[i]), 1) \in [key : Field, val : Field, div : Nat]
    BY <1>0 DEF Device, Row
  <2>4. dev \in [Rows -> [key : Field, val : Field, div : Nat]] /\ number \in 0..(2 * Limit)
    BY <1>0, <2>1, <2>3
  <2>5. conf \in [DOMAIN Param -> Field] /\ lock \in [Thread -> {"none", "read", "write"}]
        /\ up \in BOOLEAN /\ stale \subseteq {"table", "conf"}
    <3>1. \A i \in DOMAIN Param : Kept(Param[i], Param[i]) \in Field
      BY <1>0, KeptIsField
    <3> QED BY <3>1
  <2> QED BY <2>2, <2>4, <2>5 DEF DbTypes
<1>6. PlaceFits
  BY DEF PlaceFits, InDbPlace, Loading
<1>7. RowsFit
  BY <1>0, TwoThreads DEF RowsFit, ToCome
<1> QED BY <1>1, <1>2, <1>4, <1>5, <1>6, <1>7 DEF TypeInv

LEMMA TypeIsOK ==
    ASSUME TypeInv
    PROVE  TypeOK
  BY DEF TypeInv, ShmTypes, ThreadTypes, DbTypes, TypeOK, Limit

-----------------------------------------------------------------------------
(* The other thread goes on while one takes a step. *)
LEMMA OthersStay ==
    ASSUME ThreadTypes, DbTypes, NEW t \in Thread, ExecCommand(t) \/ DbCall(t) \/ Send(t)
    PROVE  \A u \in Thread : u # t => pc'[u] = pc[u] /\ job'[u] = job[u]
<1>1. CASE ExecCommand(t) \/ DbCall(t)
  BY <1>1, CommandGoesOn DEF GoesOn, ThreadTypes
<1>2. CASE Send(t)
  BY <1>2 DEF Send, Goto, Set, ThreadTypes
<1> QED BY <1>1, <1>2

(* When the database work of a thread begins and ends. *)
LEMMA WorkBegins ==
    ASSUME ThreadTypes, DbTypes, NEW t \in Thread, ExecCommand(t) \/ DbCall(t) \/ Send(t)
    PROVE  \/ InDb(t)' = InDb(t) /\ shared' = shared
           \/ /\ ~InDb(t)'
              /\ \/ shared' = shared
                 \/ ~InDb(t) /\ shared' = IF InDb(Other(t)) THEN Thread ELSE shared
           \/ Zero(t) /\ InDb(t)' /\ ~InDb(t) /\ EnterDb(t)
<1>0. pc \in [Thread -> Place]
  BY DEF ThreadTypes
<1>1. CASE Zero(t)
  BY <1>0, <1>1 DEF Zero, Answer, Goto, InDb, Step
<1>2. CASE ExecCommand(t) \/ Send(t)
  <2>1. shared' = shared
    BY <1>2, ExecFrame
  <2>2. ~InDb(t)'
    BY <1>0, <1>2 DEF ExecCommand, Clear, Fill, Exec, NameOf, Find, Reply, Send, Answer, Goto, InDb
  <2> QED BY <2>1, <2>2
<1>3. CASE DbCall(t) /\ ~Zero(t)
  <2>1. shared' = shared
    BY <1>3 DEF DbCall, Write, Commit, Empty, Reset, Select, SelectBusy, Callback,
           RowsEnd, CopyParam, NextParam, CopyDevices, CountDevices, Normalise
  <2>2. InDb(t)
    BY <1>3 DEF DbCall, Write, Commit, Empty, Reset, Select, SelectBusy, Callback,
           RowsEnd, CopyParam, NextParam, CopyDevices, CountDevices, Normalise, Step, InDb
  <2> QED BY <2>1, <2>2 DEF InDb
<1> QED BY <1>1, <1>2, <1>3

LEMMA OverlapsStep ==
    ASSUME TypeInv, Overlaps, [Next]_vars
    PROVE  Overlaps'
<1> USE TwoThreads
<1>0. ThreadTypes /\ DbTypes /\ pc \in [Thread -> Place] /\ mixed \subseteq Thread
  BY DEF TypeInv, ThreadTypes
<1>1. ASSUME NEW t \in Thread, ExecCommand(t) \/ DbCall(t) \/ Send(t) PROVE Overlaps'
  <2>1. /\ mixed' = mixed /\ (Busy(t)' => Busy(t)) /\ Busy(Other(t))' = Busy(Other(t))
        /\ InDb(Other(t))' = InDb(Other(t))
    <3>1. mixed' = mixed
      BY <1>1, ExecFrame, DbFrame
    <3>2. pc'[Other(t)] = pc[Other(t)]
      BY <1>0, <1>1, OthersStay
    <3>3. Busy(t)' => Busy(t)
      <4>1. CASE ExecCommand(t) \/ DbCall(t)
        BY <1>0, <4>1, CommandGoesOn DEF GoesOn, Busy
      <4>2. CASE Send(t)
        BY <1>0, <4>2 DEF Send, Goto, Busy
      <4> QED BY <1>1, <4>1, <4>2
    <3> QED BY <3>1, <3>2, <3>3 DEF Busy, InDb
  <2>2. Busy("RiMMS")' /\ Busy("comunication")' => mixed' = Thread
    BY <2>1 DEF Overlaps, Thread
  <2>3. \A u \in Thread : InDb(u) => Busy(u)
    BY DEF InDb, Busy
  <2>4. /\ InDb("RiMMS")' /\ InDb("comunication")' => shared' = Thread
        /\ \A u \in Thread : InDb(u)' /\ u \notin mixed => u \notin shared'
    <3>1. CASE InDb(t)' = InDb(t) /\ shared' = shared
      BY <2>1, <3>1 DEF Overlaps, Thread
    <3>2. CASE ~InDb(t)' /\ shared' = shared
      BY <2>1, <3>2 DEF Overlaps, Thread
    <3>3. CASE ~InDb(t)' /\ ~InDb(t) /\ shared' = IF InDb(Other(t)) THEN Thread ELSE shared
      <4>1. CASE InDb(Other(t))
        <5>1. Busy(Other(t))
          BY <4>1 DEF InDb, Busy
        <5>2. Busy(t)
          BY <1>0, <1>1, CommandGoesOn DEF GoesOn, Busy, Send, Step
        <5>3. mixed = Thread
          BY <5>1, <5>2 DEF Overlaps, Thread
        <5>4. shared' = Thread
          BY <3>3, <4>1
        <5> QED BY <5>3, <5>4
      <4>2. CASE ~InDb(Other(t))
        BY <2>1, <3>3, <4>2 DEF Overlaps, Thread
      <4> QED BY <4>1, <4>2
    <3>4. CASE Zero(t) /\ InDb(t)' /\ ~InDb(t) /\ EnterDb(t)
      <4>1. CASE InDb(Other(t))
        <5>1. Busy(Other(t)) /\ Busy(t)
          BY <3>4, <4>1 DEF InDb, Busy, Zero, Step
        <5>2. mixed = Thread /\ shared' = Thread
          BY <3>4, <4>1, <5>1 DEF Overlaps, Thread, EnterDb
        <5> QED BY <5>2
      <4>2. CASE ~InDb(Other(t))
        BY <2>1, <3>4, <4>2 DEF Overlaps, Thread, EnterDb
      <4> QED BY <4>1, <4>2
    <3> QED BY <1>0, <1>1, <3>1, <3>2, <3>3, <3>4, WorkBegins
  <2> QED BY <2>1, <2>2, <2>4 DEF Overlaps
<1>2. CASE TakeLine \/ GestRiMMSNet
  <2>1. PICK t, text : t \in Thread /\ Begin(t, text) /\ pc[t] = "idle"
    BY <1>2 DEF TakeLine, GestRiMMSNet, TakeDatagram
  <2>2. shared' = shared
    BY <1>2, OuterFrame DEF GestSMComunication
  <2>3. /\ pc' = [pc EXCEPT ![t] = "clear"]
        /\ mixed' = IF Busy(Other(t)) THEN Thread ELSE mixed \ {t}
    BY <2>1 DEF Begin, Goto
  <2>4. /\ Busy(t)' /\ ~InDb(t)' /\ ~InDb(t) /\ Busy(Other(t))' = Busy(Other(t))
        /\ InDb(Other(t))' = InDb(Other(t))
    BY <1>0, <2>1, <2>3 DEF Busy, InDb
  <2>5. Busy("RiMMS")' /\ Busy("comunication")' => mixed' = Thread
    BY <2>1, <2>3, <2>4 DEF Thread
  <2>6. /\ ~(InDb("RiMMS")' /\ InDb("comunication")')
        /\ \A u \in Thread : InDb(u)' /\ u \notin mixed' => u \notin shared'
    BY <2>1, <2>2, <2>3, <2>4 DEF Thread, Overlaps
  <2> QED BY <2>5, <2>6 DEF Overlaps
<1>3. CASE Acknowledge
  <2>1. UNCHANGED <<mixed, shared>> /\ pc' = [pc EXCEPT !["RiMMS"] = "send"] /\ pc["RiMMS"] = "ack"
    BY <1>3 DEF Acknowledge, Goto, Step
  <2> QED BY <1>0, <2>1 DEF Overlaps, Busy, InDb, Thread
<1>4. CASE Web \/ TakeByte \/ UNCHANGED vars
  <2>1. UNCHANGED <<pc, mixed, shared>>
    BY <1>4 DEF Web, WebStart, WebWrite, WebEnd, WebDies, TakeByte, vars
  <2> QED BY <2>1 DEF Overlaps, Busy, InDb
<1>5. CASE Restart
  BY <1>5 DEF Restart, Fresh, Overlaps, Busy, InDb
<1> QED
  BY <1>1, <1>2, <1>3, <1>4, <1>5 DEF Next, GestSMComunication

-----------------------------------------------------------------------------
(* The channel, when the commands of the thread are not concerned. *)
LEMMA ChannelStays ==
    ASSUME ChannelHolds, UNCHANGED shmVars, AtWork' = AtWork,
           job'["RiMMS"].text = job["RiMMS"].text \/ ~AtWork,
           pc'["RiMMS"] = "send" => pc["RiMMS"] = "send" \/ AtWork
    PROVE  ChannelHolds'
<1>1. /\ UNCHANGED <<web, shm, torn, WebIdle, Line, ShmEmpty>>
  BY DEF shmVars, WebIdle, Line, ShmEmpty
<1>2. CASE AtWork
  BY <1>1, <1>2 DEF ChannelHolds, AsWritten
<1>3. CASE ~AtWork
  BY <1>1, <1>3 DEF ChannelHolds, Taking
<1> QED BY <1>2, <1>3

LEMMA ChannelStep ==
    ASSUME TypeInv, ChannelHolds, [Next]_vars
    PROVE  ChannelHolds'
<1> USE TwoThreads
<1>0. /\ ShmTypes /\ ThreadTypes /\ DbTypes /\ pc \in [Thread -> Place]
      /\ Places = 1..4 /\ Longest = 3 /\ NUL # EOL
      /\ web.done \in 0..4 /\ shm.at \in 1..4 /\ web.done <= Len(Line)
      /\ shm.rx \in [1..4 -> Field \cup {NUL, EOL}]
  BY DEF TypeInv, ThreadTypes, Places, Longest, NUL, EOL, ShmTypes
<1>1. ~WebIdle => /\ Len(Line) \in 2..4 /\ Len(web.text) = Len(Line) - 1
                  /\ Line[Len(Line)] = EOL /\ web.text \in Seq(Field)
                  /\ \A i \in 1..(Len(Line) - 1) : Line[i] = web.text[i] /\ Line[i] \in Field \ {NUL, EOL}
  <2> SUFFICES ASSUME ~WebIdle
               PROVE  /\ Len(Line) \in 2..4 /\ Len(web.text) = Len(Line) - 1
                      /\ Line[Len(Line)] = EOL /\ web.text \in Seq(Field)
                      /\ \A i \in 1..(Len(Line) - 1) :
                           Line[i] = web.text[i] /\ Line[i] \in Field \ {NUL, EOL}
    OBVIOUS
  <2>1. /\ web.text \in Seq(Field) /\ Len(web.text) \in 1..3 /\ Len(Line) = Len(web.text) + 1
        /\ Line[Len(Line)] = EOL
        /\ \A i \in 1..Len(web.text) :
             Line[i] = web.text[i] /\ Line[i] \in Field \ {NUL, EOL}
    BY <1>0, LineFacts
  <2>2. Len(Line) - 1 = Len(web.text) /\ Len(Line) \in 2..4
    <3> DEFINE n == Len(web.text)
               k == Len(Line)
    <3>1. n \in 1..3 /\ k = n + 1
      BY <2>1
    <3> HIDE DEF n, k
    <3>2. k - 1 = n /\ k \in 2..4
      BY <3>1
    <3> QED BY <3>2 DEF n, k
  <2> QED BY <2>1, <2>2
<1>2. CASE torn
  <2>1. CASE Web \/ GestSMComunication
    BY <1>2, <2>1 DEF Web, WebStart, WebWrite, WebEnd, WebDies, GestSMComunication, TakeByte, TakeLine,
           Acknowledge, shmVars, ChannelHolds
  <2>2. CASE GestRiMMSNet
    BY <1>2, <2>2 DEF GestRiMMSNet, TakeDatagram, shmVars, ChannelHolds
  <2>3. CASE \E t \in Thread : ExecCommand(t) \/ DbCall(t) \/ Send(t)
    BY <1>2, <2>3, ExecFrame, DbFrame DEF shmVars, ChannelHolds
  <2>4. CASE UNCHANGED vars
    BY <1>2, <2>4 DEF vars, shmVars, ChannelHolds
  <2>5. CASE Restart /\ ~WebIdle
    BY <2>5 DEF Restart, ChannelHolds
  <2>6. CASE Restart /\ WebIdle
    <3>1. shm' = EmptyShm /\ pc'["RiMMS"] = "idle" /\ WebIdle'
      BY <2>6 DEF Restart, Fresh, WebIdle
    <3>2. ShmEmpty' /\ ~AtWork'
      BY <3>1 DEF ShmEmpty, EmptyShm, AtWork, Busy
    <3> QED BY <3>1, <3>2 DEF ChannelHolds
  <2> QED BY <2>1, <2>2, <2>3, <2>4, <2>5, <2>6 DEF Next
<1>3. CASE ~torn
  <2>0. IF AtWork THEN AsWritten
        ELSE Taking \/ (ShmEmpty /\ (WebIdle \/ web.done = Len(Line)))
    BY <1>3 DEF ChannelHolds
  <2>1. CASE \E text \in WebTexts : WebStart(text)
    <3>1. PICK text \in WebTexts : WebStart(text)
      BY <2>1
    <3>2. WebIdle /\ ~AtWork /\ ShmEmpty
      BY <2>0, <3>1 DEF WebStart, AsWritten, Taking
    <3>3. /\ web' = [text |-> text, done |-> 0] /\ shm' = shm /\ pc' = pc /\ ~AtWork'
          /\ shm.at = 1
      BY <3>1, <3>2 DEF WebStart, AtWork, Busy, ShmEmpty
    <3>4. ~WebIdle' /\ Len(Line') \in Nat /\ Len(Line') >= 1
      BY <3>3, Texts DEF WebIdle, Line
    <3>5. \A i \in Places : shm.rx[i] = NUL /\ i \notin 1..0
      BY <3>2 DEF ShmEmpty
    <3>6. Taking'
      BY <3>3, <3>4, <3>5 DEF Taking
    <3> QED BY <3>3, <3>6 DEF ChannelHolds
  <2>2. CASE WebWrite
    <3>1. ~AtWork /\ Taking /\ ~WebIdle /\ web.done < Len(Line)
      BY <1>0, <2>0, <2>2 DEF WebWrite, AsWritten, WebIdle
    <3>2. /\ web'.done = web.done + 1 /\ web'.text = web.text /\ pc' = pc
          /\ shm'.at = shm.at /\ shm'.buf = shm.buf
          /\ shm'.rx = [shm.rx EXCEPT ![web.done + 1] = Line[web.done + 1]]
      BY <1>0, <2>2 DEF WebWrite, ShmTypes
    <3>3. Line' = Line /\ ~WebIdle' /\ ~AtWork'
      BY <3>1, <3>2 DEF Line, WebIdle, AtWork, Busy
    <3>4. /\ shm.at <= web.done + 1 /\ shm.at <= Len(Line)
          /\ \A i \in Places : shm.rx[i] = IF i \in shm.at..web.done THEN Line[i] ELSE NUL
      BY <3>1 DEF Taking
    <3>5. \A i \in Places : shm'.rx[i] = IF i \in shm.at..(web.done + 1) THEN Line[i] ELSE NUL
      BY <1>0, <1>1, <3>1, <3>2, <3>4
    <3>6. shm.at <= web.done + 2
      BY <1>0, <3>4
    <3>7. Taking'
      BY <1>0, <3>1, <3>2, <3>3, <3>4, <3>5, <3>6 DEF Taking
    <3> QED BY <3>3, <3>7 DEF ChannelHolds
  <2>3. CASE WebEnd
    <3>1. ~WebIdle /\ web.done = Len(Line) /\ shm.rx[web.done] = NUL /\ Len(Line) \in 1..4
      BY <1>1, <2>3 DEF WebEnd
    <3>2. ~AsWritten
      BY <1>0, <3>1 DEF AsWritten
    <3>3. ~Taking
      BY <1>0, <1>1, <3>1 DEF Taking
    <3>4. ShmEmpty /\ ~AtWork
      BY <2>0, <3>2, <3>3
    <3>5. WebIdle' /\ UNCHANGED <<shm, pc>>
      BY <2>3 DEF WebEnd, WebIdle
    <3> QED BY <3>4, <3>5 DEF ShmEmpty, AtWork, Busy, ChannelHolds
  <2>4. CASE WebDies
    <3>1. CASE web.done > 0
      BY <2>4, <3>1 DEF WebDies, ChannelHolds
    <3>2. CASE ~(web.done > 0)
      <4>1. web.done = 0 /\ ~WebIdle /\ WebIdle' /\ UNCHANGED <<shm, pc>>
        BY <1>0, <2>4, <3>2 DEF WebDies, WebIdle
      <4>2. ~AsWritten
        BY <1>1, <4>1 DEF AsWritten
      <4>3. Taking => ShmEmpty
        BY <1>0, <4>1 DEF Taking, ShmEmpty
      <4>4. ShmEmpty /\ ~AtWork
        BY <2>0, <4>2, <4>3
      <4> QED BY <4>1, <4>4 DEF ShmEmpty, AtWork, Busy, ChannelHolds
    <3> QED BY <3>1, <3>2
  <2>5. CASE TakeByte
    <3>1. /\ ~AtWork /\ shm.rx[shm.at] \notin {NUL, EOL} /\ UNCHANGED <<web, pc>>
          /\ shm' = [rx |-> [shm.rx EXCEPT ![shm.at] = NUL],
                     buf |-> [shm.buf EXCEPT ![shm.at] = shm.rx[shm.at]],
                     at |-> shm.at + 1]
          /\ pc["RiMMS"] = "idle"
      BY <2>5 DEF TakeByte, AtWork, Busy
    <3>2. ~ShmEmpty
      BY <1>0, <3>1 DEF ShmEmpty
    <3>3. Taking
      BY <2>0, <3>1, <3>2
    <3>4. ~WebIdle /\ shm.at \in shm.at..web.done /\ shm.rx[shm.at] = Line[shm.at]
      BY <1>0, <3>1, <3>3 DEF Taking
    <3>5. shm.at < Len(Line) /\ shm.at <= web.done /\ Line[shm.at] = web.text[shm.at]
          /\ shm.at \in 1..3
      <4>1. shm.at <= Len(Line) /\ shm.at # Len(Line)
        BY <1>1, <3>1, <3>3, <3>4 DEF Taking
      <4>2. /\ shm.at \in 1..(Len(Line) - 1) /\ shm.at <= web.done /\ Len(Line) \in 2..4
            /\ shm.at < Len(Line) /\ shm.at \in 1..3
        <5> DEFINE k == Len(Line)
        <5>1. k \in 2..4 /\ shm.at \in 1..4 /\ shm.at <= k /\ shm.at # k /\ web.done \in 0..4
          BY <1>0, <1>1, <3>4, <4>1
        <5> HIDE DEF k
        <5>2. shm.at \in 1..(k - 1) /\ shm.at < k /\ shm.at \in 1..3
          BY <5>1
        <5>3. shm.at <= web.done
          BY <3>4, <5>1
        <5> QED BY <5>1, <5>2, <5>3 DEF k
      <4>3. Line[shm.at] = web.text[shm.at]
        BY <1>1, <3>4, <4>2
      <4> QED BY <4>2, <4>3
    <3>6. \A i \in Places : shm'.rx[i] = IF i \in (shm.at + 1)..web.done THEN Line[i] ELSE NUL
      BY <1>0, <3>1, <3>3, <3>5 DEF Taking
    <3>7. \A i \in 1..shm.at : shm'.buf[i] = web.text[i]
      <4>1. shm.buf \in [1..3 -> Field]
        BY <1>0 DEF ShmTypes
      <4>2. \A i \in 1..(shm.at - 1) : shm.buf[i] = web.text[i]
        BY <3>3 DEF Taking
      <4>3. shm'.buf = [shm.buf EXCEPT ![shm.at] = web.text[shm.at]]
        BY <3>1, <3>4, <3>5
      <4> QED BY <3>5, <4>1, <4>2, <4>3
    <3>8. shm'.at = shm.at + 1 /\ shm.at + 1 <= web.done + 1 /\ shm.at + 1 <= Len(Line)
          /\ (shm.at + 1) - 1 = shm.at
      BY <1>0, <1>1, <3>1, <3>4, <3>5
    <3>9. Line' = Line /\ ~WebIdle' /\ ~AtWork' /\ pc'["RiMMS"] = "idle"
      BY <3>1, <3>4 DEF Line, WebIdle, AtWork, Busy
    <3>10. Taking'
      BY <3>1, <3>6, <3>7, <3>8, <3>9 DEF Taking
    <3> QED BY <3>9, <3>10 DEF ChannelHolds
  <2>6. CASE TakeLine
    <3>1. /\ ~AtWork /\ shm.rx[shm.at] = EOL /\ UNCHANGED <<web, shm>>
          /\ Begin("RiMMS", SubSeq(shm.buf, 1, shm.at - 1))
      BY <2>6 DEF TakeLine, AtWork, Busy, shmVars
    <3>2. ~ShmEmpty
      BY <1>0, <3>1 DEF ShmEmpty
    <3>3. Taking
      BY <2>0, <3>1, <3>2
    <3>4. ~WebIdle /\ shm.at \in shm.at..web.done /\ shm.rx[shm.at] = Line[shm.at]
          /\ shm.at <= Len(Line)
      BY <1>0, <3>1, <3>3 DEF Taking
    <3>5. shm.at = Len(Line) /\ web.done = Len(Line)
      <4>1. ~(shm.at <= Len(Line) - 1)
        BY <1>0, <1>1, <3>1, <3>4
      <4> QED BY <1>0, <1>1, <3>4, <4>1
    <3>6. \A i \in Places : shm.rx[i] = IF i = Len(Line) THEN EOL ELSE NUL
      BY <1>0, <1>1, <3>3, <3>4, <3>5 DEF Taking
    <3> DEFINE text == SubSeq(shm.buf, 1, shm.at - 1)
    <3>7. text \in Seq(Field) /\ Len(text) = Len(web.text) /\ text = web.text
      <4>1. /\ text \in Seq(Field) /\ Len(text) = shm.at - 1
            /\ \A i \in 1..(shm.at - 1) : text[i] = shm.buf[i]
        BY <1>0, TakenText
      <4>2. \A i \in 1..(shm.at - 1) : shm.buf[i] = web.text[i]
        BY <3>3 DEF Taking
      <4>3. Len(text) = Len(web.text) /\ web.text \in Seq(Field)
        BY <1>1, <3>4, <3>5, <4>1
      <4> HIDE DEF text
      <4>4. \A i \in 1..Len(text) : text[i] = web.text[i]
        BY <4>1, <4>2
      <4> QED BY <4>1, <4>3, <4>4
    <3> HIDE DEF text
    <3>8. Begin("RiMMS", text)
      BY <3>1 DEF text
    <3>9. pc' = [pc EXCEPT !["RiMMS"] = "clear"] /\ job'["RiMMS"].text = web.text
      BY <1>0, <3>7, <3>8, BeginTypes
    <3>10. AtWork' /\ Line' = Line /\ ~WebIdle'
      BY <1>0, <3>1, <3>4, <3>9 DEF AtWork, Busy, Line, WebIdle
    <3>11. AsWritten'
      BY <3>1, <3>5, <3>6, <3>9, <3>10 DEF AsWritten
    <3> QED BY <3>10, <3>11 DEF ChannelHolds
  <2>7. CASE Acknowledge
    <3>1. AtWork /\ UNCHANGED web /\ pc' = [pc EXCEPT !["RiMMS"] = "send"]
      BY <2>7 DEF Acknowledge, Step, AtWork, Busy, Goto
    <3>2. AsWritten
      BY <2>0, <3>1
    <3>3. shm'.rx = [shm.rx EXCEPT ![shm.at] = NUL] /\ shm'.at = 1
      BY <1>0, <2>7, LineEnded
    <3>4. ShmEmpty'
      BY <1>0, <3>2, <3>3 DEF ShmEmpty, AsWritten
    <3>5. ~AtWork' /\ web'.done = Len(Line')
      BY <1>0, <3>1, <3>2 DEF AtWork, AsWritten, Line
    <3> QED BY <3>4, <3>5 DEF ChannelHolds
  <2>8. ASSUME NEW t \in Thread, ExecCommand(t) \/ DbCall(t) PROVE ChannelHolds'
    <3>1. UNCHANGED shmVars
      BY <2>8, ExecFrame, DbFrame
    <3>2. CASE t = "RiMMS"
      <4>1. GoesOn("RiMMS")
        BY <1>0, <2>8, <3>2, CommandGoesOn
      <4>2. /\ AtWork = TRUE /\ AtWork' = TRUE /\ job'["RiMMS"].text = job["RiMMS"].text
        BY <4>1 DEF GoesOn, AtWork, Busy
      <4> QED BY <3>1, <4>2, ChannelStays
    <3>3. CASE t # "RiMMS"
      <4>1. pc'["RiMMS"] = pc["RiMMS"] /\ job'["RiMMS"] = job["RiMMS"]
        BY <1>0, <2>8, <3>3, OthersStay
      <4>2. AtWork' = AtWork
        BY <4>1 DEF AtWork, Busy
      <4> QED BY <3>1, <4>1, <4>2, ChannelStays
    <3> QED BY <3>2, <3>3
  <2>9. ASSUME NEW t \in Thread, Send(t) PROVE ChannelHolds'
    <3>1. UNCHANGED shmVars
      BY <2>9, ExecFrame
    <3>2. CASE t = "RiMMS"
      <4>1. pc["RiMMS"] = "send" /\ pc'["RiMMS"] = "idle"
        BY <1>0, <2>9, <3>2 DEF Send, Step, Goto
      <4>2. ~AtWork /\ AtWork' = AtWork
        BY <4>1 DEF AtWork, Busy
      <4> QED BY <3>1, <4>1, <4>2, ChannelStays
    <3>3. CASE t # "RiMMS"
      <4>1. pc'["RiMMS"] = pc["RiMMS"] /\ job'["RiMMS"] = job["RiMMS"]
        BY <1>0, <2>9, <3>3, OthersStay
      <4>2. AtWork' = AtWork
        BY <4>1 DEF AtWork, Busy
      <4> QED BY <3>1, <4>1, <4>2, ChannelStays
    <3> QED BY <3>2, <3>3
  <2>10. CASE GestRiMMSNet \/ UNCHANGED vars
    <3>1. pc'["RiMMS"] = pc["RiMMS"] /\ job'["RiMMS"] = job["RiMMS"] /\ UNCHANGED shmVars
      BY <1>0, <2>10 DEF GestRiMMSNet, TakeDatagram, Begin, Goto, Set, ThreadTypes, vars
    <3>2. AtWork' = AtWork
      BY <3>1 DEF AtWork, Busy
    <3> QED BY <3>1, <3>2, ChannelStays
  <2>11. CASE Restart
    <3>1. CASE WebIdle
      <4>1. shm' = EmptyShm /\ pc'["RiMMS"] = "idle" /\ WebIdle'
        BY <2>11, <3>1 DEF Restart, Fresh, WebIdle
      <4>2. ShmEmpty' /\ ~AtWork'
        BY <4>1 DEF ShmEmpty, EmptyShm, AtWork, Busy
      <4> QED BY <4>1, <4>2 DEF ChannelHolds
    <3>2. CASE ~WebIdle
      BY <2>11, <3>2 DEF Restart, ChannelHolds
    <3> QED BY <3>1, <3>2
  <2> QED
    BY <2>1, <2>2, <2>3, <2>4, <2>5, <2>6, <2>7, <2>8, <2>9, <2>10, <2>11
       DEF Next, Web, GestSMComunication
<1> QED BY <1>2, <1>3

(* What the channel holds makes it in step. *)
LEMMA ChannelIsInStep ==
    ASSUME TypeInv, ChannelHolds
    PROVE  ChannelInStep
<1>1. WebIdle /\ ShmEmpty => shm = [EmptyShm EXCEPT !.buf = shm.buf]
  <2> SUFFICES ASSUME ShmEmpty PROVE shm = [EmptyShm EXCEPT !.buf = shm.buf]
    OBVIOUS
  <2>1. /\ shm \in [rx : [Places -> Field \cup {NUL, EOL}], buf : [1..Longest -> Field], at : Places]
        /\ shm.at = 1 /\ \A i \in Places : shm.rx[i] = NUL
    BY DEF TypeInv, ShmTypes, ShmEmpty
  <2>2. shm.rx = [i \in Places |-> NUL]
    BY <2>1
  <2>3. shm = [rx |-> [i \in Places |-> NUL], buf |-> shm.buf, at |-> 1]
    BY <2>1, <2>2
  <2>4. [EmptyShm EXCEPT !.buf = shm.buf] = [rx |-> [i \in Places |-> NUL], buf |-> shm.buf, at |-> 1]
    BY DEF EmptyShm
  <2> QED BY <2>3, <2>4
<1> QED BY <1>1 DEF ChannelHolds, ChannelInStep, AtWork, AsWritten, Taking

-----------------------------------------------------------------------------
(* The work of one thread on the database, seen from the other. *)
LEMMA OthersWork ==
    ASSUME TypeInv, Overlaps, NEW t \in Thread, ExecCommand(t) \/ DbCall(t) \/ Send(t),
           NEW u \in Thread, u # t, u \notin shared'
    PROVE  u \notin shared /\ (InDb(u) => UNCHANGED dbVars)
<1> USE TwoThreads
<1>0. ThreadTypes /\ DbTypes /\ u = Other(t)
  BY DEF TypeInv
<1>1. CASE ExecCommand(t) \/ Send(t)
  BY <1>1, ExecFrame
<1>2. CASE DbCall(t) /\ ~Zero(t)
  <2>1. shared' = shared /\ InDb(t)
    BY <1>2 DEF DbCall, Write, Commit, Empty, Reset, Select, SelectBusy, Callback,
           RowsEnd, CopyParam, NextParam, CopyDevices, CountDevices, Normalise, Step, InDb
  <2>2. ~InDb(u)
    BY <2>1 DEF Overlaps, Thread
  <2> QED BY <2>1, <2>2
<1>3. CASE Zero(t)
  <2>1. shared' \in {shared, shared \ {t}, Thread} /\ (InDb(u) => shared' = Thread)
    BY <1>0, <1>3 DEF Zero, EnterDb
  <2> QED BY <2>1
<1> QED BY <1>1, <1>2, <1>3

LEMMA FirstParamStep ==
    ASSUME TypeInv, FirstParam, [Next]_vars
    PROVE  FirstParam'
<1> DEFINE Before == {"clear", "fill", "exec", "name", "find", "zero", "write", "commit"}
           One(u) == pc[u] \in Before => job[u].par = 1
<1>0. ThreadTypes /\ DbTypes /\ pc \in [Thread -> Place] /\ \A u \in Thread : One(u)
  BY DEF TypeInv, ThreadTypes, FirstParam
<1>1. ASSUME NEW t \in Thread, ExecCommand(t) \/ DbCall(t) PROVE FirstParam'
  <2>1. \A u \in Thread : u # t => One(u)'
    BY <1>0, <1>1, OthersStay
  <2>2. One(t)'
    <3>1. CASE Exec(t) /\ pc'[t] # "reply"
      <4>1. /\ pc[t] = "exec"
            /\ Set(t, [job[t] EXCEPT !.op = parser[1], !.a = parser[2], !.b = parser[3]])
            /\ \E p \in {"name", "zero", "find"} : Goto(t, p)
        BY <1>0, <3>1 DEF Exec, Step, Answer, Goto
      <4>2. job'[t].par = job[t].par
        <5>1. PICK p \in {"name", "zero", "find"} : Goto(t, p)
          BY <4>1
        <5>2. p \in Place
          BY DEF Place
        <5> QED BY <1>0, <4>1, <5>1, <5>2, ExecReads
      <4> QED BY <1>0, <4>1, <4>2
    <3>2. CASE pc'[t] \in {"reply", "ack", "send", "reset", "empty", "select", "rows", "copy",
                           "count", "normal"}
      BY <3>2
    <3>3. CASE Clear(t) \/ Fill(t) \/ (Find(t) /\ job' = job) \/ (Zero(t) /\ job' = job) \/ (Write(t) /\ job' = job)
      BY <1>0, <3>3 DEF Clear, Fill, Find, Zero, Write, Step
    <3>4. CASE Exec(t) \/ NameOf(t) \/ Find(t) \/ Reply(t) \/ Zero(t) \/ Write(t) \/ Commit(t)
      BY <1>0, <3>1, <3>2, <3>3, <3>4
         DEF Exec, NameOf, Find, Reply, Zero, Write, Commit, Answer, Goto
    <3>5. CASE Empty(t) \/ Reset(t) \/ Select(t) \/ SelectBusy(t) \/ Callback(t) \/ RowsEnd(t)
                \/ CopyParam(t) \/ CopyDevices(t) \/ CountDevices(t) \/ Normalise(t)
      <4>1. pc'[t] \in {"reply", "reset", "select", "rows", "copy", "count", "normal"}
        BY <1>0, <3>5, CopySteps, BusySteps DEF Empty, Reset, Select, Callback, RowsEnd,
               CopyDevices, CountDevices, Normalise, Answer, Goto, Step
      <4> QED BY <3>2, <4>1
    <3> QED BY <1>1, <3>3, <3>4, <3>5 DEF ExecCommand, DbCall
  <2> QED BY <2>1, <2>2 DEF FirstParam
<1>2. ASSUME NEW t \in Thread, Send(t) PROVE FirstParam'
  <2>1. pc'[t] = "idle"
    BY <1>0, <1>2 DEF Send, Goto
  <2>2. \A u \in Thread : u # t => One(u)'
    BY <1>0, <1>2, OthersStay
  <2> QED BY <2>1, <2>2 DEF FirstParam
<1>3. ASSUME NEW t \in Thread, NEW text, Begin(t, text) PROVE FirstParam'
  <2>1. job' = [job EXCEPT ![t] = [NoJob EXCEPT !.text = text, !.sure = "table" \notin stale]]
        /\ pc' = [pc EXCEPT ![t] = "clear"]
    BY <1>3 DEF Begin, Set, Goto
  <2>2. job'[t].par = 1 /\ \A u \in Thread : u # t => One(u)'
    BY <1>0, <2>1 DEF ThreadTypes, NoJob
  <2> QED BY <2>2 DEF FirstParam
<1>4. CASE TakeLine \/ GestRiMMSNet
  BY <1>3, <1>4, TwoThreads DEF TakeLine, GestRiMMSNet, TakeDatagram
<1>5. CASE Acknowledge
  BY <1>0, <1>5 DEF Acknowledge, Goto, FirstParam
<1>6. CASE Web \/ TakeByte \/ UNCHANGED vars
  <2>1. UNCHANGED <<pc, job>>
    BY <1>6 DEF Web, WebStart, WebWrite, WebEnd, WebDies, TakeByte, vars
  <2> QED BY <2>1 DEF FirstParam
<1>7. CASE Restart
  BY <1>7 DEF Restart, Fresh, FirstParam
<1> QED
  BY <1>1, <1>2, <1>4, <1>5, <1>6, <1>7 DEF Next, GestSMComunication

(* What holds of memory, given the places of the threads in their loads. *)
LoadsRight == \A t \in Thread \ shared : /\ LoadsTable(t) => TableLoad(t)
                                         /\ LoadsConfig(t) => ConfigLoad(t)
MemoryRight ==
    up => /\ "table" \in stale \/ TableInMemory \/ \E t \in Thread : LoadsTable(t)
          /\ "conf" \in stale \/ ConfigInMemory \/ \E t \in Thread : LoadsConfig(t)

LEMMA MemoryParts == MemoryInv <=> Running /\ FirstParam /\ LoadsRight /\ MemoryRight
  BY DEF MemoryInv, LoadsRight, MemoryRight

LEMMA MemoryStays ==
    ASSUME MemoryInv, UNCHANGED <<dbVars, shared>>,
           \A t \in Thread : \/ pc'[t] = pc[t] /\ job'[t] = job[t]
                             \/ pc'[t] \notin Loading /\ pc[t] \notin Loading
    PROVE  Running' /\ LoadsRight' /\ MemoryRight'
<1>1. \A t \in Thread : LoadsTable(t)' = LoadsTable(t) /\ LoadsConfig(t)' = LoadsConfig(t)
  BY DEF LoadsTable, LoadsConfig
<1>2. TableInMemory' = TableInMemory /\ ConfigInMemory' = ConfigInMemory
  BY DEF dbVars, TableInMemory, ConfigInMemory, Reached, Bad
<1>3. ASSUME NEW t \in Thread, LoadsTable(t) \/ LoadsConfig(t)
      PROVE  TableLoad(t)' = TableLoad(t) /\ ConfigLoad(t)' = ConfigLoad(t)
  <2>1. pc'[t] = pc[t] /\ job'[t] = job[t]
    BY <1>3 DEF LoadsTable, LoadsConfig
  <2> QED BY <2>1 DEF dbVars, TableLoad, ConfigLoad, RowsRead, DevicesRead, Bad
<1>4. Running' /\ LoadsRight'
  BY <1>1, <1>3 DEF MemoryInv, LoadsRight, dbVars, Running, Bad
<1>5. MemoryRight'
  BY <1>1, <1>2 DEF MemoryInv, MemoryRight, dbVars
<1> QED BY <1>4, <1>5

(* A load that meets the lock of the other thread is not on its own. *)
LEMMA BusyIsShared ==
    ASSUME TypeInv, Overlaps, NEW t \in Thread, SelectBusy(t)
    PROVE  shared = Thread /\ shared' = Thread
<1>1. pc[t] = "select" /\ lock[Other(t)] = "write" /\ shared' = shared
  BY BusySteps DEF TypeInv
<1>2. pc[Other(t)] = "commit"
  BY <1>1, TwoThreads DEF TypeInv, PlaceFits
<1>3. InDb("RiMMS") /\ InDb("comunication")
  BY <1>1, <1>2, TwoThreads DEF InDb, Thread
<1> QED BY <1>1, <1>3 DEF Overlaps

(* The parameter in the first row of Db is in its variable. *)
LEMMA ParamCopied ==
    ASSUME ThreadTypes, DbTypes, NEW t \in Thread, CopyParam(t), ConfigLoad(t),
           NEW n, n = job[t].par
    PROVE  /\ n \in 1..Len(Param) /\ DOMAIN Param = 1..Len(Param) /\ Len(Param) \in Nat
           /\ file' = file /\ Db.row[1] = file.config[n]
           /\ \A i \in 1..n : conf'[i] = Kept(Param[i], file.config[i].val)
           /\ \A i \in 1..(n - 1) : ~Bad(i)
           /\ Bad(n) <=> Refused(Param[n], Db.row[1].val)
<1>1. /\ n \in 1..Len(Param) /\ DOMAIN Param = 1..Len(Param) /\ Len(Param) \in Nat
      /\ conf \in [DOMAIN Param -> Field]
  BY Given DEF ThreadTypes, DbTypes, Job
<1>2. /\ pc[t] = "copy" /\ file' = file
      /\ conf' = [conf EXCEPT ![n] = Kept(Param[n], Db.row[1].val)]
  BY CopySteps
<1>3. /\ Db.row[1] = file.config[n]
      /\ \A i \in 1..(n - 1) : ~Bad(i) /\ conf[i] = Kept(Param[i], file.config[i].val)
  BY <1>2 DEF ConfigLoad
<1>4. ASSUME NEW i \in 1..n
      PROVE  conf'[i] = Kept(Param[i], file.config[i].val)
  <2>1. i \in DOMAIN Param /\ (i = n \/ (i # n /\ i \in 1..(n - 1)))
    BY <1>1
  <2> QED BY <1>1, <1>2, <1>3, <2>1
<1>5. Bad(n) <=> Refused(Param[n], Db.row[1].val)
  BY <1>3 DEF Bad
<1> QED BY <1>1, <1>2, <1>3, <1>4, <1>5

(* A thread whose work is on its own loads what is in the file. *)
LEMMA OwnLoad ==
    ASSUME TypeInv, Overlaps, MemoryInv, NEW t \in Thread, DbCall(t), t \notin shared'
    PROVE  /\ LoadsTable(t)' => TableLoad(t)'
           /\ LoadsConfig(t)' => ConfigLoad(t)'
<1>0. /\ ThreadTypes /\ DbTypes /\ FileOk /\ PlaceFits /\ pc \in [Thread -> Place]
      /\ job[t] \in Job /\ job[t].cur \in Nat \ {0} /\ job[t].par \in DOMAIN Param
      /\ DOMAIN Param = 1..Len(Param) /\ Len(Param) \in Nat \ {0}
      /\ Limit \in Nat /\ Rows = 1..MaxRows /\ MaxRows \in Nat /\ 2 * Limit <= MaxRows /\ 1 \in Rows
      /\ Db \in [numrow : 0..(2 * Limit), row : [Rows -> RowSet]] /\ Db.numrow \in Nat
      /\ conf \in [DOMAIN Param -> Field]
  <2>1. ThreadTypes /\ DbTypes /\ FileOk /\ PlaceFits
    BY DEF TypeInv
  <2>2. /\ pc \in [Thread -> Place] /\ job[t] \in Job /\ job[t].cur \in Nat \ {0}
        /\ job[t].par \in DOMAIN Param
    BY <2>1 DEF ThreadTypes, Job
  <2>3. /\ Db \in [numrow : 0..(2 * Limit), row : [Rows -> RowSet]]
        /\ conf \in [DOMAIN Param -> Field]
    BY <2>1 DEF DbTypes
  <2>4. Db.numrow \in Nat
    BY <2>3, Given
  <2> QED BY <2>1, <2>2, <2>3, <2>4, Given
<1>1. Len(file.sensor) \in Nat /\ Len(file.sensor) <= Limit
  BY <1>0 DEF FileOk
<1>2. GoesOn(t) /\ (pc[t] # "exec" => job'[t].op = job[t].op)
  BY <1>0, CommandGoesOn DEF GoesOn
<1>3. t \notin shared \/ Zero(t)
  BY DEF DbCall, Write, Commit, Empty, Reset, Select, SelectBusy, Callback,
         RowsEnd, CopyParam, NextParam, CopyDevices, CountDevices, Normalise
<1>4. t \notin shared => /\ LoadsTable(t) => TableLoad(t)
                         /\ LoadsConfig(t) => ConfigLoad(t)
  BY DEF MemoryInv
<1>5. CASE pc'[t] \notin Loading
  BY <1>5 DEF LoadsTable, LoadsConfig
<1>6. CASE Zero(t) \/ Write(t) \/ Normalise(t)
  <2>1. pc'[t] \notin Loading
    BY <1>0, <1>6 DEF Zero, Write, Normalise, Answer, Goto, Loading
  <2> QED BY <1>5, <2>1
<1>7. CASE Commit(t) /\ pc'[t] # "reply"
  <2>1. pc[t] = "commit" /\ pc'[t] \in {"reset", "empty"} /\ job' = job
    BY <1>0, <1>7 DEF Commit, Step, Answer, Goto
  <2>2. job[t].par = 1
    BY <2>1 DEF MemoryInv, FirstParam
  <2> QED BY <2>1, <2>2 DEF TableLoad, ConfigLoad
<1>8. CASE Empty(t)
  <2>1. pc[t] = "empty" /\ pc'[t] = "reset" /\ job' = job /\ job[t].op # "PARAM"
    BY <1>0, <1>8 DEF Empty, Step, Goto, PlaceFits
  <2> QED BY <2>1 DEF TableLoad, LoadsConfig
<1>9. CASE Reset(t)
  <2>1. /\ pc[t] = "reset" /\ pc'[t] = "select" /\ job' = job /\ UNCHANGED <<conf, file>>
        /\ Db' = [Db EXCEPT !.numrow = 0]
    BY <1>0, <1>9 DEF Reset, Step, Goto
  <2>2. Db'.numrow = 0
    BY <1>0, <2>1
  <2>3. LoadsConfig(t)' => ConfigLoad(t)
    BY <1>3, <1>4, <2>1, <1>9 DEF LoadsConfig, Loading, Zero, Step
  <2>4. \A i : Bad(i)' = Bad(i)
    BY <2>1 DEF Bad
  <2> QED BY <2>1, <2>2, <2>3, <2>4 DEF TableLoad, ConfigLoad
<1>10. CASE Select(t)
  <2>1. /\ pc[t] = "select" /\ pc'[t] = "rows" /\ UNCHANGED <<conf, file, Db>>
        /\ Set(t, [job[t] EXCEPT !.cur = 1])
    BY <1>0, <1>10 DEF Select, Step, Goto
  <2>2. job'[t].cur = 1 /\ job'[t].par = job[t].par
    BY <1>0, <2>1 DEF Set, ThreadTypes, Job
  <2>3. /\ LoadsTable(t)' => Db.numrow = 0
        /\ LoadsConfig(t)' => Db.numrow = 0 /\ ConfigLoad(t)
    <3>1. job'[t].op = job[t].op /\ t \notin shared
      BY <1>2, <1>3, <2>1 DEF Zero, Step
    <3> QED BY <1>4, <2>1, <3>1 DEF LoadsTable, LoadsConfig, TableLoad, ConfigLoad, Loading
  <2>4. \A i : Bad(i)' = Bad(i)
    BY <2>1 DEF Bad
  <2> QED BY <2>1, <2>2, <2>3, <2>4 DEF TableLoad, ConfigLoad, RowsRead
<1>11. CASE SelectBusy(t)
  BY <1>11, BusyIsShared
<1>12. CASE Callback(t)
  <2> DEFINE r == Asked(job[t])[job[t].cur]
  <2>1. /\ pc[t] = "rows" /\ pc' = pc /\ UNCHANGED <<conf, file>>
        /\ job[t].cur <= Len(Asked(job[t]))
        /\ Set(t, [job[t] EXCEPT !.cur = job[t].cur + 1])
        /\ Db' = [numrow |-> Db.numrow + 1, row |-> [Db.row EXCEPT ![Db.numrow + 1] = r]]
    BY <1>12 DEF Callback, Step
  <2>2. job'[t].cur = job[t].cur + 1 /\ job'[t].par = job[t].par /\ job'[t].op = job[t].op
    BY <1>0, <2>1 DEF Set, ThreadTypes, Job
  <2>3. t \notin shared
    BY <1>3, <2>1 DEF Zero, Step
  <2>4. Db'.numrow = Db.numrow + 1 /\ Db'.row[Db.numrow + 1] = r
        /\ \A i \in 1..Db.numrow : Db'.row[i] = Db.row[i]
    <3>1. Db.numrow + 1 \in Rows
      BY <2>1, RoomInDb DEF TypeInv
    <3> HIDE DEF r
    <3> QED BY <1>0, <2>1, <3>1
  <2>5. LoadsTable(t)' => TableLoad(t)'
    <3> SUFFICES ASSUME LoadsTable(t)' PROVE TableLoad(t)'
      OBVIOUS
    <3>1. job[t].op # "PARAM" /\ LoadsTable(t)
      BY <2>1, <2>2 DEF LoadsTable
    <3>2. Db.numrow = job[t].cur - 1 /\ \A i \in 1..(job[t].cur - 1) : Db.row[i] = file.sensor[i]
      BY <1>4, <2>1, <2>3, <3>1 DEF TableLoad, RowsRead
    <3>3. r = file.sensor[job[t].cur]
      BY <3>1 DEF Asked
    <3>4. Db'.numrow = job[t].cur /\ Db.numrow + 1 = job[t].cur /\ Db.numrow = job[t].cur - 1
      BY <1>0, <2>4, <3>2
    <3> HIDE DEF r
    <3>5. ASSUME NEW i \in 1..job[t].cur PROVE Db'.row[i] = file.sensor[i]
      <4>1. CASE i = job[t].cur
        BY <2>4, <3>3, <3>4, <4>1
      <4>2. CASE i # job[t].cur
        <5>1. i \in 1..(job[t].cur - 1)
          BY <1>0, <4>2
        <5> QED BY <2>4, <3>2, <3>4, <5>1
      <4> QED BY <4>1, <4>2
    <3>6. job'[t].cur - 1 = job[t].cur
      BY <1>0, <2>2
    <3>7. Db'.numrow = job'[t].cur - 1
          /\ \A i \in 1..(job'[t].cur - 1) : Db'.row[i] = file'.sensor[i]
      BY <2>1, <3>4, <3>5, <3>6
    <3> QED BY <2>1, <3>7 DEF TableLoad, RowsRead
  <2>6. LoadsConfig(t)' => ConfigLoad(t)'
    <3> SUFFICES ASSUME LoadsConfig(t)' PROVE ConfigLoad(t)'
      OBVIOUS
    <3>1. job[t].op = "PARAM" /\ LoadsConfig(t)
      BY <2>1, <2>2 DEF LoadsConfig
    <3>2. /\ Db.numrow = job[t].cur - 1
          /\ \A i \in 1..(job[t].par - 1) :
               ~Bad(i) /\ conf[i] = Kept(Param[i], file.config[i].val)
      BY <1>4, <2>1, <2>3, <3>1 DEF ConfigLoad
    <3>3. Asked(job[t]) = <<file.config[job[t].par]>>
      BY <3>1 DEF Asked
    <3>4. job[t].cur = 1 /\ r = file.config[job[t].par]
      BY <1>0, <2>1, <3>3
    <3> HIDE DEF r
    <3>5. Db'.numrow = job'[t].cur - 1 /\ Db'.row[1] = file.config[job[t].par]
      BY <1>0, <2>2, <2>4, <3>2, <3>4
    <3> QED BY <2>1, <2>2, <3>2, <3>5 DEF ConfigLoad, Bad
  <2> QED BY <2>5, <2>6
<1>13. CASE RowsEnd(t)
  <2>1. /\ pc[t] = "rows" /\ pc'[t] = "copy" /\ UNCHANGED <<conf, file, Db, job>>
        /\ job[t].cur > Len(Asked(job[t]))
    BY <1>0, <1>13 DEF RowsEnd, Step, Goto
  <2>2. t \notin shared /\ job[t].cur <= Len(Asked(job[t])) + 1 /\ Len(Asked(job[t])) \in Nat
    <3>1. Len(Asked(job[t])) \in Nat
      BY <1>0, AskedRows
    <3>2. t \notin shared /\ job[t].cur <= Len(Asked(job[t])) + 1
      BY <1>3, <2>1 DEF Zero, Step, TypeInv, RowsFit
    <3> QED BY <3>1, <3>2
  <2>3. job[t].cur - 1 = Len(Asked(job[t]))
    BY <1>0, <2>1, <2>2
  <2>4. LoadsTable(t)' => TableLoad(t)'
    <3> SUFFICES ASSUME LoadsTable(t)' PROVE TableLoad(t)'
      OBVIOUS
    <3>1. job[t].op # "PARAM" /\ LoadsTable(t)
      BY <2>1 DEF LoadsTable, Loading
    <3>2. RowsRead(Len(file.sensor))
      BY <1>4, <2>1, <2>2, <2>3, <3>1 DEF TableLoad, Asked
    <3> QED BY <2>1, <3>2 DEF TableLoad, RowsRead
  <2>5. LoadsConfig(t)' => ConfigLoad(t)'
    <3> SUFFICES ASSUME LoadsConfig(t)' PROVE ConfigLoad(t)'
      OBVIOUS
    <3>1. job[t].op = "PARAM" /\ LoadsConfig(t)
      BY <2>1 DEF LoadsConfig, Loading
    <3>2. Len(Asked(job[t])) = 1
      BY <3>1 DEF Asked
    <3>3. job[t].cur = 2
      BY <1>0, <2>3, <3>2
    <3>4. \A i : Bad(i)' = Bad(i)
      BY <2>1 DEF Bad
    <3> QED BY <1>4, <2>1, <2>2, <3>1, <3>3, <3>4 DEF ConfigLoad
  <2> QED BY <2>4, <2>5
<1>14. CASE CopyParam(t) /\ pc'[t] # "reply"
  <2> DEFINE n == job[t].par
  <2>1. /\ pc[t] = "copy" /\ pc'[t] = "reset" /\ job[t].op = "PARAM" /\ file' = file
        /\ job'[t].par = n + 1 /\ ~Refused(Param[n], Db.row[1].val)
    BY <1>0, <1>14, CopySteps
  <2>2. ConfigLoad(t)
    <3>1. t \notin shared
      BY <1>3, <2>1 DEF Zero, Step
    <3> QED BY <1>4, <2>1, <3>1 DEF LoadsConfig, Loading
  <2> HIDE DEF n
  <2>3. /\ n \in Nat /\ n = job[t].par
        /\ \A i \in 1..n : conf'[i] = Kept(Param[i], file.config[i].val)
        /\ \A i \in 1..(n - 1) : ~Bad(i)
        /\ ~Bad(n)
    BY <1>0, <1>14, <2>1, <2>2, ParamCopied DEF n
  <2>4. \A i \in 1..n : ~Bad(i) /\ i \in 1..n
    <3> TAKE i \in 1..n
    <3>1. i = n \/ i \in 1..(n - 1)
      BY <2>3
    <3> QED BY <2>3, <3>1
  <2>5. job'[t].par - 1 = n
    BY <2>1, <2>3
  <2>6. \A i \in 1..(job'[t].par - 1) :
          ~Bad(i)' /\ conf'[i] = Kept(Param[i], file'.config[i].val)
    BY <2>1, <2>3, <2>4, <2>5 DEF Bad
  <2>7. job'[t].op = "PARAM"
    BY <1>2, <2>1
  <2> QED BY <2>1, <2>6, <2>7 DEF LoadsTable, ConfigLoad
<1>15. CASE CopyDevices(t)
  <2>1. /\ pc[t] = "copy" /\ pc'[t] = "count" /\ UNCHANGED <<file, Db, job>> /\ job[t].op # "PARAM"
        /\ dev' = [i \in Rows |-> IF i <= Db.numrow THEN Device(Db.row[i], 0) ELSE dev[i]]
    BY <1>0, <1>15 DEF CopyDevices, Step, Goto
  <2>2. t \notin shared
    BY <1>3, <2>1 DEF Zero, Step
  <2>3. RowsRead(Len(file.sensor))
    BY <1>4, <2>1, <2>2 DEF LoadsTable, TableLoad, Loading
  <2>4. \A i \in 1..Len(file.sensor) : dev'[i] = Device(file.sensor[i], 0)
    <3> SUFFICES ASSUME NEW i \in 1..Len(file.sensor) PROVE dev'[i] = Device(file.sensor[i], 0)
      OBVIOUS
    <3>1. i \in Rows /\ i <= Db.numrow /\ Db.row[i] = file.sensor[i]
      BY <1>0, <1>1, <2>3 DEF RowsRead
    <3> QED BY <2>1, <3>1
  <2> QED BY <2>1, <2>3, <2>4 DEF LoadsConfig, TableLoad, RowsRead, DevicesRead
<1>16. CASE CountDevices(t)
  <2>1. /\ pc[t] = "count" /\ pc'[t] = "normal" /\ UNCHANGED <<file, Db, job, dev>>
        /\ number' = Db.numrow /\ job[t].op # "PARAM"
    BY <1>0, <1>16 DEF CountDevices, Step, Goto, PlaceFits
  <2>2. t \notin shared
    BY <1>3, <2>1 DEF Zero, Step
  <2>3. RowsRead(Len(file.sensor)) /\ DevicesRead
    BY <1>4, <2>1, <2>2 DEF LoadsTable, TableLoad, Loading
  <2> QED BY <2>1, <2>3 DEF LoadsConfig, TableLoad, RowsRead, DevicesRead
<1> QED
  BY <1>5, <1>6, <1>7, <1>8, <1>9, <1>10, <1>11, <1>12, <1>13, <1>14, <1>15, <1>16
     DEF DbCall, Loading

LEMMA TableRight ==
    ASSUME TypeInv, MemoryInv, up, NEW t \in Thread, DbCall(t), up'
    PROVE  "table" \in stale' \/ TableInMemory' \/ \E u \in Thread : LoadsTable(u)'
<1>0. /\ ThreadTypes /\ DbTypes /\ FileOk /\ PlaceFits /\ pc \in [Thread -> Place]
      /\ job[t] \in Job
  BY DEF TypeInv, ThreadTypes
<1>1. "table" \in stale \/ TableInMemory \/ \E u \in Thread : LoadsTable(u)
  BY DEF MemoryInv
<1>2. GoesOn(t) /\ (pc[t] # "exec" => job'[t].op = job[t].op)
  BY <1>0, CommandGoesOn DEF GoesOn
<1>3. ASSUME NEW u \in Thread, u # t PROVE LoadsTable(u)' = LoadsTable(u)
  BY <1>0, <1>3, OthersStay DEF LoadsTable
<1>4. ASSUME UNCHANGED <<number, dev, file.sensor>>, "table" \in stale => "table" \in stale',
             LoadsTable(t) => LoadsTable(t)'
      PROVE  "table" \in stale' \/ TableInMemory' \/ \E u \in Thread : LoadsTable(u)'
  BY <1>1, <1>3, <1>4 DEF TableInMemory
<1>5. CASE LoadsTable(t)'
  BY <1>5
<1>6. CASE Zero(t) \/ Write(t) \/ (SelectBusy(t) /\ job[t].op = "PARAM")
  <2>1. UNCHANGED <<number, dev, file>> /\ ("table" \in stale => "table" \in stale')
    BY <1>0, <1>6, BusySteps DEF Zero, Write, Loaded
  <2>2. ~LoadsTable(t)
    BY <1>6 DEF LoadsTable, Loading, Zero, Write, Step
  <2> QED BY <1>4, <2>1, <2>2
<1>7. CASE Commit(t)
  <2>1. /\ pc[t] = "commit" /\ UNCHANGED <<number, dev, stale>>
        /\ \/ file' = file
           \/ /\ file' = Written(job[t]) /\ job' = job
              /\ pc'[t] = IF job[t].op = "PARAM" THEN "reset" ELSE "empty"
    BY <1>0, <1>7 DEF Commit, Step, Goto
  <2>2. ~LoadsTable(t)
    BY <2>1 DEF LoadsTable, Loading
  <2>3. CASE file' = file
    BY <1>4, <2>1, <2>2, <2>3
  <2>4. CASE job[t].op # "PARAM" /\ pc'[t] = "empty" /\ job' = job
    BY <1>5, <2>4 DEF LoadsTable, Loading
  <2>5. CASE job[t].op = "PARAM" /\ file' = Written(job[t])
    <3>1. file'.sensor = file.sensor
      BY <1>0, <2>5, WrittenFile
    <3> QED BY <1>4, <2>1, <2>2, <3>1
  <2> QED BY <2>1, <2>3, <2>4, <2>5
<1>8. CASE Empty(t) \/ CopyDevices(t) \/ CountDevices(t)
  <2>1. pc'[t] \in Loading /\ job' = job /\ job[t].op # "PARAM"
    BY <1>0, <1>8 DEF Empty, CopyDevices, CountDevices, Step, Goto, Loading, PlaceFits
  <2> QED BY <1>5, <2>1 DEF LoadsTable
<1>9. CASE Reset(t) \/ Select(t) \/ Callback(t) \/ RowsEnd(t)
  <2>1. /\ UNCHANGED <<number, dev, file, stale>> /\ pc'[t] \in Loading
        /\ pc[t] # "exec"
    BY <1>0, <1>9 DEF Reset, Select, Callback, RowsEnd, Step, Goto, Loading
  <2>2. LoadsTable(t) => LoadsTable(t)'
    BY <1>2, <2>1 DEF LoadsTable
  <2> QED BY <1>4, <2>1, <2>2
<1>10. CASE SelectBusy(t) /\ job[t].op # "PARAM"
  BY <1>0, <1>10, BusySteps
<1>11. CASE CopyParam(t)
  <2>1. UNCHANGED <<number, dev, file>> /\ job[t].op = "PARAM"
        /\ ("table" \in stale => "table" \in stale')
    BY <1>0, <1>11, CopySteps DEF Loaded
  <2> QED BY <1>4, <2>1 DEF LoadsTable
<1>12. CASE Normalise(t)
  <2>1. /\ pc[t] = "normal" /\ UNCHANGED <<number, file>>
        /\ dev' = [i \in Rows |-> IF i <= number THEN [dev[i] EXCEPT !.div = @ + 1] ELSE dev[i]]
        /\ t \in shared => "table" \in stale'
    BY <1>12 DEF Normalise, Step, Loaded
  <2>2. CASE t \notin shared
    <3>1. number = Len(file.sensor) /\ DevicesRead /\ job[t].op # "PARAM"
      BY <1>0, <2>1, <2>2 DEF MemoryInv, LoadsTable, TableLoad, Loading, PlaceFits
    <3>2. number \in Nat /\ number <= 2 * Limit /\ Rows = 1..MaxRows /\ MaxRows \in Nat /\ 2 * Limit <= MaxRows /\ Limit \in Nat
      BY <1>0, Given DEF DbTypes
    <3>3. ASSUME NEW i \in 1..number PROVE dev'[i] = Device(file.sensor[i], 1)
      <4>1. i \in Rows /\ i <= number
        BY <3>2
      <4>2. dev[i] = Device(file.sensor[i], 0)
        BY <3>1 DEF DevicesRead
      <4>3. dev'[i] = [dev[i] EXCEPT !.div = @ + 1]
        BY <2>1, <4>1
      <4> QED BY <4>2, <4>3 DEF Device
    <3> QED BY <2>1, <3>1, <3>3 DEF TableInMemory
  <2> QED BY <2>1, <2>2
<1> QED
  BY <1>6, <1>7, <1>8, <1>9, <1>10, <1>11, <1>12 DEF DbCall

LEMMA ConfigRight ==
    ASSUME TypeInv, Overlaps, MemoryInv, up, NEW t \in Thread, DbCall(t), up'
    PROVE  "conf" \in stale' \/ ConfigInMemory' \/ \E u \in Thread : LoadsConfig(u)'
<1>0. /\ ThreadTypes /\ DbTypes /\ FileOk /\ PlaceFits /\ pc \in [Thread -> Place]
      /\ job[t] \in Job
  BY DEF TypeInv, ThreadTypes
<1>1. "conf" \in stale \/ ConfigInMemory \/ \E u \in Thread : LoadsConfig(u)
  BY DEF MemoryInv
<1>2. GoesOn(t) /\ (pc[t] # "exec" => job'[t].op = job[t].op)
  BY <1>0, CommandGoesOn DEF GoesOn
<1>3. ASSUME NEW u \in Thread, u # t PROVE LoadsConfig(u)' = LoadsConfig(u)
  BY <1>0, <1>3, OthersStay DEF LoadsConfig
<1>4. ASSUME UNCHANGED <<conf, file.config>>, "conf" \in stale => "conf" \in stale',
             LoadsConfig(t) => LoadsConfig(t)'
      PROVE  "conf" \in stale' \/ ConfigInMemory' \/ \E u \in Thread : LoadsConfig(u)'
  <2>1. ConfigInMemory => ConfigInMemory'
    BY <1>4 DEF ConfigInMemory, Reached, Bad
  <2> QED BY <1>1, <1>3, <1>4, <2>1
<1>5. CASE LoadsConfig(t)'
  BY <1>5
<1>6. CASE Zero(t) \/ Write(t)
  <2>1. UNCHANGED <<conf, file, stale>> /\ ~LoadsConfig(t)
    BY <1>6 DEF Zero, Write, LoadsConfig, Loading, Step
  <2> QED BY <1>4, <2>1
<1>7. CASE Commit(t)
  <2>1. /\ pc[t] = "commit" /\ UNCHANGED <<conf, stale>>
        /\ job[t].op \in {"RMV", "UPD", "PARAM"}
        /\ \/ file' = file
           \/ /\ file' = Written(job[t]) /\ job' = job
              /\ pc'[t] = IF job[t].op = "PARAM" THEN "reset" ELSE "empty"
    BY <1>0, <1>7 DEF Commit, Step, Goto, PlaceFits, InDbPlace
  <2>2. ~LoadsConfig(t)
    BY <2>1 DEF LoadsConfig, Loading
  <2>3. CASE file' = file
    BY <1>4, <2>1, <2>2, <2>3
  <2>4. CASE job[t].op = "PARAM" /\ pc'[t] = "reset" /\ job' = job
    BY <1>5, <2>4 DEF LoadsConfig, Loading
  <2>5. CASE job[t].op # "PARAM" /\ file' = Written(job[t])
    <3>1. file'.config = file.config
      BY <1>0, <2>1, <2>5, WrittenFile
    <3> QED BY <1>4, <2>1, <2>2, <3>1
  <2> QED BY <2>1, <2>3, <2>4, <2>5
<1>8. CASE Empty(t) \/ CopyDevices(t) \/ CountDevices(t) \/ Normalise(t)
  <2>1. UNCHANGED <<conf, file>> /\ job[t].op # "PARAM" /\ ("conf" \in stale => "conf" \in stale')
    BY <1>0, <1>8 DEF Empty, CopyDevices, CountDevices, Normalise, Loaded, Step, PlaceFits
  <2> QED BY <1>4, <2>1 DEF LoadsConfig
<1>9. CASE Reset(t) \/ Select(t) \/ Callback(t) \/ RowsEnd(t)
  <2>1. /\ UNCHANGED <<conf, file, stale>> /\ pc'[t] \in Loading
        /\ pc[t] # "exec"
    BY <1>0, <1>9 DEF Reset, Select, Callback, RowsEnd, Step, Goto, Loading
  <2>2. LoadsConfig(t) => LoadsConfig(t)'
    BY <1>2, <2>1 DEF LoadsConfig
  <2> QED BY <1>4, <2>1, <2>2
<1>10. CASE SelectBusy(t)
  <2>1. /\ UNCHANGED <<conf, file>> /\ t \in shared /\ job'[t].op = job[t].op
        /\ \/ job[t].op # "PARAM" /\ stale' = stale
           \/ job[t].op = "PARAM" /\ pc'[t] = "reset"
           \/ stale' = stale \cup {"conf"} \/ Loaded(t, "conf")
    BY <1>0, <1>2, <1>10, BusySteps, BusyIsShared DEF Step
  <2>2. CASE job[t].op # "PARAM" /\ stale' = stale
    BY <1>4, <2>1, <2>2 DEF LoadsConfig
  <2>3. CASE job[t].op = "PARAM" /\ pc'[t] = "reset"
    BY <1>5, <2>1, <2>3 DEF LoadsConfig, Loading
  <2>4. CASE stale' = stale \cup {"conf"} \/ Loaded(t, "conf")
    BY <2>1, <2>4 DEF Loaded
  <2> QED BY <2>1, <2>2, <2>3, <2>4
<1>11. CASE CopyParam(t) /\ pc'[t] # "reply"
  <2>1. pc'[t] = "reset" /\ job'[t].op = "PARAM"
    BY <1>0, <1>2, <1>11, CopySteps
  <2> QED BY <1>5, <2>1 DEF LoadsConfig, Loading
<1>12. CASE CopyParam(t) /\ pc'[t] = "reply"
  <2> DEFINE n == job[t].par
  <2>1. /\ pc[t] = "copy" /\ job[t].op = "PARAM" /\ file' = file /\ Loaded(t, "conf")
        /\ Refused(Param[n], Db.row[1].val) \/ n = Len(Param)
    BY <1>0, <1>12, CopySteps
  <2>2. CASE t \in shared
    BY <2>1, <2>2 DEF Loaded
  <2>3. CASE t \notin shared
    <3>1. ConfigLoad(t)
      BY <2>1, <2>3 DEF MemoryInv, LoadsConfig, Loading
    <3> HIDE DEF n
    <3>2. /\ n \in 1..Len(Param) /\ DOMAIN Param = 1..Len(Param) /\ Len(Param) \in Nat
          /\ \A i \in 1..n : conf'[i] = Kept(Param[i], file.config[i].val)
          /\ Bad(n) \/ n = Len(Param)
      BY <1>0, <1>12, <2>1, <3>1, ParamCopied DEF n
    <3>3. ASSUME NEW i \in DOMAIN Param, Reached(i)
          PROVE  conf'[i] = Kept(Param[i], file.config[i].val)
      <4>1. i \in 1..n \/ n \in 1..(i - 1)
        <5>1. i \in 1..Len(Param) /\ n \in 1..Len(Param) /\ Len(Param) \in Nat
          BY <3>2
        <5> QED BY <5>1
      <4>2. i \in 1..n
        BY <3>2, <3>3, <4>1 DEF Reached
      <4> QED BY <3>2, <4>2
    <3>4. \A i : Reached(i)' = Reached(i)
      BY <2>1 DEF Reached, Bad
    <3> QED BY <2>1, <3>3, <3>4 DEF ConfigInMemory
  <2> QED BY <2>2, <2>3
<1> QED
  BY <1>6, <1>7, <1>8, <1>9, <1>10, <1>11, <1>12 DEF DbCall

LEMMA MemoryStep ==
    ASSUME TypeInv, Overlaps, MemoryInv, [Next]_vars
    PROVE  MemoryInv'
<1> USE TwoThreads
<1>0. ThreadTypes /\ DbTypes /\ pc \in [Thread -> Place] /\ FirstParam'
  BY FirstParamStep DEF TypeInv, ThreadTypes, MemoryInv
<1>1. ASSUME NEW t \in Thread, DbCall(t) PROVE MemoryInv'
  <2>1. up
    BY <1>1 DEF DbCall, Zero, Write, Commit, Empty, Reset, Select, SelectBusy, Callback,
           RowsEnd, CopyParam, NextParam, CopyDevices, CountDevices, Normalise, Step
  <2>2. Running'
    <3>1. CASE SelectBusy(t)
      BY <3>1, BusyIsShared DEF Running
    <3>2. CASE ~SelectBusy(t)
      <4>1. up' = up
        BY <1>1, <3>2 DEF DbCall, Zero, Write, Commit, Empty, Reset, Select, Callback,
               RowsEnd, CopyParam, NextParam, CopyDevices, CountDevices, Normalise
      <4> QED BY <2>1, <4>1 DEF Running
    <3> QED BY <3>1, <3>2
  <2>3. ASSUME NEW u \in Thread \ shared'
        PROVE  (LoadsTable(u)' => TableLoad(u)') /\ (LoadsConfig(u)' => ConfigLoad(u)')
    <3>1. CASE u = t
      BY <1>1, <3>1, <2>3, OwnLoad
    <3>2. CASE u # t
      <4>1. pc'[u] = pc[u] /\ job'[u] = job[u] /\ u \notin shared /\ (InDb(u) => UNCHANGED dbVars)
        BY <1>0, <1>1, <2>3, <3>2, OthersStay, OthersWork
      <4>2. (LoadsTable(u) => TableLoad(u)) /\ (LoadsConfig(u) => ConfigLoad(u))
        BY <4>1 DEF MemoryInv
      <4>3. pc[u] \in Loading => InDb(u)
        BY DEF Loading, InDb
      <4> QED
        BY <4>1, <4>2, <4>3
           DEF dbVars, LoadsTable, LoadsConfig, TableLoad, ConfigLoad, RowsRead, DevicesRead, Bad
    <3> QED BY <3>1, <3>2
  <2>4. LoadsRight'
    BY <2>3 DEF LoadsRight
  <2>5. MemoryRight'
    BY <1>1, <2>1, TableRight, ConfigRight DEF MemoryRight
  <2> QED BY <1>0, <2>2, <2>4, <2>5 DEF MemoryInv, LoadsRight, MemoryRight
<1>2. ASSUME UNCHANGED <<dbVars, shared>>,
             \A t \in Thread : \/ pc'[t] = pc[t] /\ job'[t] = job[t]
                               \/ pc'[t] \notin Loading /\ pc[t] \notin Loading
      PROVE  MemoryInv'
  <2>1. Running' /\ LoadsRight' /\ MemoryRight'
    BY <1>2, MemoryStays
  <2> QED BY <1>0, <2>1 DEF MemoryInv, LoadsRight, MemoryRight
<1>3. ASSUME NEW t \in Thread, ExecCommand(t) \/ Send(t) PROVE MemoryInv'
  <2>1. \A u \in Thread : u # t => pc'[u] = pc[u] /\ job'[u] = job[u]
    BY <1>0, <1>3, OthersStay
  <2>2. pc[t] \notin Loading /\ pc'[t] \notin Loading
    BY <1>0, <1>3
       DEF ExecCommand, Clear, Fill, Exec, NameOf, Find, Reply, Send, Step, Answer, Goto, Loading
  <2>3. UNCHANGED <<dbVars, shared>>
    BY <1>3, ExecFrame
  <2> QED BY <1>2, <2>1, <2>2, <2>3
<1>4. CASE TakeLine \/ GestRiMMSNet \/ Acknowledge
  <2>1. UNCHANGED <<dbVars, shared>>
    BY <1>4, OuterFrame DEF GestSMComunication
  <2>2. PICK t \in Thread : /\ pc[t] \in {"idle", "ack"} /\ pc'[t] \in {"clear", "send"}
                            /\ \A u \in Thread : u # t => pc'[u] = pc[u] /\ job'[u] = job[u]
    <3> DEFINE Moved(t) == /\ pc[t] \in {"idle", "ack"} /\ pc'[t] \in {"clear", "send"}
                           /\ \A u \in Thread : u # t => pc'[u] = pc[u] /\ job'[u] = job[u]
    <3>1. CASE TakeLine
      <4>1. Moved("RiMMS")
        BY <1>0, <3>1 DEF TakeLine, Begin, Goto, Set, ThreadTypes
      <4> QED BY <4>1
    <3>2. CASE GestRiMMSNet
      <4>1. Moved("comunication")
        BY <1>0, <3>2 DEF GestRiMMSNet, TakeDatagram, Begin, Goto, Set, ThreadTypes
      <4> QED BY <4>1
    <3>3. CASE Acknowledge
      <4>1. Moved("RiMMS")
        BY <1>0, <3>3 DEF Acknowledge, Step, Goto, ThreadTypes
      <4> QED BY <4>1
    <3> QED BY <1>4, <3>1, <3>2, <3>3
  <2>3. pc[t] \notin Loading /\ pc'[t] \notin Loading
    BY <2>2 DEF Loading
  <2> QED BY <1>2, <2>1, <2>2, <2>3
<1>5. CASE Web \/ TakeByte \/ UNCHANGED vars
  <2>1. UNCHANGED <<pc, job>>
    BY <1>5 DEF Web, WebStart, WebWrite, WebEnd, WebDies, TakeByte, vars
  <2>2. UNCHANGED <<dbVars, shared>>
    BY <1>5, OuterFrame DEF GestSMComunication, vars
  <2> QED BY <1>2, <2>1, <2>2
<1>6. CASE Restart
  <2>1. /\ FromFile /\ \A t \in Thread : pc'[t] = "idle"
        /\ file' = file
    BY <1>6 DEF Restart, Fresh
  <2>2. TableInMemory'
    <3>1. Len(file.sensor) \in Nat /\ Len(file.sensor) <= Limit /\ Limit \in Nat
          /\ Rows = 1..MaxRows /\ MaxRows \in Nat /\ 2 * Limit <= MaxRows
      BY Given DEF TypeInv, FileOk
    <3>2. \A i \in 1..Len(file.sensor) : i \in Rows /\ i <= Len(file.sensor)
      BY <3>1
    <3> QED BY <2>1, <3>2 DEF FromFile, TableInMemory
  <2>3. ConfigInMemory'
    BY <2>1 DEF FromFile, ConfigInMemory
  <2>5. Running'
    BY <2>1 DEF FromFile, Running, Bad
  <2>4. \A t \in Thread : ~LoadsTable(t)' /\ ~LoadsConfig(t)'
    BY <2>1 DEF LoadsTable, LoadsConfig, Loading
  <2> QED BY <1>0, <2>1, <2>2, <2>3, <2>4, <2>5 DEF MemoryInv
<1> QED
  BY <1>1, <1>3, <1>4, <1>5, <1>6 DEF Next, GestSMComunication

LEMMA MemoryIs ==
    ASSUME TypeInv, MemoryInv
    PROVE  MemoryIsFile
<1>1. \A t \in Thread : ~InDb(t) => ~LoadsTable(t) /\ ~LoadsConfig(t)
  BY DEF InDb, LoadsTable, LoadsConfig, Loading
<1> QED BY <1>1 DEF MemoryInv, MemoryIsFile, TableInMemory, ConfigInMemory, Running

-----------------------------------------------------------------------------
(* The devices in memory are searched for what is in the table. *)
LEMMA TableSearch ==
    ASSUME DbTypes, FileOk, TableInMemory, NEW a
    PROVE  /\ Found(a) <=> a \in IdsIn(file.sensor)
           /\ Found(a) => {dev[Slot(a)].val} = ValIn(file.sensor, a)
<1> DEFINE rows == file.sensor
<1>1. /\ number = Len(rows) /\ Len(rows) \in Nat /\ DOMAIN rows = 1..Len(rows) /\ OneRowEach(rows)
      /\ \A i \in 1..Len(rows) : dev[i] = Device(rows[i], 1)
  BY DEF TableInMemory, FileOk
<1> HIDE DEF rows
<1>2. \A i \in 1..Len(rows) : dev[i].key = rows[i].key /\ dev[i].val = rows[i].val
  <2> TAKE i \in 1..Len(rows)
  <2>1. dev[i] = Device(rows[i], 1)
    BY <1>1
  <2> QED BY <2>1 DEF Device
<1>3. Found(a) <=> a \in IdsIn(rows)
  BY <1>1, <1>2 DEF Found, IdsIn
<1>4. ASSUME Found(a) PROVE {dev[Slot(a)].val} = ValIn(rows, a)
  <2>1. Slot(a) \in 1..Len(rows) /\ dev[Slot(a)].key = a
    BY <1>1, <1>4, FirstSlot
  <2> DEFINE n == Slot(a)
  <2>2. n \in DOMAIN rows /\ rows[n].key = a /\ dev[n].val = rows[n].val
    BY <1>1, <1>2, <2>1
  <2> HIDE DEF n
  <2>3. {j \in DOMAIN rows : rows[j].key = a} = {n}
    BY <1>1, <2>2 DEF OneRowEach
  <2>4. ValIn(rows, a) = {rows[n].val}
    BY <2>3 DEF ValIn
  <2> QED BY <2>2, <2>4 DEF n
<1> QED BY <1>3, <1>4 DEF rows

(* While no command of the other thread runs, the table in memory is good. *)
LEMMA OnItsOwn ==
    ASSUME TypeInv, Overlaps, MemoryInv, NEW t \in Thread, Busy(t), t \notin mixed
    PROVE  /\ ~Busy(Other(t)) /\ lock[Other(t)] = "none"
           /\ InDb(t) => t \notin shared
           /\ up /\ "table" \notin stale /\ pc[t] \notin Loading => TableInMemory
<1>1. mixed \subseteq Thread /\ Other(t) \in Thread /\ \A u \in Thread : u = t \/ u = Other(t)
  BY TwoThreads DEF TypeInv, ThreadTypes
<1>2. ~Busy(Other(t))
  BY TwoThreads DEF Overlaps, Thread
<1>3. pc[Other(t)] = "idle"
  BY <1>2 DEF Busy
<1>4. lock[Other(t)] = "none"
  BY <1>1, <1>3 DEF TypeInv, PlaceFits, DbTypes
<1>5. InDb(t) => t \notin shared
  BY DEF Overlaps
<1>6. up /\ "table" \notin stale /\ pc[t] \notin Loading => TableInMemory
  BY <1>1, <1>3 DEF MemoryInv, LoadsTable, Loading
<1> QED BY <1>2, <1>4, <1>5, <1>6

(* A thread that has its answer. *)
LEMMA ReplyTold ==
    ASSUME NEW t \in Thread, pc'[t] = "reply", job'[t].sure => "table" \notin stale',
           NEW res, job'[t].res = res, Right(t, res)'
    PROVE  ToldRight(t)'
<1>1. Right(t, job[t].res)'
  OBVIOUS
<1> QED BY <1>1 DEF ToldRight, InDbPlace, Loading

LEMMA ExecTold ==
    ASSUME TypeInv, Overlaps, MemoryInv, NEW t \in Thread, ExecCommand(t),
           Busy(t), t \notin mixed, ToldRight(t)
    PROVE  ToldRight(t)'
<1>0. /\ ThreadTypes /\ DbTypes /\ FileOk /\ PlaceFits /\ pc \in [Thread -> Place]
      /\ job[t] \in Job /\ job[t].text \in Seq(Field)
  BY DEF TypeInv, ThreadTypes, Job
<1>1. UNCHANGED <<Db, file, lock, dev, number, conf, up, stale>> /\ up
  <2>1. UNCHANGED dbVars
    BY ExecFrame
  <2>2. up
    BY DEF ExecCommand, Clear, Fill, Exec, NameOf, Find, Reply, Step
  <2> QED BY <2>1, <2>2 DEF dbVars
<1>2. GoesOn(t)
  BY <1>0, CommandGoesOn
<1>3. /\ job'[t].text = job[t].text /\ job'[t].sure = job[t].sure
      /\ pc[t] # "exec" =>
           job'[t].op = job[t].op /\ job'[t].a = job[t].a /\ job'[t].b = job[t].b
  BY <1>2 DEF GoesOn
<1>4. job'[t].sure => "table" \notin stale'
  BY <1>1, <1>3 DEF ToldRight
<1>5. "table" \notin stale /\ pc[t] \notin Loading => TableInMemory
  BY <1>1, OnItsOwn
<1>6. CASE Clear(t)
  <2>1. pc'[t] = "fill" /\ parser' = [i \in 1..Longest |-> Blank]
    BY <1>0, <1>6 DEF Clear, Goto
  <2> QED BY <1>4, <2>1 DEF ToldRight, InDbPlace, Loading
<1>7. CASE Fill(t)
  <2>1. /\ pc[t] = "fill" /\ pc'[t] = "exec" /\ job' = job
        /\ parser' = [i \in 1..Longest |->
                        IF i <= Len(job[t].text) THEN job[t].text[i] ELSE parser[i]]
    BY <1>0, <1>7 DEF Fill, Goto, Step
  <2>2. parser = [i \in 1..Longest |-> Blank]
    BY <2>1 DEF ToldRight
  <2>3. parser' = [i \in 1..Longest |-> Word(job[t].text, i)]
    BY <2>1, <2>2 DEF Word
  <2> QED BY <1>4, <2>1, <2>3 DEF ToldRight, InDbPlace, Loading, Word
<1>8. CASE Exec(t)
  <2> DEFINE text == job[t].text
             op == Word(text, 1)
  <2>1. /\ pc[t] = "exec" /\ op = parser[1] /\ parser[2] = Word(text, 2) /\ parser[3] = Word(text, 3)
    <3>1. pc[t] = "exec" /\ parser = [i \in 1..Longest |-> Word(text, i)]
      BY <1>8 DEF Exec, Step, ToldRight
    <3> QED BY <3>1 DEF Longest
  <2>2. \/ op = "PING" /\ Answer(t, "OK")
        \/ op # "PING" /\ op \notin DOMAIN Needs /\ Answer(t, "ERROR")
        \/ op \in DOMAIN Needs /\ Len(text) < Needs[op] /\ Answer(t, "PARAMERR")
        \/ /\ op \in DOMAIN Needs /\ Len(text) >= Needs[op]
           /\ Set(t, [job[t] EXCEPT !.op = parser[1], !.a = parser[2], !.b = parser[3]])
           /\ Goto(t, CASE op = "NAME" -> "name" [] op = "PARAM" -> "zero" [] OTHER -> "find")
    BY <1>8, <2>1 DEF Exec
  <2>3. op \in DOMAIN Needs => op # "PING" /\ Needs[op] \in {2, 3} /\ op \in {"NAME", "RMV", "ADD", "UPD", "PARAM"}
    BY DEF Needs
  <2> HIDE DEF op, text
  <2>4. Len(text) \in Nat
    BY <1>0 DEF text
  <2>5. ASSUME NEW res \in Result, Answer(t, res),
               ~(op \in DOMAIN Needs /\ Len(text) >= Needs[op]),
               res = CASE op = "PING" -> "OK"
                       [] op \in DOMAIN Needs -> "PARAMERR"
                       [] OTHER -> "ERROR"
        PROVE  ToldRight(t)'
    <3>1. pc'[t] = "reply" /\ job'[t].res = res /\ job'[t].text = text
      BY <1>0, <2>5, Answered DEF text
    <3>2. Right(t, res)'
      BY <2>5, <3>1 DEF Right, op
    <3> QED BY <1>4, <3>1, <3>2, ReplyTold
  <2>6. CASE op = "PING" /\ Answer(t, "OK")
    BY <2>3, <2>5, <2>6, ResultFacts
  <2>7. CASE op # "PING" /\ op \notin DOMAIN Needs /\ Answer(t, "ERROR")
    BY <2>3, <2>5, <2>7, ResultFacts
  <2>8. CASE op \in DOMAIN Needs /\ Len(text) < Needs[op] /\ Answer(t, "PARAMERR")
    <3>1. op # "PING" /\ ~(Len(text) >= Needs[op])
      BY <2>3, <2>4, <2>8
    <3> QED BY <2>5, <2>8, <3>1, ResultFacts
  <2>9. CASE /\ op \in DOMAIN Needs /\ Len(text) >= Needs[op]
             /\ Set(t, [job[t] EXCEPT !.op = parser[1], !.a = parser[2], !.b = parser[3]])
             /\ Goto(t, CASE op = "NAME" -> "name" [] op = "PARAM" -> "zero" [] OTHER -> "find")
    <3> DEFINE p == CASE op = "NAME" -> "name" [] op = "PARAM" -> "zero" [] OTHER -> "find"
    <3>1. p \in {"name", "zero", "find"} /\ p \in Place /\ (p = "name" <=> op = "NAME")
          /\ (p = "zero" => op = "PARAM")
      BY DEF Place
    <3>2. Goto(t, p)
      BY <2>9
    <3> HIDE DEF p
    <3>3. /\ pc' = [pc EXCEPT ![t] = p] /\ job'[t].op = parser[1] /\ job'[t].a = parser[2]
          /\ job'[t].b = parser[3] /\ job'[t].text = text
      BY <1>0, <2>9, <3>1, <3>2, ExecReads DEF text
    <3>4. pc'[t] = p
      BY <1>0, <3>3
    <3>5. Whole(job'[t].text)
      BY <2>9, <3>3 DEF Whole, op
    <3>6. /\ job'[t].op = Word(job'[t].text, 1) /\ job'[t].a = Word(job'[t].text, 2)
          /\ job'[t].b = Word(job'[t].text, 3) /\ job'[t].op = op
      BY <2>1, <3>3 DEF op
    <3>7. Whole(job[t].text)' /\ Word(job[t].text, 1)' = Word(job'[t].text, 1)
          /\ Word(job[t].text, 2)' = Word(job'[t].text, 2)
          /\ Word(job[t].text, 3)' = Word(job'[t].text, 3)
      BY <3>5 DEF Whole, Word
    <3> QED BY <1>4, <3>1, <3>4, <3>5, <3>6, <3>7 DEF ToldRight, InDbPlace, Loading
  <2> QED BY <2>2, <2>6, <2>7, <2>8, <2>9
<1>9. CASE NameOf(t)
  <2> DEFINE text == job[t].text
             a == job[t].a
  <2>1. /\ pc[t] = "name" /\ Whole(text) /\ a = Word(text, 2)
        /\ Word(text, 1) = "NAME" /\ pc[t] \notin Loading
    BY <1>9 DEF NameOf, Step, ToldRight, Loading
  <2>2. PICK res \in Result :
          Answer(t, res) /\ res = IF Found(a) THEN dev[Slot(a)].val ELSE "ERRID"
    <3>1. Found(a) => dev[Slot(a)].val \in Result
      BY <1>0, FirstSlot, ResultFacts, Given DEF DbTypes
    <3> QED BY <1>9, <3>1, ResultFacts DEF NameOf
  <2>3. "table" \notin stale => IF a \in IdsIn(file.sensor)
                                THEN {res} = ValIn(file.sensor, a) ELSE res = "ERRID"
    BY <1>0, <1>5, <2>1, <2>2, TableSearch
  <2>4. pc'[t] = "reply" /\ job'[t].res = res /\ job'[t].text = text
    BY <1>0, <2>2, Answered
  <2> HIDE DEF a, text
  <2>5. Right(t, res)'
    BY <1>1, <2>1, <2>3, <2>4 DEF Right, Whole, Found
  <2> QED BY <1>4, <2>4, <2>5, ReplyTold
<1>10. CASE Find(t)
  <2> DEFINE text == job[t].text
             a == job[t].a
  <2>1. /\ pc[t] = "find" /\ Whole(text) /\ job[t].op = Word(text, 1) /\ a = Word(text, 2)
        /\ job[t].b = Word(text, 3)
        /\ job[t].op \in {"ADD", "RMV", "UPD"} /\ pc[t] \notin Loading
    BY <1>0, <1>10 DEF Find, Step, ToldRight, Loading, PlaceFits, InDbPlace
  <2>2. "table" \notin stale => (Found(a) <=> a \in IdsIn(file.sensor))
    BY <1>0, <1>5, <2>1, TableSearch
  <2>3. CASE Found(a) = (job[t].op = "ADD")
    <3>1. Answer(t, "DBERR") /\ "DBERR" \in Result
      BY <1>10, <2>3, ResultFacts DEF Find
    <3>2. pc'[t] = "reply" /\ job'[t].res = "DBERR" /\ job'[t].text = text
      BY <1>0, <3>1, Answered
    <3>3. Found(a)' = Found(a)
      BY <1>1, <1>3, <2>1 DEF Found
    <3>4. job[t].op # "ADD" => ~Found(a)
      BY <2>3
    <3>5. Word(text, 1) # "PARAM" /\ Word(text, 1) # "NAME" /\ (Word(text, 1) # "ADD" => ~Found(a))
          /\ Word(text, 2) = a
      BY <2>1, <3>4
    <3> HIDE DEF text, a
    <3>6. (\E i \in 1..number' : dev'[i].key = a) = Found(a)
      BY <1>1 DEF Found
    <3>7. Right(t, "DBERR")'
      BY <1>1, <2>1, <2>2, <3>2, <3>5, <3>6 DEF Right, Whole, Found
    <3> QED BY <1>4, <3>2, <3>7, ReplyTold
  <2>4. CASE Found(a) # (job[t].op = "ADD")
    <3>1. pc'[t] = "zero" /\ job' = job
      BY <1>0, <1>10, <2>4 DEF Find, Goto
    <3>2. job[t].op = "UPD" /\ job[t].sure => a \in IdsIn(file.sensor)
      <4>1. Found(a) \in BOOLEAN
        BY DEF Found
      <4>2. job[t].sure => "table" \notin stale
        BY DEF ToldRight
      <4> QED BY <2>2, <2>4, <4>1, <4>2
    <3> QED BY <1>1, <1>4, <2>1, <3>1, <3>2 DEF ToldRight, InDbPlace, Loading, Whole, Word
  <2> QED BY <2>3, <2>4
<1>11. CASE Reply(t)
  <2>1. /\ pc[t] = "reply" /\ pc'[t] \in {"ack", "send"} /\ job' = job
        /\ response' = [job[t] EXCEPT !.cur = 1, !.par = 1, !.sure = TRUE]
    BY <1>0, <1>11 DEF Reply, Step, Goto
  <2>2. response'.text = job[t].text /\ response'.res = job[t].res
    <3>1. 1 \in DOMAIN Param
      BY Given
    <3> QED BY <1>0, <2>1, <3>1, ReplySays
  <2>3. Right(t, job[t].res)
    BY <2>1 DEF ToldRight
  <2>4. Right(t, response.res)'
    BY <1>1, <2>1, <2>2, <2>3 DEF Right, Found, Reached, Bad
  <2> QED BY <1>4, <2>1, <2>2, <2>4 DEF ToldRight, InDbPlace, Loading
<1> QED BY <1>6, <1>7, <1>8, <1>9, <1>10, <1>11 DEF ExecCommand

(* A thread that goes on with its work on the database. *)
LEMMA WorkTold ==
    ASSUME TypeInv, NEW t \in Thread, DbCall(t), ToldRight(t), pc'[t] \in InDbPlace,
           "table" \in stale' => "table" \in stale,
           job[t].op = "UPD" /\ job[t].sure => job[t].a \in IdsIn(file'.sensor),
           pc'[t] \in Loading =>
             /\ job[t].op = "UPD" => ValIn(file'.sensor, job[t].a) \subseteq {job[t].b}
             /\ job[t].op = "RMV" => job[t].a \notin IdsIn(file'.sensor)
             /\ job[t].op = "PARAM" => \A i \in DOMAIN Param :
                                         Param[i] = job[t].a => file'.config[i].val = job[t].b
    PROVE  ToldRight(t)'
<1>0. pc[t] \in {"zero"} \cup InDbPlace
  BY DEF DbCall, Zero, Write, Commit, Empty, Reset, Select, SelectBusy, Callback,
         RowsEnd, CopyParam, NextParam, CopyDevices, CountDevices, Normalise, Step, InDbPlace, Loading
<1>1. /\ job'[t].text = job[t].text /\ job'[t].sure = job[t].sure
      /\ job'[t].op = job[t].op /\ job'[t].a = job[t].a /\ job'[t].b = job[t].b
  BY <1>0, CommandGoesOn DEF GoesOn, TypeInv, InDbPlace, Loading
<1>2. /\ Whole(job[t].text) /\ job[t].op = Word(job[t].text, 1) /\ job[t].a = Word(job[t].text, 2)
      /\ job[t].b = Word(job[t].text, 3) /\ job[t].op # "NAME"
      /\ job[t].sure => "table" \notin stale
  <2>1. pc[t] # "name"
    BY <1>0 DEF InDbPlace, Loading
  <2> QED BY <1>0, <2>1 DEF ToldRight
<1>3. /\ Whole(job[t].text)' /\ Word(job[t].text, 1)' = job[t].op
      /\ Word(job[t].text, 2)' = job[t].a /\ Word(job[t].text, 3)' = job[t].b
  BY <1>1, <1>2 DEF Whole, Word
<1>4. pc'[t] \notin {"fill", "exec", "name", "reply", "ack", "send"}
  BY DEF InDbPlace, Loading
<1>5. IdsIn(file.sensor)' = IdsIn(file'.sensor)
      /\ ValIn(file.sensor, job[t].a)' = ValIn(file'.sensor, job[t].a)
  BY <1>1 DEF IdsIn, ValIn
<1>6. job'[t].sure => "table" \notin stale'
  BY <1>1, <1>2
<1> QED BY <1>1, <1>2, <1>3, <1>4, <1>5, <1>6 DEF ToldRight

LEMMA DbTold ==
    ASSUME TypeInv, TypeInv', Overlaps, MemoryInv, NEW t \in Thread, DbCall(t),
           Busy(t), t \notin mixed, ToldRight(t)
    PROVE  ToldRight(t)'
<1>0. /\ ThreadTypes /\ DbTypes /\ FileOk /\ PlaceFits /\ pc \in [Thread -> Place]
      /\ job[t] \in Job
  BY DEF TypeInv, ThreadTypes
<1>1. lock[Other(t)] = "none" /\ (InDb(t) => t \notin shared)
  BY OnItsOwn
<1>2. pc[t] \in {"zero"} \cup InDbPlace
  BY DEF DbCall, Zero, Write, Commit, Empty, Reset, Select, SelectBusy, Callback,
         RowsEnd, CopyParam, NextParam, CopyDevices, CountDevices, Normalise, Step, InDbPlace, Loading
<1>3. /\ job'[t].text = job[t].text /\ job'[t].sure = job[t].sure
      /\ job'[t].op = job[t].op /\ job'[t].a = job[t].a /\ job'[t].b = job[t].b
  BY <1>0, <1>2, CommandGoesOn DEF GoesOn, InDbPlace, Loading
<1>4. /\ Whole(job[t].text) /\ job[t].op = Word(job[t].text, 1) /\ job[t].a = Word(job[t].text, 2)
      /\ job[t].b = Word(job[t].text, 3) /\ job[t].op # "NAME"
      /\ job[t].op = "UPD" /\ job[t].sure => job[t].a \in IdsIn(file.sensor)
      /\ job[t].sure => "table" \notin stale
  <2>1. pc[t] # "name"
    BY <1>2 DEF InDbPlace, Loading
  <2> QED BY <1>2, <2>1 DEF ToldRight
<1>5. pc[t] \in Loading =>
        /\ job[t].op = "UPD" => ValIn(file.sensor, job[t].a) \subseteq {job[t].b}
        /\ job[t].op = "RMV" => job[t].a \notin IdsIn(file.sensor)
        /\ job[t].op = "PARAM" => \A i \in DOMAIN Param :
                                    Param[i] = job[t].a => file.config[i].val = job[t].b
  BY DEF ToldRight
<1>6. CASE Zero(t) \/ Write(t)
  <2>1. UNCHANGED <<file, stale>> /\ pc[t] \in {"zero", "write"}
    BY <1>6 DEF Zero, Write, Step
  <2>2. CASE pc'[t] = "reply"
    <3>1. job[t].op = "ADD" /\ Answer(t, "DBERR") /\ "DBERR" \in Result
      BY <1>0, <1>1, <1>6, <2>2, ResultFacts DEF Zero, Write, Goto
    <3>2. job'[t].res = "DBERR"
      BY <1>0, <3>1, Answered
    <3>3. Word(job[t].text, 1)' = "ADD" /\ Whole(job[t].text)'
      BY <1>3, <1>4, <3>1 DEF Word, Whole
    <3>4. Right(t, "DBERR")'
      BY <3>3 DEF Right, Whole
    <3> QED BY <1>3, <1>4, <2>1, <2>2, <3>2, <3>4, ReplyTold
  <2>3. CASE pc'[t] # "reply"
    <3>1. pc'[t] \in InDbPlace /\ pc'[t] \notin Loading
      BY <1>0, <1>6, <2>3 DEF Zero, Write, Answer, Goto, InDbPlace, Loading
    <3> QED BY <1>4, <2>1, <3>1, WorkTold
  <2> QED BY <2>2, <2>3
<1>7. CASE Commit(t)
  <2>1. /\ pc[t] = "commit" /\ stale' = stale /\ file' = Written(job[t])
        /\ pc'[t] \in Loading
    BY <1>0, <1>1, <1>7 DEF Commit, Step, Goto, Loading
  <2>2. job[t].op \in {"PARAM", "UPD", "RMV"}
    BY <1>0, <2>1 DEF PlaceFits, InDbPlace
  <2>3. /\ job[t].op = "PARAM" => \A i \in DOMAIN Param :
                                    Param[i] = job[t].a => file'.config[i].val = job[t].b
        /\ job[t].op = "UPD" => /\ IdsIn(file'.sensor) = IdsIn(file.sensor)
                                /\ ValIn(file'.sensor, job[t].a) \subseteq {job[t].b}
        /\ job[t].op = "RMV" => job[t].a \notin IdsIn(file'.sensor)
    BY <1>0, <2>1, <2>2, WrittenFile
  <2>4. pc'[t] \in InDbPlace
    BY <2>1 DEF InDbPlace
  <2> QED BY <1>4, <2>1, <2>3, <2>4, WorkTold
<1>8. CASE Empty(t) \/ Reset(t) \/ Select(t) \/ Callback(t) \/ RowsEnd(t) \/ CopyDevices(t)
             \/ CountDevices(t) \/ (CopyParam(t) /\ pc'[t] # "reply")
  <2>1. /\ UNCHANGED <<file, stale>> /\ pc[t] \in Loading /\ pc'[t] \in Loading
    BY <1>0, <1>8, CopySteps
       DEF Empty, Reset, Select, Callback, RowsEnd, CopyDevices, CountDevices, Step, Goto, Loading
  <2>2. pc'[t] \in InDbPlace
    BY <2>1 DEF InDbPlace
  <2> QED BY <1>4, <1>5, <2>1, <2>2, WorkTold
<1>9. CASE SelectBusy(t)
  BY <1>0, <1>1, <1>9, BusySteps
<1>10. CASE CopyParam(t) /\ pc'[t] = "reply"
  <2> DEFINE n == job[t].par
             v == Db.row[1].val
             a == job[t].a
             b == job[t].b
  <2>0. PICK res : job'[t].res = res
    OBVIOUS
  <2>1. /\ pc[t] = "copy" /\ job[t].op = "PARAM" /\ file' = file
        /\ "table" \in stale' => "table" \in stale
        /\ \/ Refused(Param[n], v) /\ res = "WRONG"
           \/ ~Refused(Param[n], v) /\ n = Len(Param) /\ res = "OK"
    BY <1>0, <1>10, <2>0, CopySteps DEF Loaded
  <2>2. ConfigLoad(t)
    <3>1. t \notin shared /\ LoadsConfig(t)
      BY <1>1, <2>1 DEF InDb, LoadsConfig, Loading
    <3> QED BY <3>1 DEF MemoryInv
  <2>3. \A i \in DOMAIN Param : Param[i] = a => file.config[i].val = b
    BY <1>5, <2>1 DEF Loading
  <2>4. /\ Whole(job[t].text)' /\ Word(job[t].text, 1)' = "PARAM"
        /\ Word(job[t].text, 2)' = a /\ Word(job[t].text, 3)' = b
    BY <1>3, <1>4, <2>1 DEF Whole, Word
  <2>5. job'[t].sure => "table" \notin stale'
    BY <1>3, <1>4, <2>1
  <2> HIDE DEF n, v, a, b
  <2>6. /\ n \in 1..Len(Param) /\ DOMAIN Param = 1..Len(Param) /\ Len(Param) \in Nat
        /\ \A i \in 1..n : conf'[i] = Kept(Param[i], file.config[i].val)
        /\ \A i \in 1..(n - 1) : ~Bad(i)
        /\ Bad(n) <=> Refused(Param[n], v)
    BY <1>0, <1>10, <2>2, ParamCopied DEF n, v
  <2>7. res = IF \E i \in DOMAIN Param : Bad(i) THEN "WRONG" ELSE "OK"
    <3>1. CASE Refused(Param[n], v) /\ res = "WRONG"
      BY <2>6, <3>1
    <3>2. CASE ~Refused(Param[n], v) /\ n = Len(Param) /\ res = "OK"
      <4>1. \A i \in DOMAIN Param : i = n \/ i \in 1..(n - 1)
        BY <2>6, <3>2
      <4> QED BY <2>6, <3>2, <4>1
    <3> QED BY <2>1, <3>1, <3>2
  <2>8. ASSUME NEW i \in DOMAIN Param, Param[i] = a, Reached(i)
        PROVE  conf'[i] = Kept(a, b)
    <3>1. Bad(n) \/ n = Len(Param)
      BY <2>1, <2>6
    <3>2. i \in 1..n \/ n \in 1..(i - 1)
      <4>1. i \in Nat /\ n \in Nat /\ 1 <= i /\ 1 <= n
        BY <2>6
      <4> QED BY <4>1
    <3>3. i \in 1..n
      BY <2>6, <2>8, <3>1, <3>2 DEF Reached
    <3> QED BY <2>3, <2>6, <2>8, <3>3
  <2>9. \A i : Bad(i)' = Bad(i) /\ Reached(i)' = Reached(i)
    BY <2>1 DEF Reached, Bad
  <2>10. Right(t, res)'
    BY <2>1, <2>3, <2>4, <2>7, <2>8, <2>9 DEF Right, Whole
  <2> QED BY <1>10, <2>0, <2>5, <2>10, ReplyTold
<1>11. CASE Normalise(t)
  <2>1. /\ pc[t] = "normal" /\ UNCHANGED <<number, file>> /\ Answer(t, "OK") /\ up
        /\ dev' = [i \in Rows |-> IF i <= number THEN [dev[i] EXCEPT !.div = @ + 1] ELSE dev[i]]
        /\ Loaded(t, "table")
    BY <1>11 DEF Normalise, Step
  <2>2. t \notin shared /\ LoadsTable(t) /\ job[t].op \in {"RMV", "UPD"}
    BY <1>0, <1>1, <2>1 DEF InDb, LoadsTable, Loading, PlaceFits, InDbPlace
  <2>3. number = Len(file.sensor) /\ DevicesRead
    BY <2>1, <2>2 DEF MemoryInv, TableLoad
  <2>4. "table" \notin stale' /\ pc'[t] = "reply" /\ job'[t].res = "OK"
    <3>1. "table" \notin stale'
      BY <2>1, <2>2 DEF Loaded
    <3>2. pc'[t] = "reply" /\ job'[t].res = "OK"
      BY <1>0, <2>1, Answered, ResultFacts
    <3> QED BY <3>1, <3>2
  <2>5. \A i \in 1..number : dev'[i].key = file.sensor[i].key
    <3>1. number \in Nat /\ number <= 2 * Limit /\ Rows = 1..MaxRows /\ MaxRows \in Nat /\ 2 * Limit <= MaxRows /\ Limit \in Nat
      BY <1>0, Given DEF DbTypes
    <3> TAKE i \in 1..number
    <3>2. i \in Rows /\ i <= number /\ dev[i] = Device(file.sensor[i], 0)
      BY <2>3, <3>1 DEF DevicesRead
    <3>3. dev'[i] = [dev[i] EXCEPT !.div = @ + 1]
      BY <2>1, <3>2
    <3> QED BY <3>2, <3>3 DEF Device
  <2> DEFINE a == job[t].a
             b == job[t].b
             gone == ~\E i \in 1..number' : dev'[i].key = a
  <2>6. job[t].op = "RMV" => a \notin IdsIn(file'.sensor) /\ gone
    <3>1. job[t].op = "RMV" => a \notin IdsIn(file.sensor)
      BY <1>5, <2>1 DEF Loading
    <3>2. DOMAIN file.sensor = 1..number
      BY <1>0, <2>3 DEF FileOk
    <3> QED BY <2>1, <2>5, <3>1, <3>2 DEF IdsIn
  <2>7. job[t].op = "UPD" => ValIn(file'.sensor, a) \subseteq {b}
                             /\ (job[t].sure => a \in IdsIn(file'.sensor))
    BY <1>4, <1>5, <2>1 DEF Loading
  <2>8. /\ Whole(job[t].text)' /\ Word(job[t].text, 1)' = job[t].op
        /\ Word(job[t].text, 2)' = a /\ Word(job[t].text, 3)' = b
    BY <1>3, <1>4 DEF Whole, Word
  <2>9. job'[t].sure = job[t].sure
    BY <1>3
  <2> HIDE DEF a, b
  <2>10. Right(t, "OK")'
    BY <2>2, <2>6, <2>7, <2>8, <2>9 DEF Right, Whole, Found
  <2> QED BY <2>4, <2>10, ReplyTold
<1> QED
  BY <1>6, <1>7, <1>8, <1>9, <1>10, <1>11 DEF DbCall

LEMMA AnswerStep ==
    ASSUME TypeInv, TypeInv', Overlaps, MemoryInv, AnswerInv, [Next]_vars
    PROVE  AnswerInv'
<1> USE TwoThreads
<1>0. /\ ThreadTypes /\ DbTypes /\ pc \in [Thread -> Place] /\ mixed \subseteq Thread
      /\ \A u \in Thread : Busy(Other(u)) /\ Busy(u) => mixed = Thread
  <2>1. \A u \in Thread : Busy(Other(u)) /\ Busy(u) => mixed = Thread
    BY DEF Overlaps, Thread
  <2> QED BY <2>1 DEF TypeInv, ThreadTypes
<1>1. ASSUME NEW t \in Thread, ExecCommand(t) \/ DbCall(t) PROVE AnswerInv'
  <2>1. Busy(t) /\ mixed' = mixed
    BY <1>0, <1>1, CommandGoesOn, ExecFrame, DbFrame DEF GoesOn, Busy
  <2>2. ASSUME NEW u \in Thread, Busy(u)', u \notin mixed' PROVE ToldRight(u)'
    <3>1. CASE u = t
      <4>1. ToldRight(t)
        BY <2>1, <2>2, <3>1 DEF AnswerInv
      <4> QED BY <1>1, <2>1, <2>2, <3>1, <4>1, ExecTold, DbTold
    <3>2. CASE u # t
      <4>1. Busy(u) /\ t = Other(u)
        BY <1>0, <1>1, <2>2, <3>2, OthersStay DEF Busy
      <4> QED BY <1>0, <2>1, <2>2, <4>1
    <3> QED BY <3>1, <3>2
  <2> QED BY <2>2 DEF AnswerInv
<1>2. ASSUME NEW t \in Thread, Send(t) PROVE AnswerInv'
  <2>1. Busy(t) /\ ~Busy(t)' /\ mixed' = mixed
    BY <1>0, <1>2, ExecFrame DEF Send, Step, Goto, Busy
  <2>2. ASSUME NEW u \in Thread, Busy(u)', u \notin mixed' PROVE FALSE
    <3>1. Busy(u) /\ t = Other(u)
      BY <1>0, <1>2, <2>1, <2>2, OthersStay DEF Busy
    <3> QED BY <1>0, <2>1, <2>2, <3>1
  <2> QED BY <2>2 DEF AnswerInv
<1>3. ASSUME NEW t \in Thread, NEW text, Begin(t, text), pc[t] = "idle", UNCHANGED stale
      PROVE  AnswerInv'
  <2>1. /\ pc' = [pc EXCEPT ![t] = "clear"]
        /\ job' = [job EXCEPT ![t] = [NoJob EXCEPT !.text = text, !.sure = "table" \notin stale]]
        /\ mixed' = IF Busy(Other(t)) THEN Thread ELSE mixed \ {t}
    BY <1>3 DEF Begin, Goto, Set
  <2>2. pc'[t] = "clear" /\ job'[t].sure = ("table" \notin stale)
    BY <1>0, <2>1 DEF ThreadTypes, NoJob
  <2>3. ToldRight(t)'
    BY <1>3, <2>2 DEF ToldRight, InDbPlace, Loading
  <2>4. ASSUME NEW u \in Thread, u # t, Busy(u)', u \notin mixed' PROVE FALSE
    BY <1>0, <2>1, <2>4 DEF Busy
  <2> QED BY <2>3, <2>4 DEF AnswerInv
<1>4. CASE TakeLine \/ GestRiMMSNet
  <2>1. stale' = stale
    BY <1>4, OuterFrame DEF GestSMComunication, dbVars
  <2> QED BY <1>3, <1>4, <2>1 DEF TakeLine, GestRiMMSNet, TakeDatagram
<1>5. CASE Acknowledge
  <2>1. /\ pc["RiMMS"] = "ack" /\ pc' = [pc EXCEPT !["RiMMS"] = "send"] /\ UNCHANGED <<job, mixed>>
        /\ UNCHANGED <<response, file, stale, conf, number, dev>>
    BY <1>5 DEF Acknowledge, Step, Goto, parserVars, dbVars
  <2>2. ASSUME NEW u \in Thread, Busy(u)', u \notin mixed' PROVE ToldRight(u)'
    <3>1. CASE u = "RiMMS"
      <4>1. Busy(u) /\ pc'[u] = "send" /\ pc[u] = "ack"
        BY <1>0, <2>1, <3>1 DEF Busy
      <4>2. ToldRight(u)
        BY <2>1, <2>2, <4>1 DEF AnswerInv
      <4>3. /\ job[u].sure => "table" \notin stale
            /\ response.text = job[u].text /\ Right(u, response.res)
        BY <4>1, <4>2 DEF ToldRight
      <4>4. Right(u, response.res)'
        BY <2>1, <4>3 DEF Right, Found, Reached, Bad
      <4> QED BY <2>1, <4>1, <4>3, <4>4 DEF ToldRight, InDbPlace, Loading
    <3>2. CASE u # "RiMMS"
      <4>1. Busy(u) /\ Busy("RiMMS") /\ u = Other("RiMMS")
        BY <1>0, <2>1, <2>2, <3>2 DEF Busy
      <4> QED BY <1>0, <2>1, <2>2, <4>1
    <3> QED BY <3>1, <3>2
  <2> QED BY <2>2 DEF AnswerInv
<1>6. CASE Web \/ TakeByte \/ UNCHANGED vars
  <2>1. UNCHANGED <<pc, job, mixed>>
    BY <1>6 DEF Web, WebStart, WebWrite, WebEnd, WebDies, TakeByte, vars
  <2>2. UNCHANGED <<parser, response, file, stale, conf, number, dev>>
    BY <1>6, OuterFrame DEF GestSMComunication, vars, dbVars, parserVars
  <2>3. ASSUME NEW u \in Thread PROVE ToldRight(u)' = ToldRight(u) /\ Busy(u)' = Busy(u)
    <3>1. \A res : Right(u, res) = Right(u, res)
      OBVIOUS
    <3>2. Right(u, job[u].res)' = Right(u, job[u].res)
          /\ Right(u, response.res)' = Right(u, response.res)
      BY <2>1, <2>2 DEF Right, Found, Reached, Bad
    <3> QED BY <2>1, <2>2, <3>2 DEF ToldRight, Busy
  <2> QED BY <2>1, <2>3 DEF AnswerInv
<1>7. CASE Restart
  BY <1>7 DEF Restart, Fresh, AnswerInv, Busy
<1> QED
  BY <1>1, <1>2, <1>4, <1>5, <1>6, <1>7 DEF Next, GestSMComunication

LEMMA AnswersAre ==
    ASSUME AnswerInv
    PROVE  AnswersAreTrue
<1> SUFFICES ASSUME NEW t \in Thread \ mixed, pc[t] \in {"ack", "send"}
             PROVE  response.text = job[t].text /\ Right(t, response.res)
  BY DEF AnswersAreTrue, Right
<1>1. ToldRight(t)
  BY DEF AnswerInv, Busy
<1> QED BY <1>1 DEF ToldRight

-----------------------------------------------------------------------------
CommandsProven == TypeInv /\ ChannelHolds /\ Overlaps /\ MemoryInv /\ AnswerInv

LEMMA ProvenStart ==
    ASSUME Init
    PROVE  CommandsProven
<1>1. TypeInv
  BY TypeStart
<1>2. /\ \A t \in Thread : pc[t] = "idle"
      /\ shm = EmptyShm /\ WebIdle /\ up /\ number = Len(Ids)
      /\ conf = [i \in DOMAIN Param |-> Kept(Param[i], Param[i])]
      /\ file = [sensor |-> [i \in DOMAIN Ids |-> Row(Ids[i], Ids[i])],
                 config |-> [i \in DOMAIN Param |-> Row(Param[i], Param[i])]]
      /\ dev = [i \in Rows |-> IF i <= Len(Ids)
                               THEN Device(Row(Ids[i], Ids[i]), 1) ELSE Device(NoRow, 0)]
  BY DEF Init, WebIdle
<1>3. ChannelHolds /\ Overlaps /\ AnswerInv /\ FirstParam
  BY <1>2, TwoThreads
     DEF ChannelHolds, AtWork, Busy, ShmEmpty, EmptyShm, Overlaps, InDb, AnswerInv, FirstParam
<1>4. TableInMemory
  <2>1. /\ Len(Ids) \in Nat /\ DOMAIN Ids = 1..Len(Ids) /\ Rows = 1..MaxRows /\ MaxRows \in Nat /\ 2 * Len(Ids) <= MaxRows
    BY Given DEF Limit
  <2>2. \A i \in 1..Len(Ids) : i \in Rows /\ i <= Len(Ids)
    BY <2>1
  <2>3. Len(file.sensor) = Len(Ids)
    <3>1. file.sensor \in Seq(RowSet) /\ DOMAIN file.sensor = 1..Len(Ids)
      BY <1>1, <1>2, <2>1 DEF TypeInv, FileOk
    <3> QED BY <2>1, <3>1
  <2> QED BY <1>2, <2>1, <2>2, <2>3 DEF TableInMemory
<1>5. ConfigInMemory
  BY <1>2 DEF ConfigInMemory, Row
<1>6. \A t \in Thread : ~LoadsTable(t) /\ ~LoadsConfig(t)
  BY <1>2 DEF LoadsTable, LoadsConfig, Loading
<1> QED BY <1>1, <1>2, <1>3, <1>4, <1>5, <1>6 DEF CommandsProven, MemoryInv, Running

LEMMA ProvenStep ==
    ASSUME CommandsProven, [Next]_vars
    PROVE  CommandsProven'
<1>1. TypeInv'
  BY TypeStep DEF CommandsProven
<1> QED BY <1>1, ChannelStep, OverlapsStep, MemoryStep, AnswerStep DEF CommandsProven

LEMMA ProvenHolds == Spec => []CommandsProven
<1>1. Init => CommandsProven
  BY ProvenStart
<1>2. CommandsProven /\ [Next]_vars => CommandsProven'
  BY ProvenStep
<1> QED BY <1>1, <1>2, PTL DEF Spec

(* CommandsInv for every set of commands, any parameters and any table of at  *)
(* most half as many sensors as Db has rows: everything has its type (no load *)
(* fills more than two rows a sensor, even beside the other thread's), and    *)
(* the bytes of the web process and of GestSMComunication keep the channel in *)
(* step unless one of the two ended half-way through a command.               *)
THEOREM ChannelKeepsInStep == Spec => []CommandsInv
<1>1. CommandsProven => CommandsInv
  BY TypeIsOK, ChannelIsInStep DEF CommandsProven, CommandsInv
<1> QED BY <1>1, ProvenHolds, PTL

(* MemoryIsFile: what InitDevices and LoadConfig leave in memory is what they *)
(* make of the tables, up to a parameter that LoadConfig refuses, unless the  *)
(* other thread worked on the database meanwhile.                             *)
THEOREM MemoryHoldsTheFile == Spec => []MemoryIsFile
<1>1. CommandsProven => MemoryIsFile
  BY MemoryIs DEF CommandsProven
<1> QED BY <1>1, ProvenHolds, PTL

(* AnswersAreTrue: what ParserCommand answers is the answer to the command it *)
(* was given, and true of the database, unless a command of the other thread  *)
(* ran beside it; WRONG is the answer as long as the file holds a value that  *)
(* LoadConfig refuses, and what was to be saved is in the file all the same.  *)
THEOREM AnswersStayTrue == Spec => []AnswersAreTrue
<1>1. CommandsProven => AnswersAreTrue
  BY AnswersAre DEF CommandsProven
<1> QED BY <1>1, ProvenHolds, PTL
=============================================================================
