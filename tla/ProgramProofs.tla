---------------------------- MODULE ProgramProofs ----------------------------
(***************************************************************************)
(* The program: main and the frame of its threads (Lifecycle), and what    *)
(* thread_comunication calls in turn, GestFtp with its schedule            *)
(* (UploadSchedule) and GestRiMMSNet with the modem beside it (Uplink).    *)
(* Three systems with variables of their own; their names do not meet.     *)
(***************************************************************************)
EXTENDS Lifecycle, UploadSchedule, Uplink, WellFoundedInduction, TLAPS

-----------------------------------------------------------------------------
(* The frame of the threads: for any patience and any switch delays, the    *)
(* types, that main closes what the threads use only when they are gone,    *)
(* and that a request to stop the system is carried out.                    *)

(* A thread has the state "none" until its turn to be created, and stage    *)
(* counts from 1 both for the creations and for the joins.                  *)
NotCreated ==
    /\ mpc \in {"early", "init", "run"} => stage = 1
    /\ mpc \in {"early", "init", "create"} =>
         \A i \in stage..4 : tpc[CreateOrder[i]] = "none"

(* A thread whose flag is set has begun, and one that main has waited for   *)
(* too long can neither have its flag set nor set it any more.              *)
FlagsOfThreads ==
    /\ \A t \in running : tpc[t] \notin {"none", "created"}
    /\ mpc = "wait" /\ x > Patience =>
         /\ JoinOrder[stage] \notin running
         /\ tpc[JoinOrder[stage]] \notin {"none", "created"}

TypeInv == LifecycleTypeOK /\ NotCreated /\ FlagsOfThreads

(* main has joined the threads before stage, and they have not come back. *)
Joined ==
    /\ mpc \in {"wait", "join"} =>
         \A i \in 1..(stage - 1) : tpc[JoinOrder[i]] = "gone"
    /\ NothingRunsAfterClose

(* Whoever has cleared flagexit has left a trace. *)
Traces ==
    /\ \A t \in Threads : tpc[t] = "asking" => flags # {}
    /\ mpc \notin {"early", "failed"} /\ flagexit = 0 => signalled \/ flags # {}
    /\ mpc \in {"wait", "join", "close", "command", "done"} => flagexit = 0
    /\ mpc = "done" =>
         command = IF "reboot" \in flags THEN "reboot"
                   ELSE IF "poweroff" \in flags THEN "poweroff" ELSE "none"

-----------------------------------------------------------------------------
(* The two orders list the threads, each once. *)
LEMMA Orders ==
    /\ CreateOrder \in [1..4 -> Threads] /\ JoinOrder \in [1..4 -> Threads]
    /\ Len(CreateOrder) = 4 /\ Len(JoinOrder) = 4
    /\ DOMAIN JoinOrder = 1..4
    /\ \A t \in Threads : \E i \in 1..4 : JoinOrder[i] = t
    /\ \A i, j \in 1..4 : CreateOrder[i] = CreateOrder[j] => i = j
  BY DEF CreateOrder, JoinOrder, Threads

(* The initial state has the types. *)
LEMMA TypeInit == LifecycleInit => TypeInv
<1> SUFFICES ASSUME LifecycleInit PROVE TypeInv
  OBVIOUS
<1>1. signalled \in BOOLEAN /\ tpc \in [Threads -> {"none"}]
  BY DEF LifecycleInit
<1>2. LifecycleTypeOK
  BY <1>1, Orders, LifecycleAssumption DEF LifecycleInit, LifecycleTypeOK
<1>3. NotCreated /\ FlagsOfThreads
  BY Orders, LifecycleAssumption DEF LifecycleInit, NotCreated, FlagsOfThreads
<1> QED
  BY <1>2, <1>3 DEF TypeInv

(* So has every state that main reaches from one that has them. *)
LEMMA TypeMain == TypeInv /\ Main => TypeInv'
<1> SUFFICES ASSUME TypeInv, Main PROVE TypeInv'
  OBVIOUS
<1> USE Orders, LifecycleAssumption
    DEF TypeInv, LifecycleTypeOK, NotCreated, FlagsOfThreads, others, Goes
<1>1. CASE Startup
  BY <1>1 DEF Startup
<1>2. CASE Initialise
  BY <1>2 DEF Initialise
<1>3. CASE CreateThread
  <2>1. LifecycleTypeOK'
    BY <1>3 DEF CreateThread
  <2>2. NotCreated'
    BY <1>3 DEF CreateThread
  <2>3. FlagsOfThreads'
    BY <1>3 DEF CreateThread
  <2> QED BY <2>1, <2>2, <2>3
<1>4. CASE StartFails
  BY <1>4 DEF StartFails
<1>5. CASE StopHeard
  BY <1>5 DEF StopHeard
<1>6. CASE WaitForThread
  <2>1. LifecycleTypeOK'
    BY <1>6 DEF WaitForThread
  <2>2. NotCreated'
    BY <1>6 DEF WaitForThread
  <2>3. FlagsOfThreads'
    BY <1>6 DEF WaitForThread
  <2> QED BY <2>1, <2>2, <2>3
<1>7. CASE WaitOver
  BY <1>7 DEF WaitOver
<1>8. CASE Join
  BY <1>8 DEF Join, NextThread
<1>9. CASE Close
  BY <1>9 DEF Close
<1>10. CASE Finish
  BY <1>10 DEF Finish, Requests
<1> QED
  BY <1>1, <1>2, <1>3, <1>4, <1>5, <1>6, <1>7, <1>8, <1>9, <1>10 DEF Main

(* And every state that a thread, the switch or a signal brings about. *)
LEMMA TypeThread == TypeInv /\ (\E t \in Threads : ThreadRuns(t)) => TypeInv'
<1> SUFFICES ASSUME TypeInv, NEW t \in Threads, ThreadRuns(t) PROVE TypeInv'
  OBVIOUS
<1> USE Orders, LifecycleAssumption
    DEF TypeInv, LifecycleTypeOK, NotCreated, FlagsOfThreads, mainVars, others, Goes
<1>1. CASE Started(t)
  BY <1>1 DEF Started
<1>2. CASE Enter(t) \/ Leave(t) \/ CallReturns(t)
  BY <1>2 DEF Enter, Leave, CallReturns
<1>3. CASE AskExit(t)
  BY <1>3 DEF AskExit
<1>4. CASE ClearRunning(t)
  BY <1>4 DEF ClearRunning
<1>5. CASE Exit(t) \/ Cancelled(t)
  BY <1>5 DEF Exit, Cancelled
<1>6. CASE CommandAsks(t)
  BY <1>6 DEF CommandAsks, Ask
<1> QED
  BY <1>1, <1>2, <1>3, <1>4, <1>5, <1>6 DEF ThreadRuns, Proceed

LEMMA TypeSwitch == TypeInv /\ Switch => TypeInv'
<1> SUFFICES ASSUME TypeInv, Switch PROVE TypeInv'
  OBVIOUS
<1> USE Orders, LifecycleAssumption
    DEF TypeInv, LifecycleTypeOK, NotCreated, FlagsOfThreads, mainVars, others, Goes
<1>0. "io" \in Threads
  BY DEF Threads
<1>1. CASE SwitchHeld
  BY <1>0, <1>1 DEF SwitchHeld
<1>2. CASE SwitchUp
  BY <1>0, <1>2 DEF SwitchUp
<1>3. CASE SwitchAsks
  BY <1>0, <1>3 DEF SwitchAsks, Ask, Requests
<1> QED
  BY <1>1, <1>2, <1>3 DEF Switch

LEMMA TypeStep == TypeInv /\ [LifecycleNext]_lifecycleVars => TypeInv'
<1>1. TypeInv /\ Signal => TypeInv'
  BY DEF Signal, TypeInv, LifecycleTypeOK, NotCreated, FlagsOfThreads, mainVars
<1>2. TypeInv /\ UNCHANGED lifecycleVars => TypeInv'
  BY DEF lifecycleVars, TypeInv, LifecycleTypeOK, NotCreated, FlagsOfThreads, mainVars, others
<1> QED
  BY <1>1, <1>2, TypeMain, TypeThread, TypeSwitch DEF LifecycleNext

(* LifecycleTypeOK, for all delays. *)
THEOREM TypeCorrect == LifecycleSpec => []LifecycleTypeOK
<1>1. TypeInv => LifecycleTypeOK
  BY DEF TypeInv
<1> QED
  BY <1>1, TypeInit, TypeStep, PTL DEF LifecycleSpec

-----------------------------------------------------------------------------
(* Whatever the step, a thread that main has joined stays gone: each step   *)
(* of a thread starts where the thread is not.                              *)
LEMMA JoinedStep == TypeInv /\ Joined /\ [LifecycleNext]_lifecycleVars => Joined'
<1> SUFFICES ASSUME TypeInv, Joined, [LifecycleNext]_lifecycleVars PROVE Joined'
  OBVIOUS
<1> USE Orders DEF TypeInv, LifecycleTypeOK, Joined, NothingRunsAfterClose, mainVars, others, Goes
<1>1. CASE Main
  <2>1. CASE Startup \/ Initialise \/ StopHeard
    BY <2>1 DEF Startup, Initialise, StopHeard, NotCreated
  <2>2. CASE CreateThread
    BY <2>2 DEF CreateThread
  <2>3. CASE StartFails
    BY <2>3 DEF StartFails
  <2>4. CASE WaitForThread \/ WaitOver
    BY <2>4 DEF WaitForThread, WaitOver
  <2>5. CASE Join
    <3>1. CASE stage = 4
      BY <2>5, <3>1 DEF Join, NextThread
    <3>2. CASE stage # 4
      BY <2>5, <3>2 DEF Join, NextThread
    <3> QED BY <3>1, <3>2
  <2>6. CASE Close \/ Finish
    BY <2>6 DEF Close, Finish
  <2> QED BY <1>1, <2>1, <2>2, <2>3, <2>4, <2>5, <2>6 DEF Main
<1>2. ASSUME NEW t \in Threads, ThreadRuns(t) PROVE Joined'
  <2>1. /\ UNCHANGED <<mpc, stage>>
        /\ tpc[t] # "gone"
        /\ \A u \in Threads : u # t => tpc'[u] = tpc[u]
    BY <1>2 DEF ThreadRuns, Proceed, Started, Enter, AskExit, Leave, ClearRunning, Exit,
       Cancelled, CallReturns, CommandAsks, Ask
  <2> QED BY <2>1
<1>3. CASE Switch
  <2>1. /\ UNCHANGED <<mpc, stage>>
        /\ tpc["io"] # "gone"
        /\ \A u \in Threads : u # "io" => tpc'[u] = tpc[u]
    BY <1>3 DEF Switch, SwitchHeld, SwitchUp, SwitchAsks, Ask, Threads
  <2> QED BY <2>1 DEF Threads
<1>4. CASE Signal \/ UNCHANGED lifecycleVars
  BY <1>4 DEF Signal, lifecycleVars
<1> QED
  BY <1>1, <1>2, <1>3, <1>4 DEF LifecycleNext

(* NothingRunsAfterClose, and the types, for all delays. *)
THEOREM ClosedLast == LifecycleSpec => []LifecycleInv
<1>1. LifecycleInit => Joined
  BY DEF LifecycleInit, Joined, NothingRunsAfterClose
<1>2. TypeInv /\ Joined => LifecycleInv
  BY DEF TypeInv, Joined, LifecycleInv
<1> QED
  BY <1>1, <1>2, TypeInit, TypeStep, JoinedStep, PTL DEF LifecycleSpec

-----------------------------------------------------------------------------
(* What clears flagexit leaves a trace, and after the joins, when main      *)
(* reads the flags, nobody is left to change them.                          *)
LEMMA TracesStep == TypeInv /\ Joined /\ Traces /\ [LifecycleNext]_lifecycleVars => Traces'
<1> SUFFICES ASSUME TypeInv, Joined, Traces, [LifecycleNext]_lifecycleVars PROVE Traces'
  OBVIOUS
<1> USE Orders DEF TypeInv, LifecycleTypeOK, Traces, mainVars, others, Goes
<1>1. CASE Main
  <2>1. CASE Startup
    BY <2>1 DEF Startup, NotCreated, Joined
  <2>2. CASE Initialise \/ StopHeard
    BY <2>2 DEF Initialise, StopHeard
  <2>3. CASE CreateThread
    BY <2>3 DEF CreateThread
  <2>4. CASE StartFails
    BY <2>4 DEF StartFails
  <2>5. CASE WaitForThread \/ WaitOver
    BY <2>5 DEF WaitForThread, WaitOver
  <2>6. CASE Join
    BY <2>6 DEF Join, NextThread
  <2>7. CASE Close \/ Finish
    BY <2>7 DEF Close, Finish
  <2> QED BY <1>1, <2>1, <2>2, <2>3, <2>4, <2>5, <2>6, <2>7 DEF Main
<1>2. ASSUME NEW t \in Threads, ThreadRuns(t) PROVE Traces'
  <2>1. mpc # "done" /\ mpc' = mpc /\ mpc # "early"
    BY <1>2 DEF Joined, NothingRunsAfterClose, NotCreated, ThreadRuns, Proceed,
       Started, Enter, AskExit, Leave, ClearRunning, Exit, Cancelled, CallReturns,
       CommandAsks, Ask
  <2>2. CASE AskExit(t)
    BY <2>1, <2>2 DEF AskExit
  <2>3. CASE CommandAsks(t)
    BY <2>1, <2>3 DEF CommandAsks, Ask
  <2>4. CASE Started(t) \/ Enter(t) \/ Leave(t) \/ ClearRunning(t) \/ Exit(t)
             \/ Cancelled(t) \/ CallReturns(t)
    BY <2>1, <2>4 DEF Started, Enter, Leave, ClearRunning, Exit, Cancelled, CallReturns
  <2> QED BY <1>2, <2>2, <2>3, <2>4 DEF ThreadRuns, Proceed
<1>3. CASE Switch
  <2>1. mpc # "done" /\ mpc' = mpc /\ "io" \in Threads
    BY <1>3 DEF Joined, NothingRunsAfterClose, Switch, SwitchHeld, SwitchUp,
       SwitchAsks, Ask, Threads
  <2>2. CASE SwitchHeld \/ SwitchUp
    BY <2>1, <2>2 DEF SwitchHeld, SwitchUp
  <2>3. CASE SwitchAsks
    BY <2>1, <2>3 DEF SwitchAsks, Ask
  <2> QED BY <1>3, <2>2, <2>3 DEF Switch
<1>4. CASE Signal
  BY <1>4 DEF Signal
<1>5. CASE UNCHANGED lifecycleVars
  BY <1>5 DEF lifecycleVars
<1> QED
  BY <1>1, <1>2, <1>3, <1>4, <1>5 DEF LifecycleNext

(* RequestsHonoured, for all delays. *)
THEOREM RequestsCarriedOut == LifecycleSpec => []RequestsHonoured
<1>1. LifecycleInit => Joined /\ Traces
  BY DEF LifecycleInit, Joined, NothingRunsAfterClose, Traces
<1>2. TypeInv /\ Traces => RequestsHonoured
  BY DEF TypeInv, LifecycleTypeOK, Traces, RequestsHonoured, Requests
<1> QED
  BY <1>1, <1>2, TypeInit, TypeStep, JoinedStep, TracesStep, PTL DEF LifecycleSpec

-----------------------------------------------------------------------------
(* The schedule.  AlarmIsPrompt is not inductive: when an upload starts, it *)
(* does not exclude that the tag of an alarm is in SAMPLE_RAM, where the     *)
(* snapshot of SAMPLE_FILE misses it.  WhereTagsGo does: unless an upload    *)
(* gave up, an alarm's tag is in SAMPLE_RAM only during the upload that      *)
(* FtpUploading announces.  And PARAM may lower transferperiod and raise it  *)
(* again: what stays is how far off the upload was when it was asked for.    *)
WhereTagsGo == waiting = "ram" /\ ~stranded => upc \in {"create", "send"}

Soon == \E d \in Delays : last + base <= d

PromptWhenAsked ==
    waiting # "none" /\ alarm # "stored" =>
        \/ Soon
        \/ waiting = "sample" /\ upc \in {"create", "send"}
        \/ stranded

ScheduleProven == TypeOK /\ PromptWhenAsked /\ WhereTagsGo

LEMMA TimesAreIntegers ==
    /\ \A d \in Delays : d \in Nat /\ d \in Int
    /\ \A v \in Settings \cup {DefaultPeriod} : v \in Int
    /\ {FirstUpload, OfflineRetry, FailureRetry, AlarmDelay} \subseteq Delays
    /\ Delays' = Delays
<1>1. \A d \in Delays : d \in Nat /\ d \in Int
  BY ScheduleAssumption DEF Delays
<1>2. \A v \in Settings \cup {DefaultPeriod} : v \in Int
  BY ScheduleAssumption
<1> QED
  BY <1>1, <1>2 DEF Delays

LEMMA TypesAreIntegers ==
    ASSUME TypeOK
    PROVE  period \in Int /\ base \in Int /\ last \in Int
<1>1. period \in Settings \cup {DefaultPeriod} /\ base \in Settings \cup {DefaultPeriod}
      /\ last \in Int
  BY DEF TypeOK
<1> QED
  BY <1>1, TimesAreIntegers

LEMMA EarlierIsSooner ==
    ASSUME NEW t \in Int, NEW u \in Int, NEW v \in Int, NEW w \in Int,
           u <= t, t + v <= w
    PROVE  u + v <= w
  OBVIOUS

(* What sets lasttransferperiod, with which transferperiod. *)
LEMMA HowLastMoves ==
    ASSUME [Next]_vars
    PROVE  \/ last' = last /\ base' = base
           \/ Tick
           \/ \E d \in Delays : last' = d - period /\ base' = period
           \/ last' = 0 /\ base' = period
  BY DEF Next, Comunication, CallGestFtp, GestFtp, NothingDue, Due,
     ModemOffline, ModemOnline, StartUpload, Snapshot, GiveUpCreate, GiveUpLoad,
     UploadSucceeds, UploadFails, EndUpload, ForceUpload, Alarms, StoreAlarm,
     ForceAlarm, ModemChanges, CommandsComing, ForceUpdate, LoadPeriod, Loaded,
     RiMMSLoaded, ComunicationLoaded, DefaultPeriodLoaded, vars, Delays

(* Every variable keeps its type: the next upload is never further away     *)
(* than the periods and the delays of the configuration.                    *)
THEOREM ScheduleTypes == Spec => []TypeOK
<1>1. Init => TypeOK
  <2> SUFFICES ASSUME Init PROVE TypeOK
    OBVIOUS
  <2>1. period \in Settings \cup {DefaultPeriod} /\ last = FirstUpload - period
        /\ base = period
    BY DEF Init
  <2>2. period \in Int /\ FirstUpload \in Int /\ FirstUpload \in Delays
    BY <2>1, TimesAreIntegers
  <2>4. last \in Int /\ last + base <= FirstUpload
    BY <2>1, <2>2
  <2>3. quiet \in 0..(AlarmDelay + 1)
    BY ScheduleAssumption DEF Init
  <2> QED
    BY <2>2, <2>3, <2>4 DEF Init, TypeOK
<1>2. TypeOK /\ [Next]_vars => TypeOK'
  <2> SUFFICES ASSUME TypeOK, [Next]_vars PROVE TypeOK'
    OBVIOUS
  <2>1. {period', base'} \subseteq Settings \cup {DefaultPeriod}
    BY DEF TypeOK, Next, Comunication, CallGestFtp, GestFtp, NothingDue, Due,
       ModemOffline, ModemOnline, StartUpload, Snapshot, GiveUpCreate,
       GiveUpLoad, UploadSucceeds, UploadFails, EndUpload, ForceUpload,
       Alarms, StoreAlarm, ForceAlarm, ModemChanges, CommandsComing, ForceUpdate,
       LoadPeriod, Loaded, RiMMSLoaded, ComunicationLoaded, DefaultPeriodLoaded,
       Tick, vars
  <2>2. last' \in Int /\ \E d \in Delays \cup {base'} : last' + base' <= d
    <3>0. period \in Int /\ base \in Int /\ last \in Int
      BY TypesAreIntegers
    <3>1. CASE last' = last /\ base' = base
      BY <3>1 DEF TypeOK
    <3>2. CASE Tick
      <4>1. last' \in Int /\ last' <= last /\ base' = base
        BY <3>0, <3>2, ScheduleAssumption DEF Tick
      <4>2. PICK d \in Delays \cup {base} : last + base <= d
        BY DEF TypeOK
      <4>3. d \in Int
        BY <3>0, TimesAreIntegers
      <4>4. last' + base' <= d
        <5>1. last' + base <= d
          BY <3>0, <4>1, <4>2, <4>3, EarlierIsSooner
        <5> QED
          BY <4>1, <5>1
      <4> QED
        BY <4>1, <4>2, <4>4
    <3>3. CASE \E d \in Delays : last' = d - period /\ base' = period
      <4>1. PICK d \in Delays : last' = d - period /\ base' = period
        BY <3>3
      <4>2. d \in Int /\ last' \in Int /\ last' + base' <= d
        BY <3>0, <4>1, TimesAreIntegers
      <4> QED
        BY <4>2
    <3>4. CASE last' = 0 /\ base' = period
      <4>1. last' \in Int /\ last' + base' <= base'
        BY <3>0, <3>4
      <4> QED
        BY <4>1
    <3> QED
      BY <3>1, <3>2, <3>3, <3>4, HowLastMoves
  <2>3. quiet' \in 0..(AlarmDelay + 1)
    <3>1. quiet' \in {quiet, 0} \/ (quiet <= AlarmDelay /\ quiet' = quiet + 1)
      BY DEF Next, Comunication, CallGestFtp, GestFtp, NothingDue, Due,
        ModemOffline, ModemOnline, StartUpload, Snapshot, GiveUpCreate,
        GiveUpLoad, UploadSucceeds, UploadFails, EndUpload,
        Alarms, StoreAlarm, ForceAlarm, ModemChanges, CommandsComing, ForceUpdate,
        LoadPeriod, Loaded, RiMMSLoaded, ComunicationLoaded, DefaultPeriodLoaded,
        Tick, vars
    <3> QED
      BY <3>1, ScheduleAssumption DEF TypeOK
  <2>4. /\ modemOnline' \in BOOLEAN
        /\ upc' \in {"gest", "due", "start", "create", "send", "done", "default"}
        /\ alarm' \in {"none", "stored", "default"}
        /\ waiting' \in {"none", "sample", "ram"}
        /\ flag' \in BOOLEAN /\ stranded' \in BOOLEAN /\ polled' \in BOOLEAN
    BY ZenonT(60)
    DEF TypeOK, Next, Comunication, CallGestFtp, GestFtp, NothingDue, Due,
        ModemOffline, ModemOnline, StartUpload, Snapshot, GiveUpCreate,
        GiveUpLoad, UploadSucceeds, UploadFails, EndUpload,
        Alarms, StoreAlarm, ForceAlarm, ModemChanges, CommandsComing, ForceUpdate,
        LoadPeriod, Loaded, RiMMSLoaded, ComunicationLoaded, DefaultPeriodLoaded,
        Tick, vars
  <2> QED
    BY <2>1, <2>2, <2>3, <2>4 DEF TypeOK, Delays
<1> QED
  BY <1>1, <1>2, PTL DEF Spec

LEMMA InvariantHolds == Spec => []ScheduleProven
<1>1. Init => PromptWhenAsked /\ WhereTagsGo
  BY DEF Init, PromptWhenAsked, WhereTagsGo
<1>2. TypeOK /\ PromptWhenAsked /\ WhereTagsGo /\ [Next]_vars
        => PromptWhenAsked' /\ WhereTagsGo'
  <2> SUFFICES ASSUME TypeOK, PromptWhenAsked, WhereTagsGo, [Next]_vars
               PROVE  PromptWhenAsked' /\ WhereTagsGo'
    OBVIOUS
  <2>0. /\ Delays \subseteq Nat /\ Delays' = Delays
        /\ {FailureRetry, OfflineRetry, AlarmDelay} \subseteq Delays
        /\ period \in Int /\ base \in Int /\ last \in Int
    BY TimesAreIntegers, TypesAreIntegers
  <2>00. ASSUME NEW d \in Delays, last' = d - period, base' = period
         PROVE  Soon'
    <3>1. last' + base' <= d /\ d \in Delays'
      BY <2>0, <2>00
    <3> QED
      BY <3>1 DEF Soon
  <2>000. UNCHANGED <<last, base>> /\ Soon => Soon'
    BY <2>0 DEF Soon
  <2>1. CASE StoreAlarm
    BY <2>1 DEF StoreAlarm, PromptWhenAsked, WhereTagsGo
  <2>2. CASE ForceAlarm
    <3>1. Soon'
      BY <2>0, <2>2, <2>00 DEF ForceAlarm, ForceUpload
    <3> QED
      BY <2>2, <3>1 DEF ForceAlarm, PromptWhenAsked, WhereTagsGo
  <2>3. CASE CallGestFtp \/ NothingDue \/ Due \/ ModemOnline
    BY <2>3, <2>000
    DEF CallGestFtp, NothingDue, Due, ModemOnline, PromptWhenAsked, WhereTagsGo
  <2>4. CASE ModemOffline
    <3>1. Soon'
      BY <2>0, <2>4, <2>00 DEF ModemOffline, ForceUpload
    <3> QED
      BY <2>4, <3>1 DEF ModemOffline, PromptWhenAsked, WhereTagsGo
  <2>5. CASE StartUpload
    (* An alarm already stored is in SAMPLE_FILE: the upload will carry it. *)
    <3>1. waiting # "none" /\ ~stranded => waiting = "sample"
      BY <2>5 DEF StartUpload, WhereTagsGo, TypeOK
    <3> QED
      BY <2>5, <3>1 DEF StartUpload, PromptWhenAsked, WhereTagsGo
  <2>6. CASE Snapshot
    BY <2>6, <2>000 DEF Snapshot, PromptWhenAsked, WhereTagsGo
  <2>7. CASE GiveUpCreate \/ GiveUpLoad
    BY <2>7 DEF GiveUpCreate, GiveUpLoad, PromptWhenAsked, WhereTagsGo
  <2>8. CASE UploadSucceeds
    (* What the upload has not sent was stored, and asked for, meanwhile. *)
    <3>1. waiting' # "none" => waiting = "ram" /\ waiting' = "sample"
      BY <2>8 DEF UploadSucceeds, EndUpload
    <3> QED
      BY <2>8, <3>1, <2>000 DEF UploadSucceeds, EndUpload, PromptWhenAsked, WhereTagsGo
  <2>9. CASE UploadFails
    <3>1. Soon'
      BY <2>0, <2>9, <2>00 DEF UploadFails, ForceUpload
    <3> QED
      BY <2>9, <3>1 DEF UploadFails, EndUpload, PromptWhenAsked, WhereTagsGo
  <2>10. CASE Tick
    <3>1. last' \in Int /\ last' <= last /\ base' = base
      BY <2>0, <2>10, ScheduleAssumption DEF Tick
    <3>2. Soon => Soon'
      <4> SUFFICES ASSUME NEW d \in Delays, last + base <= d
                   PROVE  last' + base' <= d
        BY <2>0 DEF Soon
      <4>1. d \in Int
        BY TimesAreIntegers
      <4>2. last' + base <= d
        BY <2>0, <3>1, <4>1, EarlierIsSooner
      <4> QED
        BY <3>1, <4>2
    <3> QED
      BY <2>10, <3>2 DEF Tick, PromptWhenAsked, WhereTagsGo
  <2>11. CASE ModemChanges
    BY <2>11, <2>000 DEF ModemChanges, PromptWhenAsked, WhereTagsGo
  <2>12. CASE ForceUpdate
    <3>1. Soon'
      BY <2>0, <2>12, <2>00 DEF ForceUpdate, ForceUpload
    <3> QED
      BY <2>12, <3>1 DEF ForceUpdate, PromptWhenAsked, WhereTagsGo
  <2>13. CASE LoadPeriod
    BY <2>13, <2>000 DEF LoadPeriod, PromptWhenAsked, WhereTagsGo
  <2>14. CASE RiMMSLoaded \/ ComunicationLoaded
    BY <2>14, <2>000 DEF RiMMSLoaded, ComunicationLoaded, DefaultPeriodLoaded,
       PromptWhenAsked, WhereTagsGo
  <2>15. CASE UNCHANGED vars
    BY <2>15, <2>000 DEF vars, PromptWhenAsked, WhereTagsGo
  <2> QED
    BY <2>1, <2>2, <2>3, <2>4, <2>5, <2>6, <2>7, <2>8, <2>9, <2>10, <2>11, <2>12,
       <2>13, <2>14, <2>15
    DEF Next, Comunication, GestFtp, Alarms, CommandsComing, Loaded
<1> QED
  BY <1>1, <1>2, ScheduleTypes, PTL DEF Spec, ScheduleProven

(* No alarm is left for the regular upload, whatever the delays and the      *)
(* values PARAM loads are, unless the period was raised since: the order of  *)
(* the tag, ForceUpload and the two assignments of GestFtp is enough.        *)
THEOREM AlarmsArePrompt == Spec => []ScheduleInv
<1>1. ScheduleProven => ScheduleInv
  <2> SUFFICES ASSUME ScheduleProven, waiting # "none", alarm # "stored",
                      Soon, ~(period > base)
               PROVE  \E d \in Delays : Left <= d
    BY DEF ScheduleProven, ScheduleInv, PromptWhenAsked, AlarmIsPrompt
  <2>1. Delays \subseteq Int /\ period \in Int /\ base \in Int /\ last \in Int
    BY TimesAreIntegers, TypesAreIntegers DEF ScheduleProven
  <2>2. PICK d \in Delays : last + base <= d
    BY DEF Soon
  <2>3. last + period <= d
    BY <2>1, <2>2
  <2> QED
    BY <2>3 DEF Left
<1> QED
  BY <1>1, InvariantHolds, PTL

-----------------------------------------------------------------------------
(* The uplink. *)

(* The number of a file that is open is taken by it: the kernel gives a     *)
(* number to one owner at a time, until a wrong one is closed.              *)
FileIsOpen == ~astray /\ file # Net!NoFile => owner[file] = "file"

UplinkProven == UplinkTypeOK /\ LinkHasSocket /\ FileIsOpen

(* The kernel gives the lowest number that is free. *)
LEMMA LowestNumber ==
    ASSUME NEW T, T \subseteq Nat, T # {}
    PROVE  Net!Min(T) \in T
<1> DEFINE R == {ss \in Nat \X Nat : ss[1] < ss[2]}
<1>1. IsWellFoundedOn(R, Nat)
  BY NatLessThanWellFounded DEF OpToRel
<1>2. PICK n \in T : \A k \in T : <<k, n>> \notin R
  <2> HIDE DEF R
  <2> QED BY <1>1, WFMin
<1>3. ASSUME NEW k \in T PROVE n <= k
  <2>1. n \in Nat /\ k \in Nat /\ ~(k < n)
    BY <1>2, <1>3
  <2> QED BY <2>1
<1> QED
  BY <1>3, Zenon DEF Net!Min

LEMMA FreeNumber ==
    ASSUME Net!Free # {}
    PROVE  /\ Net!Min(Net!Free) \in Descriptors /\ owner[Net!Min(Net!Free)] = "free"
<1>1. Net!Free \subseteq Nat
  BY NetAssumption DEF Net!Free
<1>2. Net!Min(Net!Free) \in Net!Free
  BY <1>1, LowestNumber
<1> QED
  BY <1>2 DEF Net!Free

(* GestModem and the network *)
LEMMA ModemTypes ==
    ASSUME ModemTypeOK, ModemThread \/ Network
    PROVE  ModemTypeOK'
<1>1. ASSUME NEW ask \in BOOLEAN, NEW check \in BOOLEAN, GestModem(ask, check)
      PROVE  ModemTypeOK'
  <2>1. registered' \in BOOLEAN
    BY <1>1 DEF GestModem, AskOperator, ModemTypeOK
  <2>2. coverage' \in BOOLEAN
    BY <1>1 DEF GestModem, ModemTypeOK
  <2>3. status' \in Status
    BY <1>1 DEF GestModem, NotPresent, NotRegistered, GoOnline, StayOnline, Status, ModemTypeOK
  <2>4. CASE NotPresent \/ NotRegistered
    BY <2>1, <2>2, <2>3, <2>4 DEF NotPresent, NotRegistered, ModemTypeOK
  <2>5. CASE GoOnline
    <3>1. link' \in BOOLEAN
      BY <2>5 DEF GoOnline, RemoteConnection, ModemTypeOK
    <3> QED BY <2>1, <2>2, <2>3, <3>1 DEF ModemTypeOK
  <2>6. CASE StayOnline(check)
    <3>1. link' = (link /\ registered')
      BY <2>6 DEF StayOnline
    <3>2. link' \in BOOLEAN
      BY <2>1, <3>1 DEF ModemTypeOK
    <3> QED BY <2>1, <2>2, <2>3, <3>2 DEF ModemTypeOK
  <2> QED BY <1>1, <2>4, <2>5, <2>6 DEF GestModem
<1>2. CASE Network
  BY <1>2 DEF Network, NetworkAppears, NetworkVanishes, LinkDrops, ModemTypeOK
<1> QED
  BY <1>1, <1>2 DEF ModemThread

(* CloseRiMMSNet, with a number that may not be the socket's any more. *)
LEMMA CloseStep ==
    ASSUME Net!NetTypeOK, LinkHasSocket, FileIsOpen, Net!CloseRiMMSNet,
           UNCHANGED <<sockfd, file, leaked>>
    PROVE  /\ owner' \in [Descriptors -> {"free", "socket", "file"}]
           /\ astray' \in BOOLEAN /\ linked' = FALSE
           /\ LinkHasSocket' /\ FileIsOpen'
<1>1. /\ owner \in [Descriptors -> {"free", "socket", "file"}] /\ sockfd \in Descriptors
      /\ owner' = [owner EXCEPT ![sockfd] = "free"] /\ linked' = FALSE
      /\ file \in Descriptors \cup {Net!NoFile}
      /\ astray' = (astray \/ owner[sockfd] = "file")
  BY DEF Net!NetTypeOK, Net!CloseRiMMSNet
<1>2. /\ owner' \in [Descriptors -> {"free", "socket", "file"}]
      /\ \A d \in Descriptors : owner'[d] = IF d = sockfd THEN "free" ELSE owner[d]
  BY <1>1
<1>3. astray' \in BOOLEAN /\ (~astray' => ~astray /\ owner[sockfd] # "file")
  BY <1>1
<1>4. LinkHasSocket'
  <2> SUFFICES ASSUME ~astray', ~leaked' PROVE Sockets' = {}
    BY <1>1 DEF LinkHasSocket
  <2>1. ~astray /\ ~leaked
    BY <1>3
  <2>2. Sockets \subseteq {sockfd}
    BY <2>1 DEF LinkHasSocket
  <2> QED BY <1>2, <2>2 DEF Sockets
<1>5. FileIsOpen'
  <2> SUFFICES ASSUME ~astray', file # Net!NoFile PROVE owner'[file] = "file"
    BY DEF FileIsOpen
  <2>1. owner[file] = "file" /\ file \in Descriptors /\ file # sockfd
    BY <1>1, <1>3 DEF FileIsOpen
  <2> QED BY <1>2, <2>1
<1> QED
  BY <1>1, <1>2, <1>3, <1>4, <1>5

(* A number that was free gets an owner. *)
LEMMA TakeStep ==
    ASSUME Net!NetTypeOK, LinkHasSocket, FileIsOpen, NEW d \in Descriptors, owner[d] = "free",
           NEW w \in {"socket", "file"}, owner' = [owner EXCEPT ![d] = w], UNCHANGED astray,
           \/ /\ w = "file" /\ file' = d
              /\ UNCHANGED <<linked, sockfd, leaked>>
           \/ /\ w = "socket" /\ ~linked /\ sockfd' = d /\ UNCHANGED file
              /\ (leaked' /\ ~linked') \/ (linked' /\ UNCHANGED leaked)
    PROVE  /\ owner' \in [Descriptors -> {"free", "socket", "file"}]
           /\ LinkHasSocket' /\ FileIsOpen'
<1>1. /\ owner' \in [Descriptors -> {"free", "socket", "file"}]
      /\ \A e \in Descriptors : owner'[e] = IF e = d THEN w ELSE owner[e]
      /\ sockfd \in Descriptors /\ file \in Descriptors \cup {Net!NoFile}
      /\ linked \in BOOLEAN /\ leaked \in BOOLEAN
  BY DEF Net!NetTypeOK
<1>2. LinkHasSocket'
  <2> SUFFICES ASSUME ~astray' PROVE /\ linked' => owner'[sockfd'] = "socket"
                                     /\ ~leaked' => Sockets' = IF linked' THEN {sockfd'} ELSE {}
    BY DEF LinkHasSocket
  <2>1. CASE w = "file"
    <3>1. UNCHANGED <<linked, sockfd, leaked>> /\ Sockets' = Sockets
      BY <1>1, <2>1 DEF Sockets
    <3>2. linked => d # sockfd
      BY DEF LinkHasSocket
    <3> QED BY <1>1, <3>1, <3>2 DEF LinkHasSocket
  <2>2. CASE w = "socket"
    <3>1. Sockets' = Sockets \cup {d}
      BY <1>1, <2>2 DEF Sockets
    <3>2. /\ ~linked /\ sockfd' = d /\ ((leaked' /\ ~linked') \/ (linked' /\ UNCHANGED leaked))
      BY <2>2
    <3>3. ~leaked => Sockets = {}
      BY <3>2 DEF LinkHasSocket
    <3> QED BY <1>1, <2>2, <3>1, <3>2, <3>3
  <2> QED BY <2>1, <2>2
<1>3. FileIsOpen'
  BY <1>1 DEF FileIsOpen
<1> QED
  BY <1>1, <1>2, <1>3

(* The steps of GestRiMMSNet and of the other threads' files. *)
LEMMA NetStep ==
    ASSUME Net!NetTypeOK, LinkHasSocket, FileIsOpen, Net!GestRiMMSNet \/ Net!Files
    PROVE  Net!NetTypeOK' /\ LinkHasSocket' /\ FileIsOpen'
<1>0. /\ linked \in BOOLEAN /\ leaked \in BOOLEAN /\ astray \in BOOLEAN
      /\ sockfd \in Descriptors /\ file \in Descriptors \cup {Net!NoFile}
      /\ silence \in 0..(PingPeriod + 1) /\ 0 \in 0..(PingPeriod + 1)
      /\ npc \in {"gest", "receive", "ping", "done"}
      /\ owner \in [Descriptors -> {"free", "socket", "file"}]
  BY NetAssumption DEF Net!NetTypeOK
<1>1. CASE Net!NotDue \/ Net!Offline \/ Net!StayConnected \/ Net!ReceiveNothing
           \/ Net!ReceiveCommand \/ Net!NoPing \/ Net!Ping
  <2>1. /\ UNCHANGED <<linked, sockfd, owner, file, leaked, astray>>
        /\ silence' \in {silence, 0} /\ npc' \in {"gest", "receive", "ping", "done"}
    BY <1>1 DEF Net!NotDue, Net!Offline, Net!StayConnected, Net!ReceiveNothing,
                Net!ReceiveCommand, Net!NoPing, Net!Ping
  <2> QED BY <1>0, <2>1 DEF Net!NetTypeOK, LinkHasSocket, FileIsOpen, Sockets
<1>2. CASE Net!OpenSocket \/ Net!OpenSocketLeaks
  <2> DEFINE d == Net!Min(Net!Free)
  <2>1. /\ Net!Free # {} /\ sockfd' = d /\ owner' = [owner EXCEPT ![d] = "socket"]
        /\ ~linked /\ UNCHANGED <<file, astray>> /\ silence' = 0 /\ npc' = "done"
        /\ (leaked' = TRUE /\ linked' = linked) \/ (linked' = TRUE /\ leaked' = leaked)
    BY <1>2 DEF Net!OpenSocket, Net!OpenSocketLeaks
  <2>2. d \in Descriptors /\ owner[d] = "free"
    BY <2>1, FreeNumber
  <2> HIDE DEF d
  <2>3. /\ owner' \in [Descriptors -> {"free", "socket", "file"}] /\ LinkHasSocket' /\ FileIsOpen'
    <3>1. (leaked' /\ ~linked') \/ (linked' /\ UNCHANGED leaked)
      BY <2>1
    <3>2. ~linked /\ UNCHANGED file /\ UNCHANGED astray /\ "socket" \in {"socket", "file"}
      BY <2>1
    <3> QED BY <2>1, <2>2, <3>1, <3>2, TakeStep
  <2> QED BY <1>0, <2>1, <2>2, <2>3 DEF Net!NetTypeOK
<1>3. CASE Net!OpenSocketFails
  <2>1. /\ ~linked /\ UNCHANGED <<linked, owner, file, leaked, astray>>
        /\ silence' = 0 /\ npc' = "done"
        /\ sockfd' = IF Net!Free = {} THEN sockfd ELSE Net!Min(Net!Free)
    BY <1>3 DEF Net!OpenSocketFails
  <2>2. sockfd' \in Descriptors
    BY <1>0, <2>1, FreeNumber
  <2> QED BY <1>0, <2>1, <2>2 DEF Net!NetTypeOK, LinkHasSocket, FileIsOpen, Sockets
<1>4. CASE Net!Disconnect \/ Net!ReceiveCommandAnswerFails \/ Net!PingFails
  <2>1. /\ Net!CloseRiMMSNet /\ UNCHANGED <<sockfd, file, leaked>>
        /\ silence' \in {silence, 0} /\ npc' \in {"gest", "receive", "ping", "done"}
    BY <1>4 DEF Net!Disconnect, Net!ReceiveCommandAnswerFails, Net!PingFails
  <2>2. /\ owner' \in [Descriptors -> {"free", "socket", "file"}]
        /\ astray' \in BOOLEAN /\ linked' = FALSE /\ LinkHasSocket' /\ FileIsOpen'
    BY <2>1, CloseStep
  <2> QED BY <1>0, <2>1, <2>2 DEF Net!NetTypeOK
<1>5. CASE Net!OpenFile
  <2> DEFINE d == Net!Min(Net!Free)
  <2>1. /\ Net!Free # {} /\ file = Net!NoFile /\ file' = d /\ owner' = [owner EXCEPT ![d] = "file"]
        /\ UNCHANGED <<linked, sockfd, silence, npc, leaked, astray>>
    BY <1>5 DEF Net!OpenFile
  <2>2. d \in Descriptors /\ owner[d] = "free"
    BY <2>1, FreeNumber
  <2> HIDE DEF d
  <2>3. /\ owner' \in [Descriptors -> {"free", "socket", "file"}] /\ LinkHasSocket' /\ FileIsOpen'
    <3>1. UNCHANGED <<linked, sockfd, leaked>> /\ UNCHANGED astray /\ "file" \in {"socket", "file"}
      BY <2>1
    <3> QED BY <2>1, <2>2, <3>1, TakeStep
  <2> QED BY <1>0, <2>1, <2>2, <2>3 DEF Net!NetTypeOK
<1>6. CASE Net!CloseFile
  <2>1. /\ file \in Descriptors /\ file' = Net!NoFile /\ owner' = [owner EXCEPT ![file] = "free"]
        /\ UNCHANGED <<linked, sockfd, silence, npc, leaked, astray>>
    BY <1>0, <1>6 DEF Net!CloseFile
  <2>2. /\ owner' \in [Descriptors -> {"free", "socket", "file"}]
        /\ \A d \in Descriptors : owner'[d] = IF d = file THEN "free" ELSE owner[d]
    BY <1>0, <2>1
  <2>3. ASSUME ~astray PROVE Sockets' = Sockets /\ (linked => sockfd # file)
    <3>1. owner[file] = "file"
      BY <1>6, <2>3 DEF FileIsOpen, Net!CloseFile
    <3> QED BY <2>2, <2>3, <3>1 DEF Sockets, LinkHasSocket
  <2>4. LinkHasSocket'
    BY <1>0, <2>1, <2>2, <2>3 DEF LinkHasSocket
  <2> QED BY <1>0, <2>1, <2>2, <2>4 DEF Net!NetTypeOK, FileIsOpen
<1> QED
  BY <1>1, <1>2, <1>3, <1>4, <1>5, <1>6 DEF Net!GestRiMMSNet, Net!Files

(* UplinkInv: whatever the modem, the network, the server and the files of  *)
(* the other threads do, and however many numbers there are, a linked       *)
(* uplink has its socket, until CloseRiMMSNet was called with an old number. *)
THEOREM LinkKeepsItsSocket == UplinkSpec => []UplinkInv
<1>1. UplinkInit => UplinkProven
  <2> SUFFICES ASSUME UplinkInit PROVE UplinkProven
    OBVIOUS
  <2>1. Net!Min(Descriptors) \in Descriptors
    <3>1. Descriptors \subseteq Nat /\ Descriptors # {}
      BY NetAssumption
    <3> QED BY <3>1, LowestNumber
  <2>2. /\ Net!NetTypeOK
    <3>1. 0 \in 0..(PingPeriod + 1)
      BY NetAssumption
    <3>2. owner \in [Descriptors -> {"free", "socket", "file"}]
      BY DEF UplinkInit, Net!NetInit
    <3> QED BY <2>1, <3>1, <3>2 DEF UplinkInit, Net!NetInit, Net!NetTypeOK
  <2>3. ModemTypeOK
    BY DEF UplinkInit, ModemInit, ModemTypeOK, Status
  <2>4. LinkHasSocket /\ FileIsOpen
    BY DEF UplinkInit, Net!NetInit, LinkHasSocket, FileIsOpen, Sockets
  <2> QED BY <2>2, <2>3, <2>4 DEF UplinkInit, UplinkProven, UplinkTypeOK
<1>2. UplinkProven /\ [UplinkNext]_uplinkVars => UplinkProven'
  <2> SUFFICES ASSUME UplinkProven, [UplinkNext]_uplinkVars PROVE UplinkProven'
    OBVIOUS
  <2> USE DEF UplinkProven, UplinkTypeOK
  <2>1. CASE GestRiMMSNet \/ Files
    <3>1. Net!NetTypeOK' /\ LinkHasSocket' /\ FileIsOpen'
      BY <2>1, NetStep DEF GestRiMMSNet, Files
    <3>2. UNCHANGED <<modemVars, turn>>
      BY <2>1 DEF GestRiMMSNet, Files
    <3> QED BY <3>1, <3>2 DEF modemVars, ModemTypeOK
  <2>2. CASE GestModemOnce \/ NetworkChanges
    <3>1. ModemTypeOK'
      BY <2>2, ModemTypes DEF GestModemOnce, NetworkChanges
    <3>2. UNCHANGED <<netVars, turn>>
      BY <2>2 DEF GestModemOnce, NetworkChanges
    <3> QED BY <3>1, <3>2 DEF netVars, Net!NetTypeOK, LinkHasSocket, FileIsOpen, Sockets
  <2>3. CASE TurnToGestFtp \/ TurnToGestRiMMSNet \/ UplinkTick \/ UNCHANGED uplinkVars
    <3>1. /\ UNCHANGED <<modemVars, linked, sockfd, owner, file, leaked, astray>>
          /\ turn' \in {"GestFtp", "GestRiMMSNet"} /\ npc' \in {npc, "gest"}
      BY <2>3 DEF TurnToGestFtp, TurnToGestRiMMSNet, UplinkTick, uplinkVars, netVars
    <3>2. silence' \in 0..(PingPeriod + 1)
      BY <2>3, NetAssumption
         DEF TurnToGestFtp, TurnToGestRiMMSNet, UplinkTick, Net!NetTick, Net!NetTypeOK,
             uplinkVars, netVars
    <3>3. Net!NetTypeOK'
      BY <3>1, <3>2 DEF Net!NetTypeOK
    <3>4. ModemTypeOK'
      BY <3>1 DEF modemVars, ModemTypeOK
    <3> QED BY <3>1, <3>3, <3>4 DEF LinkHasSocket, FileIsOpen, Sockets
  <2> QED BY <2>1, <2>2, <2>3 DEF UplinkNext, ThreadComunication
<1>3. UplinkProven => UplinkInv
  BY DEF UplinkProven, UplinkInv
<1> QED
  BY <1>1, <1>2, <1>3, PTL DEF UplinkSpec
=============================================================================
