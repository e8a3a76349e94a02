------------------------------ MODULE Lifecycle ------------------------------
(***************************************************************************)
(* main (main.c) from the installation of its signal handlers to its end,  *)
(* and the frame of the four threads it starts: data.flagexit tells them   *)
(* to stop, data.flagexit_<thread> tells main that they have not stopped   *)
(* yet.  What a thread does in a pass of its loop is a "call", of which    *)
(* only the requests to stop the system matter here.                       *)
(***************************************************************************)
EXTENDS Naturals, Sequences

CONSTANTS
    Patience,       \* sleeps of main before it cancels a thread, 10 in the code
    RebootPress,    \* passes of thread_io for which the switch is held down
                    \* before its release means a reboot, 30 in the code
    PowerOffPress   \* the same for a power-off, 50 in the code

ASSUME LifecycleAssumption ==
    /\ Patience \in Nat
    /\ RebootPress \in Nat \ {0} /\ PowerOffPress \in Nat
    /\ RebootPress < PowerOffPress

CreateOrder == <<"io", "modem", "RiMMS", "comunication">>

JoinOrder == <<"RiMMS", "comunication", "modem", "io">>

Threads == {"io", "modem", "RiMMS", "comunication"}

(* The threads that execute commands, in GestSMComunication and GestRiMMSNet. *)
Commanded == {"RiMMS", "comunication"}

Requests == {"reboot", "poweroff"}

VARIABLES
    mpc,        \* where main is
    stage,      \* which thread main creates or waits for
    x,          \* sleeps of main for that thread
    flagexit,   \* data.flagexit
    running,    \* the threads whose data.flagexit_<thread> is 1
    tpc,        \* where each thread is
    cancelled,  \* the threads that pthread_cancel was called for
    flags,      \* which of flagrebootsystem and flagpoweroffsystem are 1
    held,       \* filtroswitch, as far as it matters
    command,    \* what main has asked the operating system for
    signalled   \* observed only: a signal has called signal_handler

mainVars == <<mpc, stage, x, command>>
others == <<flags, held, signalled>>
lifecycleVars == <<mainVars, flagexit, running, tpc, cancelled, others>>

Goes(t, place) == tpc' = [tpc EXCEPT ![t] = place]

-----------------------------------------------------------------------------
(* The variables are initialised after the signal handlers are installed. *)
Startup ==
    /\ mpc = "early"
    /\ mpc' = "init"
    /\ flagexit' = 1
    /\ running' = {}
    /\ flags' = {}
    /\ UNCHANGED <<stage, x, command, tpc, cancelled, held, signalled>>

(* Memory, display, configuration, devices, modem, serial port and so on. *)
Initialise ==
    /\ mpc = "init"
    /\ mpc' = "create"
    /\ UNCHANGED <<stage, x, command, flagexit, running, tpc, cancelled, others>>

(* Mutant: the flags are initialised when threads run already. *)
CreateThreadThenClears ==
    /\ mpc = "create"
    /\ Goes(CreateOrder[stage], "created")
    /\ IF stage = Len(CreateOrder)
         THEN stage' = 1 /\ mpc' = "run"
         ELSE stage' = stage + 1 /\ mpc' = mpc
    /\ flags' = {}
    /\ UNCHANGED <<x, command, flagexit, running, cancelled, held, signalled>>

CreateThread ==
    /\ mpc = "create"
    /\ Goes(CreateOrder[stage], "created")
    /\ IF stage = Len(CreateOrder)
         THEN stage' = 1 /\ mpc' = "run"
         ELSE stage' = stage + 1 /\ mpc' = mpc
    /\ UNCHANGED <<x, command, flagexit, running, cancelled, others>>

(* main returns, and with it the process and its threads end. *)
StartFails ==
    /\ mpc \in {"early", "init", "create"}
    /\ mpc' = "failed"
    /\ tpc' = [t \in Threads |-> "gone"]
    /\ UNCHANGED <<stage, x, command, flagexit, running, cancelled, others>>

StopHeard ==
    /\ mpc = "run"
    /\ flagexit = 0
    /\ mpc' = "wait"
    /\ x' = 0
    /\ UNCHANGED <<stage, command, flagexit, running, tpc, cancelled, others>>

(* Mutant: a thread that does not end is waited for without end. *)
WaitForThreadForEver ==
    /\ mpc = "wait"
    /\ JoinOrder[stage] \in running
    /\ UNCHANGED lifecycleVars

(* sleep(1), and the thread is cancelled when that was once too often. *)
WaitForThread ==
    /\ mpc = "wait"
    /\ JoinOrder[stage] \in running
    /\ IF x >= Patience
         THEN /\ cancelled' = cancelled \union {JoinOrder[stage]}
              /\ running' = running \ {JoinOrder[stage]}
         ELSE UNCHANGED <<cancelled, running>>
    /\ x' = x + 1
    /\ UNCHANGED <<mpc, stage, command, flagexit, tpc, flags, held, signalled>>

WaitOver ==
    /\ mpc = "wait"
    /\ JoinOrder[stage] \notin running
    /\ mpc' = "join"
    /\ UNCHANGED <<stage, x, command, flagexit, running, tpc, cancelled, others>>

NextThread ==
    IF stage = Len(JoinOrder)
      THEN stage' = stage /\ x' = x /\ mpc' = "close"
      ELSE stage' = stage + 1 /\ x' = 0 /\ mpc' = "wait"

(* Mutant: a thread that was cancelled is not waited for any more. *)
JoinUnlessCancelled ==
    /\ mpc = "join"
    /\ tpc[JoinOrder[stage]] = "gone" \/ JoinOrder[stage] \in cancelled
    /\ NextThread
    /\ UNCHANGED <<command, flagexit, running, tpc, cancelled, others>>

(* pthread_join returns when the thread has ended, cancelled or not. *)
Join ==
    /\ mpc = "join"
    /\ tpc[JoinOrder[stage]] = "gone"
    /\ NextThread
    /\ UNCHANGED <<command, flagexit, running, tpc, cancelled, others>>

(* CloseDevices, CloseSerial, CloseShadowMemory and poff. *)
Close ==
    /\ mpc = "close"
    /\ mpc' = "command"
    /\ UNCHANGED <<stage, x, command, flagexit, running, tpc, cancelled, others>>

Finish ==
    /\ mpc = "command"
    /\ mpc' = "done"
    /\ command' = IF "reboot" \in flags THEN "reboot"
                  ELSE IF "poweroff" \in flags THEN "poweroff" ELSE "none"
    /\ UNCHANGED <<stage, x, flagexit, running, tpc, cancelled, others>>

Main ==
    \/ Startup
    \/ Initialise
    \/ CreateThread
    \/ StartFails
    \/ StopHeard
    \/ WaitForThread
    \/ WaitOver
    \/ Join
    \/ Close
    \/ Finish

-----------------------------------------------------------------------------
(* A thread sets its flag, and for thread_comunication stores the start tags. *)
Started(t) ==
    /\ tpc[t] = "created"
    /\ Goes(t, "loop")
    /\ running' = running \union {t}
    /\ UNCHANGED <<mainVars, flagexit, cancelled, others>>

Enter(t) ==
    /\ tpc[t] = "loop"
    /\ flagexit = 1
    /\ Goes(t, "call")
    /\ UNCHANGED <<mainVars, flagexit, running, cancelled, others>>

(* Parser, GestFtp, GestModem and so on return, which may take a while. *)
CallReturns(t) ==
    /\ t # "io"
    /\ tpc[t] = "call"
    /\ Goes(t, "loop")
    /\ UNCHANGED <<mainVars, flagexit, running, cancelled, others>>

(* RebootSystem and PowerOff set their flag, and then flagexit; a pass       *)
(* executes one command at most, as the last thing it does.                 *)
Ask(t, request) ==
    /\ tpc[t] = "call"
    /\ flags' = flags \union {request}
    /\ Goes(t, "asking")
    /\ UNCHANGED <<flagexit, running, cancelled>>

AskExit(t) ==
    /\ tpc[t] = "asking"
    /\ flagexit' = 0
    /\ Goes(t, "loop")
    /\ UNCHANGED <<mainVars, running, cancelled, others>>

(* SYSTEM,REBOOT and SYSTEM,POWEROFF. *)
CommandAsks(t) ==
    /\ t \in Commanded
    /\ \E request \in Requests : Ask(t, request)
    /\ UNCHANGED <<mainVars, held, signalled>>

(* A pass of thread_io with the switch held down ... *)
SwitchHeld ==
    /\ tpc["io"] = "call"
    /\ held' = IF held = PowerOffPress THEN held ELSE held + 1
    /\ Goes("io", "loop")
    /\ UNCHANGED <<mainVars, flagexit, running, cancelled, flags, signalled>>

(* ... one with the switch up, after too short a time to mean anything ... *)
SwitchUp ==
    /\ tpc["io"] = "call"
    /\ held < RebootPress
    /\ held' = 0
    /\ Goes("io", "loop")
    /\ UNCHANGED <<mainVars, flagexit, running, cancelled, flags, signalled>>

(* ... and one that sees it released after a time that does. *)
SwitchAsks ==
    /\ held >= RebootPress
    /\ Ask("io", IF held >= PowerOffPress THEN "poweroff" ELSE "reboot")
    /\ held' = 0
    /\ UNCHANGED <<mainVars, signalled>>

Leave(t) ==
    /\ tpc[t] = "loop"
    /\ flagexit = 0
    /\ Goes(t, "leaving")
    /\ UNCHANGED <<mainVars, flagexit, running, cancelled, others>>

ClearRunning(t) ==
    /\ tpc[t] = "leaving"
    /\ Goes(t, "exiting")
    /\ running' = running \ {t}
    /\ UNCHANGED <<mainVars, flagexit, cancelled, others>>

Exit(t) ==
    /\ tpc[t] = "exiting"
    /\ Goes(t, "gone")
    /\ UNCHANGED <<mainVars, flagexit, running, cancelled, others>>

(* A cancelled thread ends where it next waits: in a call or in usleep. *)
Cancelled(t) ==
    /\ t \in cancelled
    /\ tpc[t] \in {"loop", "call", "leaving"}
    /\ Goes(t, "gone")
    /\ UNCHANGED <<mainVars, flagexit, running, cancelled, others>>

Proceed(t) ==
    \/ Started(t)
    \/ Enter(t)
    \/ AskExit(t)
    \/ Leave(t)
    \/ ClearRunning(t)
    \/ Exit(t)
    \/ Cancelled(t)

ThreadRuns(t) == Proceed(t) \/ CallReturns(t) \/ CommandAsks(t)

Switch == SwitchHeld \/ SwitchUp \/ SwitchAsks

(* signal_handler. *)
Signal ==
    /\ mpc \notin {"done", "failed"}
    /\ flagexit' = 0
    /\ signalled' = TRUE
    /\ UNCHANGED <<mainVars, running, tpc, cancelled, flags, held>>

LifecycleInit ==
    /\ mpc = "early"
    /\ stage = 1
    /\ x = 0
    /\ flagexit = 0
    /\ running = {}
    /\ tpc = [t \in Threads |-> "none"]
    /\ cancelled = {}
    /\ flags = {}
    /\ held = 0
    /\ command = "none"
    /\ signalled = FALSE

LifecycleNext ==
    \/ Main
    \/ \E t \in Threads : ThreadRuns(t)
    \/ Switch
    \/ Signal

LifecycleSpec == LifecycleInit /\ [][LifecycleNext]_lifecycleVars

(* Nothing is assumed of the calls: one may never return. *)
FairLifecycleSpec ==
    /\ LifecycleSpec
    /\ WF_lifecycleVars(Main)
    /\ \A t \in Threads : WF_lifecycleVars(Proceed(t))

-----------------------------------------------------------------------------
(* Types.  x stops one above Patience, held at PowerOffPress. *)
LifecycleTypeOK ==
    /\ mpc \in {"early", "init", "create", "run", "wait", "join", "close",
                "command", "done", "failed"}
    /\ stage \in DOMAIN JoinOrder
    /\ x \in 0..(Patience + 1)
    /\ flagexit \in {0, 1}
    /\ running \subseteq Threads
    /\ tpc \in [Threads -> {"none", "created", "loop", "call", "asking", "leaving",
                           "exiting", "gone"}]
    /\ cancelled \subseteq Threads
    /\ flags \subseteq Requests
    /\ held \in 0..PowerOffPress
    /\ command \in Requests \union {"none"}
    /\ signalled \in BOOLEAN

(* main frees the buffers of the serial port and detaches the shared memory *)
(* only when no thread can use them any more, however the threads ended.    *)
NothingRunsAfterClose ==
    mpc \in {"close", "command", "done"} => \A t \in Threads : tpc[t] = "gone"

(* The types of main and its threads, and that nothing runs after the close. *)
LifecycleInv == LifecycleTypeOK /\ NothingRunsAfterClose

(* A program that stops without having been sent a signal was asked to      *)
(* restart or to switch off the system, by command or by switch, and does:  *)
(* whatever thread has asked, and when, main knows of it at its end.        *)
RequestsHonoured ==
    mpc = "done" =>
        IF command = "none" THEN signalled /\ flags = {} ELSE command \in flags

(* Once main has initialised its variables, flagexit = 0 ends the program,  *)
(* even while a thread hangs in a call or has only just been created.       *)
ShutdownEnds == mpc # "early" /\ flagexit = 0 ~> mpc \in {"done", "failed"}
=============================================================================
