-------------------------------- MODULE Uplink --------------------------------
(***************************************************************************)
(* The way to the server: thread_modem (Modem), thread_comunication, which *)
(* calls GestFtp and GestRiMMSNet (RiMMSNet) in turn, and the files the    *)
(* other threads open (main.c).  GestRiMMSNet sees the modem through       *)
(* GetModemStatus only, at the moment it asks.  Of GestFtp all that        *)
(* matters here is that it may take any time.                              *)
(***************************************************************************)
EXTENDS Modem, Naturals, FiniteSets

CONSTANTS Descriptors, ConnectPeriod, PingPeriod  \* as in RiMMSNet

ASSUME NetAssumption ==
    /\ Descriptors \subseteq Nat \ {0} /\ IsFiniteSet(Descriptors)
    /\ Descriptors # {}
    /\ ConnectPeriod \in Nat /\ PingPeriod \in Nat /\ ConnectPeriod < PingPeriod

VARIABLES
    linked, sockfd, silence, npc, owner, file, leaked, astray,
    turn  \* what thread_comunication calls: "GestFtp" or "GestRiMMSNet"

Net == INSTANCE RiMMSNet WITH modemOnline <- Online

netVars == <<linked, sockfd, silence, npc, owner, file, leaked, astray>>
uplinkVars == <<modemVars, netVars, turn>>

-----------------------------------------------------------------------------
(* The loop of thread_comunication. *)
TurnToGestFtp ==
    /\ turn = "GestRiMMSNet" /\ npc = "done"
    /\ turn' = "GestFtp"
    /\ UNCHANGED <<modemVars, netVars>>

TurnToGestRiMMSNet ==
    /\ turn = "GestFtp"
    /\ turn' = "GestRiMMSNet"
    /\ npc' = "gest"
    /\ UNCHANGED <<modemVars, linked, sockfd, silence, owner, file, leaked, astray>>

GestRiMMSNet == Net!GestRiMMSNet /\ UNCHANGED <<modemVars, turn>>

ThreadComunication ==
    \/ TurnToGestFtp
    \/ TurnToGestRiMMSNet
    \/ GestRiMMSNet

Files == Net!Files /\ UNCHANGED <<modemVars, turn>>

GestModemOnce == ModemThread /\ UNCHANGED <<netVars, turn>>

NetworkChanges == Network /\ UNCHANGED <<netVars, turn>>

UplinkTick ==
    /\ Net!NetTick
    /\ UNCHANGED <<modemVars, linked, sockfd, npc, owner, file, leaked, astray, turn>>

UplinkInit ==
    /\ ModemInit /\ Net!NetInit
    /\ turn = "GestRiMMSNet"

UplinkNext ==
    \/ ThreadComunication
    \/ Files
    \/ GestModemOnce
    \/ NetworkChanges
    \/ UplinkTick

UplinkSpec == UplinkInit /\ [][UplinkNext]_uplinkVars

(* The threads are scheduled, GestFtp returns and time passes; now and then *)
(* the modem answers in full.                                               *)
UplinkFairness ==
    /\ WF_uplinkVars(ThreadComunication)
    /\ WF_uplinkVars(GestModemWell(TRUE, TRUE) /\ UNCHANGED <<netVars, turn>>)
    /\ WF_uplinkVars(UplinkTick)

FairUplinkSpec == UplinkSpec /\ UplinkFairness

UplinkTypeOK ==
    /\ ModemTypeOK /\ Net!NetTypeOK
    /\ turn \in {"GestFtp", "GestRiMMSNet"}

-----------------------------------------------------------------------------
(* rimmsnet.c, state 1: while commands are awaited sockfd is the socket, and *)
(* the only other sockets are those whose server name could not be resolved *)
(* - until CloseRiMMSNet has been called with a number that was not its     *)
(* socket any more.                                                         *)
Sockets == {d \in Descriptors : owner[d] = "socket"}
LinkHasSocket ==
    ~astray =>
        /\ linked => owner[sockfd] = "socket"
        /\ ~leaked => Sockets = IF linked THEN {sockfd} ELSE {}

(* The types of modem and socket, and that the link has its socket.         *)
UplinkInv == UplinkTypeOK /\ LinkHasSocket

(* A ppp link that has gone is noticed: GestModem does not leave the modem  *)
(* ONLINE, with uploads attempted over nothing, for ever.                   *)
LossIsNoticed == Online /\ ~link ~> ~Online \/ link

(* When the network stays, the modem answers and pon connects, the modem is *)
(* ONLINE in the end and remains so.                                        *)
Disturbance ==
    \/ NetworkVanishes
    \/ LinkDrops
    \/ ModemThread /\ ~\E ask, check \in BOOLEAN : GestModemWell(ask, check)
Calm == <>[]coverage /\ <>[][~Disturbance]_uplinkVars
ComesOnline == Present /\ Calm => <>[]Online

(* GestRiMMSNet then opens its socket and keeps it, provided that socket()   *)
(* and sendto() work and the server's name is resolved.                     *)
NetFault ==
    \/ Net!OpenSocketLeaks
    \/ Net!OpenSocketFails
    \/ Net!ReceiveCommandAnswerFails
    \/ Net!PingFails
Reconnects ==
    <>[]Online /\ []~leaked /\ []~astray /\ <>[][~NetFault]_uplinkVars => <>[]linked
=============================================================================
