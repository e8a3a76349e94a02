------------------------------- MODULE RiMMSNet -------------------------------
(***************************************************************************)
(* GestRiMMSNet (rimmsnet.c), which thread_comunication calls after        *)
(* GestFtp: the UDP socket over which the server sends commands.  The      *)
(* other threads open and close files meanwhile, so what matters is which  *)
(* descriptor each call uses and whose it is at that moment.               *)
(***************************************************************************)
EXTENDS Naturals, FiniteSets, FiniteSetsExt

CONSTANTS
    Descriptors,    \* the numbers the process may get from the kernel
    ConnectPeriod,  \* seconds between two attempts, 5 in the code
    PingPeriod      \* seconds of silence before a PING, 15 in the code

VARIABLES
    modemOnline,  \* GetModemStatus() == 1
    linked,       \* RiMMSNet.status is 1
    sockfd,       \* RiMMSNet.sockfd, a number that may be out of date
    silence,      \* seconds since timerconnect, as far as they matter
    npc,          \* where thread_comunication is in GestRiMMSNet
    owner,        \* who owns each descriptor: "free", "socket" or "file"
    file,         \* the descriptor of the file another thread has open
    leaked,       \* OpenRiMMSNet has failed after socket() and kept the descriptor
    astray        \* observed only: CloseRiMMSNet closed another thread's file

netVars == <<linked, sockfd, silence, npc, owner, file, leaked, astray>>

NoFile == 0

Free == {d \in Descriptors : owner[d] = "free"}

-----------------------------------------------------------------------------
(* case 0: every five seconds, if the modem is online. *)
NotDue ==
    /\ npc = "gest" /\ ~linked
    /\ silence <= ConnectPeriod
    /\ npc' = "done"
    /\ UNCHANGED <<linked, sockfd, silence, owner, file, leaked, astray>>

Offline ==
    /\ npc = "gest" /\ ~linked
    /\ silence > ConnectPeriod
    /\ ~modemOnline
    /\ silence' = 0
    /\ npc' = "done"
    /\ UNCHANGED <<linked, sockfd, owner, file, leaked, astray>>

(* OpenRiMMSNet and the PING that follows. *)
OpenSocket ==
    /\ npc = "gest" /\ ~linked
    /\ silence > ConnectPeriod
    /\ modemOnline
    /\ Free # {}
    /\ sockfd' = Min(Free)
    /\ owner' = [owner EXCEPT ![sockfd'] = "socket"]
    /\ linked' = TRUE
    /\ silence' = 0
    /\ npc' = "done"
    /\ UNCHANGED <<file, leaked, astray>>

(* The host name cannot be resolved: the socket is not closed. *)
OpenSocketLeaks ==
    /\ npc = "gest" /\ ~linked
    /\ silence > ConnectPeriod
    /\ modemOnline
    /\ Free # {}
    /\ sockfd' = Min(Free)
    /\ owner' = [owner EXCEPT ![sockfd'] = "socket"]
    /\ leaked' = TRUE
    /\ silence' = 0
    /\ npc' = "done"
    /\ UNCHANGED <<linked, file, astray>>

(* socket() fails, or the PING does and CloseRiMMSNet follows. *)
OpenSocketFails ==
    /\ npc = "gest" /\ ~linked
    /\ silence > ConnectPeriod
    /\ modemOnline
    /\ sockfd' = IF Free = {} THEN sockfd ELSE Min(Free)
    /\ silence' = 0
    /\ npc' = "done"
    /\ UNCHANGED <<linked, owner, file, leaked, astray>>

-----------------------------------------------------------------------------
(* Mutant: status is not reset. *)
CloseKeepingStatus ==
    /\ owner' = [owner EXCEPT ![sockfd] = "free"]
    /\ astray' = (astray \/ owner[sockfd] = "file")
    /\ UNCHANGED linked

(* CloseRiMMSNet: whatever has the number is closed. *)
CloseRiMMSNet ==
    /\ owner' = [owner EXCEPT ![sockfd] = "free"]
    /\ astray' = (astray \/ owner[sockfd] = "file")
    /\ linked' = FALSE

(* case 1, first part: the modem went offline; the code goes on below. *)
Disconnect ==
    /\ npc = "gest" /\ linked
    /\ ~modemOnline
    /\ CloseRiMMSNet
    /\ npc' = "receive"
    /\ UNCHANGED <<sockfd, silence, file, leaked>>

StayConnected ==
    /\ npc = "gest" /\ linked
    /\ modemOnline
    /\ npc' = "receive"
    /\ UNCHANGED <<linked, sockfd, silence, owner, file, leaked, astray>>

(* Mutant: recvfrom without data is taken for an error. *)
ReceiveNothingCloses ==
    /\ npc = "receive"
    /\ CloseRiMMSNet
    /\ npc' = "ping"
    /\ UNCHANGED <<sockfd, silence, file, leaked>>

(* recvfrom, and for a command its answer. *)
ReceiveNothing ==
    /\ npc = "receive"
    /\ npc' = "ping"
    /\ UNCHANGED <<linked, sockfd, silence, owner, file, leaked, astray>>

ReceiveCommand ==
    /\ npc = "receive"
    /\ owner[sockfd] = "socket"
    /\ silence' = 0
    /\ npc' = "ping"
    /\ UNCHANGED <<linked, sockfd, owner, file, leaked, astray>>

ReceiveCommandAnswerFails ==
    /\ npc = "receive"
    /\ owner[sockfd] = "socket"
    /\ silence' = 0
    /\ CloseRiMMSNet
    /\ npc' = "ping"
    /\ UNCHANGED <<sockfd, file, leaked>>

(* The PING after fifteen seconds of silence. *)
NoPing ==
    /\ npc = "ping"
    /\ silence <= PingPeriod
    /\ npc' = "done"
    /\ UNCHANGED <<linked, sockfd, silence, owner, file, leaked, astray>>

Ping ==
    /\ npc = "ping"
    /\ silence > PingPeriod
    /\ owner[sockfd] = "socket"
    /\ silence' = 0
    /\ npc' = "done"
    /\ UNCHANGED <<linked, sockfd, owner, file, leaked, astray>>

(* sendto fails, as it does on anything but a socket, and sockfd is closed. *)
PingFails ==
    /\ npc = "ping"
    /\ silence > PingPeriod
    /\ silence' = 0
    /\ CloseRiMMSNet
    /\ npc' = "done"
    /\ UNCHANGED <<sockfd, file, leaked>>

-----------------------------------------------------------------------------
(* Another thread opens and closes a file, as WriteToFile does. *)
OpenFile ==
    /\ file = NoFile
    /\ Free # {}
    /\ file' = Min(Free)
    /\ owner' = [owner EXCEPT ![file'] = "file"]
    /\ UNCHANGED <<linked, sockfd, silence, npc, leaked, astray>>

CloseFile ==
    /\ file # NoFile
    /\ owner' = [owner EXCEPT ![file] = "free"]
    /\ file' = NoFile
    /\ UNCHANGED <<linked, sockfd, silence, npc, leaked, astray>>

NetTick == silence' = IF silence > PingPeriod THEN silence ELSE silence + 1

-----------------------------------------------------------------------------
NetInit ==
    /\ linked = FALSE /\ sockfd = Min(Descriptors) /\ silence = 0
    /\ npc = "done"
    /\ owner = [d \in Descriptors |-> "free"] /\ file = NoFile
    /\ leaked = FALSE /\ astray = FALSE

GestRiMMSNet ==
    \/ NotDue
    \/ Offline
    \/ OpenSocket
    \/ OpenSocketLeaks
    \/ OpenSocketFails
    \/ Disconnect
    \/ StayConnected
    \/ ReceiveNothing
    \/ ReceiveCommand
    \/ ReceiveCommandAnswerFails
    \/ NoPing
    \/ Ping
    \/ PingFails

Files == OpenFile \/ CloseFile

NetTypeOK ==
    /\ linked \in BOOLEAN /\ leaked \in BOOLEAN /\ astray \in BOOLEAN
    /\ sockfd \in Descriptors /\ file \in Descriptors \cup {NoFile}
    /\ silence \in 0..(PingPeriod + 1)
    /\ npc \in {"gest", "receive", "ping", "done"}
    /\ owner \in [Descriptors -> {"free", "socket", "file"}]
=============================================================================
