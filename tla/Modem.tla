-------------------------------- MODULE Modem --------------------------------
(***************************************************************************)
(* GestModem (modem.c), which thread_modem runs twice a second for the USB *)
(* modem, the type a missing or unknown "modemtype" gives.  The modem, the *)
(* cellular network and pppd are external: coverage says that the network  *)
(* would register the modem and let pppd connect, link that the ppp        *)
(* interface has an address.                                               *)
(*                                                                         *)
(* Timers are abstracted to whether they have expired in this call; the    *)
(* LAN type, which no configuration selects, only moves to ONLINE.         *)
(***************************************************************************)
CONSTANT Present  \* InitModem could open the modem's port

ASSUME PresentAssumption == Present \in BOOLEAN

Status == {"NOTPRES", "NOTREG", "GOONLINE", "ONLINE"}

VARIABLES
    status,      \* Modem.status
    registered,  \* Modem.registered, what the last +COPS answer said
    link,        \* the ppp interface has an address
    coverage     \* the network would have us

modemVars == <<status, registered, link, coverage>>

(* GetModemStatus *)
Online == status = "ONLINE"

(* ModemOperator, when timergest has expired: no answer changes nothing,    *)
(* and an answer that is read in part looks like "not registered".          *)
AskOperator(ask) ==
    registered' \in IF ask /\ status # "NOTPRES"
                      THEN {registered, coverage, FALSE}
                      ELSE {registered}

(* RemoteConnection(1): pon is tried until the interface has an address, six *)
(* times at most, with poff after each failure.                             *)
RemoteConnection(done) ==
    /\ done => link \/ coverage
    /\ link => done
    /\ link' = done

(* The switch of GestModem, on the registration this call has just learnt. *)
NotPresent ==
    /\ status = "NOTPRES"
    /\ status' = IF Present THEN "NOTREG" ELSE "NOTPRES"
    /\ UNCHANGED link

(* Mutant: the link is looked at before it is asked for. *)
NotRegisteredOrLinked ==
    /\ status = "NOTREG"
    /\ status' = IF ~Present THEN "NOTPRES"
                 ELSE IF registered' /\ link THEN "GOONLINE" ELSE "NOTREG"
    /\ UNCHANGED link

NotRegistered ==
    /\ status = "NOTREG"
    /\ status' = IF ~Present THEN "NOTPRES"
                 ELSE IF registered' THEN "GOONLINE" ELSE "NOTREG"
    /\ UNCHANGED link

GoOnline ==
    /\ status = "GOONLINE"
    /\ \/ /\ registered'
          /\ \E done \in BOOLEAN :
                /\ RemoteConnection(done)
                /\ status' = IF done THEN "ONLINE" ELSE "GOONLINE"
       \/ /\ ~registered'
          /\ status' = "NOTREG"
          /\ UNCHANGED link

(* Mutant: the link is not looked at. *)
StayOnlineUnchecked(check) ==
    /\ status = "ONLINE"
    /\ status' = IF ~registered' THEN "NOTREG" ELSE "ONLINE"
    /\ link' = (link /\ registered')

(* timercheck: GetRemoteConnection is looked at every three seconds. *)
StayOnline(check) ==
    /\ status = "ONLINE"
    /\ status' = IF ~registered' THEN "NOTREG"
                 ELSE IF check /\ ~link THEN "GOONLINE"
                 ELSE "ONLINE"
    /\ link' = (link /\ registered')  \* poff

GestModem(ask, check) ==
    /\ AskOperator(ask)
    /\ \/ NotPresent
       \/ NotRegistered
       \/ GoOnline
       \/ StayOnline(check)
    /\ UNCHANGED coverage

(* The same when the modem answers in full and pon connects if it can. *)
GestModemWell(ask, check) ==
    /\ GestModem(ask, check)
    /\ ask /\ status # "NOTPRES" => registered' = coverage
    /\ status = "GOONLINE" /\ registered' => status' = "ONLINE"

NetworkAppears ==
    /\ ~coverage
    /\ coverage' = TRUE
    /\ UNCHANGED <<status, registered, link>>

NetworkVanishes ==
    /\ coverage
    /\ coverage' = FALSE
    /\ UNCHANGED <<status, registered, link>>

LinkDrops ==
    /\ link
    /\ link' = FALSE
    /\ UNCHANGED <<status, registered, coverage>>

ModemInit ==
    /\ status = "NOTPRES" /\ registered = FALSE
    /\ link = FALSE /\ coverage \in BOOLEAN

ModemThread == \E ask, check \in BOOLEAN : GestModem(ask, check)
Network == NetworkAppears \/ NetworkVanishes \/ LinkDrops

ModemTypeOK ==
    /\ status \in Status /\ registered \in BOOLEAN
    /\ link \in BOOLEAN /\ coverage \in BOOLEAN
=============================================================================
