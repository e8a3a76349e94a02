---------------------------- MODULE MCRadioParser ----------------------------
(* Instance of RadioParser: the gateway's address. *)
EXTENDS RadioParser

GwBytes == <<1, 2>>
=============================================================================
