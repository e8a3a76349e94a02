------------------------------ MODULE MCCommands ------------------------------
(* Two sensors, a parameter that LoadConfig may refuse and one behind it    *)
(* that may get its default; every kind of command from one side or the     *)
(* other, so that each meets each.                                          *)
EXTENDS Commands

Web3 == {<<"PING">>, <<"RMV", "s1">>, <<"PARAM", "gwradioaddress", "no">>}
Net4 == {<<"NAME", "s2">>, <<"ADD", "s3", "v">>, <<"UPD", "s1", "v">>,
         <<"PARAM", "keyboard", "enable">>}
TwoIds == <<"s1", "s2">>
Params == <<"gwradioaddress", "keyboard">>
=============================================================================
