---------------------------- MODULE MCSmartShell ----------------------------
(***************************************************************************)
(* A small instance of SmartShell for TLC.  Names of commands are one or   *)
(* two characters long.  One user edits lines and runs timer test ("t t")  *)
(* and stress ("tt"), the other plays; both type ahead.                    *)
(***************************************************************************)
EXTENDS SmartShell

Characters == {"s", "t", " ", "w", "a", "d", "p", "r", "q"}

SnakeName  == <<"s", "s", "s", "s">>
TimerName  == <<"t">>
TestName   == <<"t">>
StressName == <<"t", "t">>

Editor == [prompt |-> {"t", " "} \cup Control, command |-> {"t", "CR"}]
Player == [prompt |-> {"s", "CR"}, command |-> {"w", "a", "s", "d", "p", "r", "q"}]
Users  == {Editor, Player}
=============================================================================
