---------------------------- MODULE MCCommandPath ----------------------------
(* CommandPath for TLC: two commands for one device, which may overtake each *)
(* other, be lost, or arrive twice.                                          *)
EXTENDS CommandPath, TLC

CONSTANTS d1, m1, m2

TwoCmds == {m1, m2}
Targets == m1 :> d1 @@ m2 :> d1
=============================================================================
