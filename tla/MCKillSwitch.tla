---------------------------- MODULE MCKillSwitch ----------------------------
(* Small instances of KillSwitch.                                          *)
EXTENDS KillSwitch

CONSTANTS c1, c2, r1

=============================================================================
