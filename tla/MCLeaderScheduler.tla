------------------------- MODULE MCLeaderScheduler -------------------------
(* Instances of LeaderScheduler for TLC.                                   *)
EXTENDS LeaderScheduler

CONSTANTS p1, p2, j1

=============================================================================
