----------------------------- MODULE MCEdgePaper -----------------------------
(* Instances of EdgePaper for TLC.                                         *)
EXTENDS EdgePaper
=============================================================================
