-------------------------- MODULE MCResearchBudget --------------------------
(* Small instances of ResearchBudget.                                      *)
EXTENDS ResearchBudget

CONSTANTS r1, r2, s1, s2

MCQueue == <<s1, s2>>
=============================================================================
