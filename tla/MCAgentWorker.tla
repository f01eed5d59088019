--------------------------- MODULE MCAgentWorker ---------------------------
(* Instances of AgentWorker for TLC.                                       *)
EXTENDS AgentWorker, TLC

CONSTANTS t1, t2, claude, codex, good, typo

MCCheck == [b \in Bodies |-> IF b = good THEN "clean" ELSE "repairable"]

\* t1 needs both workers, t2 is dropped at its deadline.
MCRequest ==
  (t1 :> [required |-> 2, maxAttempts |-> 3, priority |-> 90, startsIn |-> 0, dueIn |-> 3])
  @@
  (t2 :> [required |-> 1, maxAttempts |-> 1, priority |-> 50, startsIn |-> 0, dueIn |-> 2])

MCLeaseTimes == {2}
=============================================================================
