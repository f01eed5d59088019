-------------------------- MODULE MCAgentTaskQueue --------------------------
(* Instances of AgentTaskQueue for TLC.                                    *)
EXTENDS AgentTaskQueue, TLC

CONSTANTS t1, t2, a1, a2, good, typo

MCCheck == [b \in Bodies |-> IF b = good THEN "clean" ELSE "repairable"]

\* A task that must be settled by its deadline, and one that is without.
MCRequest ==
  (t1 :> [required |-> 2, maxAttempts |-> 3, priority |-> 50, startsIn |-> 0, dueIn |-> 2])
  @@
  (t2 :> [required |-> 2, maxAttempts |-> 2, priority |-> 50, startsIn |-> 0, dueIn |-> None])

MCLeaseTimes == {2}
=============================================================================
