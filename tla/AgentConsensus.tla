--------------------------- MODULE AgentConsensus ---------------------------
(***************************************************************************)
(* What the queue of agent tasks promises, with no clock, lease, attempt   *)
(* or evidence in it: a task is held by at most one agent; only its holder *)
(* can endorse it, once; it is done exactly when a quorum of agents has    *)
(* endorsed it; and done or failed is for ever.                            *)
(*                                                                         *)
(* The tasks are independent, and one step may move several of them: a     *)
(* sweep over the whole table is one step of this specification.           *)
(***************************************************************************)
CONSTANTS
  Tasks, Agents,
  Quorums,      \* [Tasks -> SUBSET SUBSET Agents]: who together settles a task
  None          \* no holder

VARIABLES
  phase,        \* [Tasks -> {"absent", "open", "done", "failed"}]
  holder,       \* [Tasks -> Agents \cup {None}]
  support       \* [Tasks -> SUBSET Agents]: the agents that endorsed the task

vars == <<phase, holder, support>>

Init ==
  /\ phase = [t \in Tasks |-> "absent"]
  /\ holder = [t \in Tasks |-> None]
  /\ support = [t \in Tasks |-> {}]

Open(t) ==
  /\ phase[t] = "absent" /\ phase'[t] = "open"
  /\ holder'[t] = None
  /\ support'[t] = {}

\* Whoever held the task before has lost it.
Take(t) ==
  /\ phase[t] = "open" /\ phase'[t] = "open"
  /\ holder'[t] \in Agents \ support[t]
  /\ support'[t] = support[t]

Drop(t) ==
  /\ phase[t] = "open" /\ phase'[t] = "open"
  /\ holder[t] # None /\ holder'[t] = None
  /\ support'[t] = support[t]

Fail(t) ==
  /\ phase[t] = "open" /\ phase'[t] = "failed"
  /\ holder'[t] = None
  /\ support'[t] = support[t]

\* The endorsement that makes a quorum settles the task.  One that does not
\* leaves it open, or fails it when nobody may be asked any more.
Endorse(t) ==
  /\ phase[t] = "open"
  /\ holder[t] # None
  /\ holder[t] \notin support[t]
  /\ holder'[t] = None
  /\ support'[t] = support[t] \cup {holder[t]}
  /\ IF support'[t] \in Quorums[t]
     THEN phase'[t] = "done"
     ELSE phase'[t] \in {"open", "failed"}

Same(t) == phase'[t] = phase[t] /\ holder'[t] = holder[t] /\ support'[t] = support[t]

TaskStep(t) == Open(t) \/ Take(t) \/ Drop(t) \/ Fail(t) \/ Endorse(t) \/ Same(t)

Next == \A t \in Tasks : TaskStep(t)

Spec == Init /\ [][Next]_vars
=============================================================================
