--------------------------- MODULE AgentTaskQueue ---------------------------
(***************************************************************************)
(* The durable queue of research tasks of core/agent_workflow.py.  Ghost   *)
(* creates tasks; agents claim them under a lease, submit evidence, repair *)
(* rejected evidence inside the lease, heartbeat or release.  A task that  *)
(* needs N submissions is COMPLETED by N distinct agents.                  *)
(*                                                                         *)
(* Every operation is one Postgres transaction that locks the task's row,  *)
(* so every operation is one action.  What is NOT atomic with it is the    *)
(* time: each function reads time.time() before it waits for a connection  *)
(* and for the row, so an action runs with a "now" up to MaxDelay old, and *)
(* two transactions may commit in the other order than their nows.         *)
(***************************************************************************)
EXTENDS Integers, Sequences, FiniteSets

CONSTANTS
  Tasks,        \* idempotency keys: one row of ghost_agent_tasks each
  Agents,       \* agent ids
  Bodies,       \* contents a submission can have
  Check,        \* [Bodies -> CheckResults]: validate_submission_details
  Request,      \* [Tasks -> RequestRecord]: what create_task is called with
  LeaseTimes,   \* values of lease_seconds
  Cooldown,     \* reclaim_cooldown_seconds()
  MaxRepairs,   \* AGENT_MAX_REPAIR_SUBMISSIONS, after its clamp
  MaxTasks,     \* bound on the tasks that are created
  MaxClock,     \* bound on the clock
  MaxDelay,     \* bound on the age of a captured now
  None          \* SQL NULL

CheckResults == {"clean", "repairable", "fatal"}
Statuses == {"ABSENT", "PENDING", "CLAIMED", "COMPLETED", "DEAD_LETTER", "EXPIRED"}
Active == {"PENDING", "CLAIMED"}
Terminal == {"COMPLETED", "DEAD_LETTER", "EXPIRED"}

\* startsIn and dueIn are available_at and deadline_at relative to creation.
RequestRecord ==
  [required: 1..5, maxAttempts: 1..20, priority: 0..100, startsIn: Nat, dueIn: Nat \cup {None}]

\* The argument checks of create_task.
ValidRequest(r) ==
  /\ r \in RequestRecord
  /\ r.required <= r.maxAttempts
  /\ r.dueIn # None => r.dueIn > r.startsIn

ASSUME RequestAssumption == \A t \in Tasks : ValidRequest(Request[t])
ASSUME CheckAssumption == Check \in [Bodies -> CheckResults]
ASSUME NoneAssumption == None \notin Agents /\ None \notin Int
ASSUME AgentsAssumption == IsFiniteSet(Agents)
ASSUME BoundAssumption ==
  /\ LeaseTimes \subseteq Nat \ {0}
  /\ Cooldown \in Nat
  /\ MaxRepairs \in 1..5
  /\ MaxTasks \in Nat /\ MaxClock \in Nat
  /\ MaxDelay \in Nat

VARIABLES
  clock,     \* the wall clock
  task,      \* [Tasks -> row of ghost_agent_tasks]
  leases,    \* [Tasks -> Seq(lease)]: the CLAIMED, RELEASED, ... events of each
             \* task, one record per lease; lease n is the n-th claim
  evidence   \* [Tasks -> Seq(row of ghost_agent_evidence)], in insertion order

vars == <<clock, task, leases, evidence>>

TaskRow ==
  [status: Statuses, claimedBy: Agents \cup {None}, lease: Nat, leaseExpires: Nat,
   attempts: Nat, available: Nat, deadline: Nat \cup {None}, created: Nat]

LeaseRecord ==
  [agent: Agents, at: Nat, end: {"OPEN", "RELEASED", "SUBMITTED", "EXPIRED"}, endAt: Nat]

\* repairs is the position of the evidence this one repairs, 0 for none.
EvidenceRow == [agent: Agents, lease: Nat, body: Bodies, repairs: Nat]

NoLease == 0

AbsentTask ==
  [status |-> "ABSENT", claimedBy |-> None, lease |-> NoLease, leaseExpires |-> 0,
   attempts |-> 0, available |-> 0, deadline |-> None, created |-> 0]

Init ==
  /\ clock = 0
  /\ task = [t \in Tasks |-> AbsentTask]
  /\ leases = [t \in Tasks |-> << >>]
  /\ evidence = [t \in Tasks |-> << >>]

-----------------------------------------------------------------------------
(* What the SQL conditions say of a row.                                   *)

\* The nows that a transaction committing at this instant may have captured.
CapturedNow == {n \in 0..clock : n + MaxDelay >= clock}

Accepted(t, i) == Check[evidence[t][i].body] = "clean"

\* SELECT DISTINCT agent_id ... WHERE validation_status='ACCEPTED'
AcceptedAgents(t) ==
  {a \in Agents : \E i \in DOMAIN evidence[t] : evidence[t][i].agent = a /\ Accepted(t, i)}

\* The quarantined evidence of one lease.
QuarantinedUnder(t, l) == {i \in DOMAIN evidence[t] : evidence[t][i].lease = l /\ ~Accepted(t, i)}

\* Mutant: the state before AGENT-03, back to PENDING whatever the attempts.
Returned_Always(t) == "PENDING"

\* The state a task that loses its lease returns to (AGENT-03: a task with no
\* attempt left is never put back, since claim_task could not pick it up).
Returned(t) ==
  IF task[t].attempts >= Request[t].maxAttempts THEN "DEAD_LETTER" ELSE "PENDING"

\* Mutant: an UPDATE that forgets the lease columns.
Unleased_KeepsLease(row, status) == [row EXCEPT !.status = status, !.claimedBy = None]

\* UPDATE ... SET status, claimed_by=NULL, lease_*=NULL
Unleased(row, status) ==
  [row EXCEPT !.status = status, !.claimedBy = None, !.lease = NoLease, !.leaseExpires = 0]

\* The newest lease of the history ls ends.
Closed(ls, how, now) == [ls EXCEPT ![Len(ls)] = [@ EXCEPT !.end = how, !.endAt = now]]

-----------------------------------------------------------------------------
(* _expire_unavailable_tasks: three UPDATEs in a row, over all tasks.      *)

\* Mutant: a task being worked on keeps its lease past the deadline.
Missed_PendingOnly(t, now) ==
  task[t].status = "PENDING" /\ task[t].deadline # None /\ task[t].deadline <= now

Missed(t, now) ==
  task[t].status \in Active /\ task[t].deadline # None /\ task[t].deadline <= now

\* Mutant: leases are recovered for tasks that have a deadline only.
LeaseOver_WithDeadline(t, now) ==
  task[t].status = "CLAIMED" /\ task[t].deadline # None /\ task[t].leaseExpires <= now

LeaseOver(t, now) == task[t].status = "CLAIMED" /\ task[t].leaseExpires <= now

Exhausted(t) == task[t].status = "PENDING" /\ task[t].attempts >= Request[t].maxAttempts

SweptStatus(t, now) ==
  CASE Missed(t, now)                     -> "EXPIRED"
    [] ~Missed(t, now) /\ (LeaseOver(t, now) \/ Exhausted(t)) -> Returned(t)
    [] OTHER                              -> task[t].status

Swept(now) ==
  [t \in Tasks |-> IF SweptStatus(t, now) = task[t].status
                   THEN task[t] ELSE Unleased(task[t], SweptStatus(t, now))]

SweptLeases(now) ==
  [t \in Tasks |-> IF task[t].status = "CLAIMED" /\ (Missed(t, now) \/ LeaseOver(t, now))
                   THEN Closed(leases[t], "EXPIRED", now) ELSE leases[t]]

-----------------------------------------------------------------------------
(* Operations.                                                             *)

Tick ==
  /\ clock < MaxClock
  /\ clock' = clock + 1
  /\ UNCHANGED <<task, leases, evidence>>

\* create_task.  With a key that exists it returns or refuses, and changes nothing.
Create(t) ==
  /\ task[t].status = "ABSENT"
  /\ Cardinality({u \in Tasks : task[u].status # "ABSENT"}) < MaxTasks
  /\ \E now \in CapturedNow :
       task' = [task EXCEPT ![t] =
                 [AbsentTask EXCEPT
                   !.status = "PENDING",
                   !.available = now + Request[t].startsIn,
                   !.deadline = IF Request[t].dueIn = None THEN None ELSE now + Request[t].dueIn,
                   !.created = now]]
  /\ UNCHANGED <<clock, leases, evidence>>

\* maintain_workflow, and the part of a claim_task that finds nothing to claim.
Maintain ==
  /\ \E now \in CapturedNow :
       /\ task' = Swept(now)
       /\ leases' = SweptLeases(now)
  /\ UNCHANGED <<clock, evidence>>

\* Mutant: the cooldown runs from the claim, not from the release.
CoolingDown_FromClaim(t, a, now) ==
  \E l \in DOMAIN leases[t] :
    /\ leases[t][l].agent = a
    /\ leases[t][l].end = "RELEASED"
    /\ leases[t][l].at > now - Cooldown

\* The RELEASED events of agent a on task t younger than the cooldown.
CoolingDown(t, a, now) ==
  \E l \in DOMAIN leases[t] :
    /\ leases[t][l].agent = a
    /\ leases[t][l].end = "RELEASED"
    /\ leases[t][l].endAt > now - Cooldown

\* Mutant: no look at the agent's evidence.
Answered_Ignored(t, a) == FALSE

\* The agent has accepted evidence on the task.
Answered(t, a) == a \in AcceptedAgents(t)

\* The WHERE of claim_task, over the rows the sweep left.
Claimable(t, a, now) ==
  LET row == Swept(now)[t]
  IN  /\ row.status = "PENDING"
      /\ row.available <= now
      /\ row.deadline # None => row.deadline > now
      /\ row.attempts < Request[t].maxAttempts
      /\ ~Answered(t, a)
      /\ ~CoolingDown(t, a, now)

\* ORDER BY priority DESC, available_at, created_at
ServedBefore(t, u) ==
  \/ Request[t].priority > Request[u].priority
  \/ /\ Request[t].priority = Request[u].priority
     /\ \/ task[t].available < task[u].available
        \/ task[t].available = task[u].available /\ task[t].created < task[u].created

\* claim_task with a row to take.  SKIP LOCKED passes over the rows that other
\* transactions hold at that moment.
Claim(t, a) ==
  /\ \E now \in CapturedNow, s \in LeaseTimes, locked \in SUBSET (Tasks \ {t}) :
       /\ Claimable(t, a, now)
       /\ \A u \in Tasks \ locked : Claimable(u, a, now) => ~ServedBefore(u, t)
       /\ task' = [Swept(now) EXCEPT
                    ![t].status = "CLAIMED",
                    ![t].claimedBy = a,
                    ![t].lease = task[t].attempts + 1,
                    ![t].leaseExpires = now + s,
                    ![t].attempts = task[t].attempts + 1]
       /\ leases' = [SweptLeases(now) EXCEPT
                      ![t] = Append(@, [agent |-> a, at |-> now, end |-> "OPEN", endAt |-> 0])]
  /\ UNCHANGED <<clock, evidence>>

\* An agent holds the token of every lease it was granted, past ones included.
Granted(t, a, l) == l \in DOMAIN leases[t] /\ leases[t][l].agent = a

\* Mutant: the token is not compared.
ActiveLease_AnyToken(t, a, l, now) ==
  task[t].status = "CLAIMED" /\ task[t].claimedBy = a /\ task[t].leaseExpires > now

\* _assert_active_lease
ActiveLease(t, a, l, now) ==
  /\ task[t].status = "CLAIMED"
  /\ task[t].claimedBy = a
  /\ task[t].lease = l
  /\ task[t].leaseExpires > now

\* heartbeat_task
Heartbeat(t, a, l) ==
  /\ Granted(t, a, l)
  /\ \E now \in CapturedNow, s \in LeaseTimes :
       /\ ActiveLease(t, a, l, now)
       /\ task' = [task EXCEPT ![t].leaseExpires = now + s]
  /\ UNCHANGED <<clock, leases, evidence>>

\* The (task_id, agent_id, payload_sha256) of the submission is on file: the
\* stored answer is returned, whatever became of the lease.
Recorded(t, a, b, r) ==
  \E i \in DOMAIN evidence[t] :
    evidence[t][i].agent = a /\ evidence[t][i].body = b /\ evidence[t][i].repairs = r

\* repair_of_evidence_id names quarantined evidence of this agent and lease.
Repairs(t, a, l, r) ==
  \/ r = 0
  \/ /\ r \in QuarantinedUnder(t, l)
     /\ evidence[t][r].agent = a

\* Mutant: one submission too many is asked for.
QuorumWith_OneMore(t, a) == Cardinality(AcceptedAgents(t) \cup {a}) > Request[t].required

\* accepted_count >= required, once a's submission is counted.
QuorumWith(t, a) == Cardinality(AcceptedAgents(t) \cup {a}) >= Request[t].required

\* Mutant: the rejections are counted before the new one is in.
RepairsLeft_CountedEarly(t, l) == Cardinality(QuarantinedUnder(t, l)) <= MaxRepairs

\* lease_quarantine_count <= max_repairs, the new rejection counted.
RepairsLeft(t, l) == Cardinality(QuarantinedUnder(t, l)) + 1 <= MaxRepairs

\* submit_evidence: record the submission, then decide what becomes of the task.
Submit(t, a, l, b, r) ==
  /\ Granted(t, a, l)
  /\ ~Recorded(t, a, b, r)
  /\ evidence' = [evidence EXCEPT
                   ![t] = Append(@, [agent |-> a, lease |-> l, body |-> b, repairs |-> r])]
  /\ \E now \in CapturedNow :
       /\ ActiveLease(t, a, l, now)
       /\ Repairs(t, a, l, r)
       /\ IF Check[b] = "repairable" /\ RepairsLeft(t, l)
          THEN UNCHANGED <<task, leases>>
          ELSE LET quorum == Check[b] = "clean" /\ QuorumWith(t, a)
                   next   == IF quorum THEN "COMPLETED" ELSE Returned(t)
               IN  /\ task' = [task EXCEPT ![t] = Unleased(@, next)]
                   /\ leases' = [leases EXCEPT ![t] = Closed(@, "SUBMITTED", now)]
  /\ UNCHANGED clock

\* release_task
Release(t, a, l) ==
  /\ Granted(t, a, l)
  /\ \E now \in CapturedNow :
       /\ ActiveLease(t, a, l, now)
       /\ task' = [task EXCEPT ![t] = Unleased(@, Returned(t))]
       /\ leases' = [leases EXCEPT ![t] = Closed(@, "RELEASED", now)]
  /\ UNCHANGED <<clock, evidence>>

AgentStep(t, a) ==
  \/ Claim(t, a)
  \/ \E l \in DOMAIN leases[t] :
       \/ Heartbeat(t, a, l)
       \/ Release(t, a, l)
       \/ \E b \in Bodies, r \in 0..Len(evidence[t]) : Submit(t, a, l, b, r)

Next ==
  \/ Tick
  \/ Maintain
  \/ \E t \in Tasks : Create(t)
  \/ \E t \in Tasks, a \in Agents : AgentStep(t, a)

Spec == Init /\ [][Next]_vars

\* The scheduler runs maintain_workflow every few minutes, and time passes.
\* Nothing is assumed of the agents.
FairSpec == Spec /\ WF_vars(Tick) /\ WF_vars(Maintain)

-----------------------------------------------------------------------------
(* Safety.                                                                 *)

\* Every column holds a value of its type (the tables of
\* ensure_agent_workflow_tables).
TypeOK ==
  /\ clock \in 0..MaxClock
  /\ task \in [Tasks -> TaskRow]
  /\ leases \in [Tasks -> Seq(LeaseRecord)]
  /\ evidence \in [Tasks -> Seq(EvidenceRow)]

\* A task is COMPLETED exactly when the required number of distinct agents has
\* accepted evidence on it, and no agent works past that number (the count and
\* the next_status of submit_evidence, against every interleaving of expiries).
QuorumExact ==
  \A t \in Tasks :
    LET n == Cardinality(AcceptedAgents(t))
    IN  /\ n <= Request[t].required
        /\ task[t].status = "COMPLETED" <=> n = Request[t].required

\* One agent never has two accepted submissions on a task: consensus is not
\* an agent agreeing with itself (the NOT EXISTS of claim_task, with every
\* lease ended by its first accepted submission).
OneVoicePerAgent ==
  \A t \in Tasks : \A i, j \in DOMAIN evidence[t] :
    Accepted(t, i) /\ Accepted(t, j) /\ evidence[t][i].agent = evidence[t][j].agent => i = j

\* The row and the lease history of task t agree.
Ledger(t, row, ls) ==
  /\ row.attempts = Len(ls)
  /\ row.attempts <= Request[t].maxAttempts
  /\ row.status = "CLAIMED" <=> row.lease # NoLease
  /\ row.status = "CLAIMED" => /\ ls # << >>
                               /\ row.lease = Len(ls)
                               /\ row.claimedBy = ls[Len(ls)].agent
  /\ row.status # "CLAIMED" => row.claimedBy = None
  /\ row.status = "ABSENT" => row.attempts = 0
  /\ \A l \in DOMAIN ls : ls[l].end = "OPEN" <=> row.lease = l

\* attempt_count counts the leases ever granted, within max_attempts, and the
\* lease columns describe the one lease that is open, which is the newest
\* (claim_task, the sweep, submit_evidence and release_task write them apart).
LeaseLedger == \A t \in Tasks : Ledger(t, task[t], leases[t])

\* Evidence is recorded in the order of the leases, by the agent of the lease,
\* and a lease yields further evidence only after a repairable rejection: what
\* a token that outlived its lease sends is never recorded (_assert_active_lease).
EvidenceFenced ==
  \A t \in Tasks : \A j \in DOMAIN evidence[t] :
    LET e == evidence[t][j]
    IN  /\ Granted(t, e.agent, e.lease)
        /\ \A i \in 1..(j - 1) :
             \/ evidence[t][i].lease < e.lease
             \/ evidence[t][i].lease = e.lease /\ Check[evidence[t][i].body] = "repairable"

\* A repair names an earlier rejected submission of its own lease, and a lease
\* collects at most one rejection more than the repairs it is allowed
\* (repair_of_evidence_id and lease_quarantine_count of submit_evidence).
RepairsBounded ==
  \A t \in Tasks :
    /\ \A j \in DOMAIN evidence[t] :
         LET r == evidence[t][j].repairs
         IN  r # 0 => r < j /\ r \in QuarantinedUnder(t, evidence[t][j].lease)
    /\ \A l \in DOMAIN leases[t] : Cardinality(QuarantinedUnder(t, l)) <= MaxRepairs + 1

\* What an agent may write is bounded by its leases: nothing under a token that has
\* ended, and no endless sequence of repairs under one that has not.
EvidenceHolds == EvidenceFenced /\ RepairsBounded

\* No task waits PENDING that no agent may ever claim again (AGENT-03).
NeverStranded ==
  \A t \in Tasks : task[t].status = "PENDING" => task[t].attempts < Request[t].maxAttempts

\* Row and history of leases tell the same, column by column, whatever order claims,
\* sweeps, submissions and releases come in; and whichever of them ends a lease, the task
\* is not left waiting for nobody.
LeasesHold == TypeOK /\ LeaseLedger /\ NeverStranded

\* An agent that released a task is not given it again before the cooldown is
\* over, whatever happened to the task in between (F35).
ReleaseCoolsDown ==
  \A t \in Tasks : \A i, j \in DOMAIN leases[t] :
    i < j /\ leases[t][i].agent = leases[t][j].agent /\ leases[t][i].end = "RELEASED"
      => leases[t][j].at >= leases[t][i].endAt + Cooldown

-----------------------------------------------------------------------------
(* The queue implements AgentConsensus.                                    *)

Phase(status) ==
  CASE status = "ABSENT"    -> "absent"
    [] status \in Active    -> "open"
    [] status = "COMPLETED" -> "done"
    [] OTHER                -> "failed"

Consensus == INSTANCE AgentConsensus WITH
  Quorums <- [t \in Tasks |-> {S \in SUBSET Agents : Cardinality(S) = Request[t].required}],
  phase   <- [t \in Tasks |-> Phase(task[t].status)],
  holder  <- [t \in Tasks |-> task[t].claimedBy],
  support <- [t \in Tasks |-> AcceptedAgents(t)]

\* Through every expiry, retry, repair and stale token, the transactions of the
\* queue do nothing but take, drop, endorse and settle tasks as AgentConsensus
\* allows: docs/AGENT_WORKFLOW.md, "until distinct agents provide the
\* configured number of accepted submissions".
ImplementsConsensus == Consensus!Spec

-----------------------------------------------------------------------------
(* Liveness.                                                               *)

\* The clock of the model stops at MaxClock; a sweep that may act on a now of
\* age MaxDelay is sure to see a time only if it comes that much earlier.
Seen(time) == time + MaxDelay <= MaxClock

\* A task with a deadline is settled, even if every agent stops for good or
\* heartbeats for ever (the first UPDATE of _expire_unavailable_tasks).
DeadlineSettles ==
  \A t \in Tasks :
    (task[t].status \in Active /\ task[t].deadline # None /\ Seen(task[t].deadline))
      ~> task[t].status \in Terminal

\* A lease that nobody renews comes to an end, so that a crashed agent does not
\* keep a task (the second UPDATE of _expire_unavailable_tasks).
LeaseRecovered ==
  \A t \in Tasks : \A l \in 1..Request[t].maxAttempts :
    task[t].lease = l ~> task[t].lease # l \/ ~Seen(task[t].leaseExpires)

\* Dead agents, and those that only renew, block no task: its lease ends, and it is settled
\* by its deadline.
QueueSettles == DeadlineSettles /\ LeaseRecovered
=============================================================================
