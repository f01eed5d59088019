----------------------------- MODULE AgentWorker -----------------------------
(***************************************************************************)
(* The workers that serve the task queue, services/claude_worker and       *)
(* services/codex_worker, composed with AgentTaskQueue: run_once claims a  *)
(* task, researches it, submits, repairs what the queue rejects and gives  *)
(* back what it cannot finish, while a thread of its own renews the lease. *)
(*                                                                         *)
(* Every call goes over HTTP and its answer may be lost, whether or not    *)
(* the queue has acted on it; a worker may be killed at any point.  Each   *)
(* research bills the provider and yields a payload of its own.            *)
(***************************************************************************)
EXTENDS AgentTaskQueue

CONSTANTS
  CodexAgents,    \* the agents that run codex_worker
  WorkerRepairs,  \* max_repairs of the worker
  HeartbeatTime,  \* heartbeat_seconds, as configured
  HeartbeatMax,   \* LEASE_HEARTBEAT_MAX_SECONDS
  OnlineTime,     \* WORKER_ONLINE_SECONDS
  PauseAfter,     \* max_consecutive_incomplete
  PauseTime,      \* incomplete_pause_seconds
  MaxLost         \* bound on the lost answers and kills of one worker

ASSUME WorkersAssumption ==
  /\ CodexAgents \subseteq Agents
  /\ {WorkerRepairs, PauseTime, OnlineTime, MaxLost} \subseteq Nat
  /\ {HeartbeatTime, HeartbeatMax, PauseAfter} \subseteq Nat \ {0}

\* A heartbeat a minute, leases of five minutes at least, online for two: a transaction
\* that is not held up for long leaves all of them their order.
ASSUME TimesAssumption ==
  /\ \A s \in LeaseTimes : s > HeartbeatMax + MaxDelay
  /\ OnlineTime >= HeartbeatMax + MaxDelay

VARIABLES
  wpc,        \* [Agents -> WorkerSteps]: where run_once is
  job,        \* [Agents -> JobRecord]: the task it works on
  beatAt,     \* [Agents -> time of the last turn of the LeaseHeartbeat thread]
  misses,     \* [Agents -> consecutive_incomplete]
  pausedUntil,
  shown,      \* [Agents -> row of ghost_agent_workers]
  lost        \* [Agents -> calls with a lost answer, and kills]

workerVars == <<wpc, job, beatAt, misses, pausedUntil, shown, lost>>
allVars == <<vars, workerVars>>

WorkerSteps == {"idle", "research", "submit", "spent", "give back"}
JobRecord == [task: Tasks \cup {None}, lease: Nat, body: Bodies \cup {None}, repairs: Nat, tries: Nat,
              incomplete: BOOLEAN]
NoJob == [task |-> None, lease |-> NoLease, body |-> None, repairs |-> 0, tries |-> 0, incomplete |-> FALSE]
ShownRow == [seen: Nat, processed: Nat, accepted: Nat]

WorkerInit ==
  /\ Init
  /\ wpc = [a \in Agents |-> "idle"]
  /\ job = [a \in Agents |-> NoJob]
  /\ beatAt = [a \in Agents |-> 0]
  /\ misses = [a \in Agents |-> 0]
  /\ pausedUntil = [a \in Agents |-> 0]
  /\ shown = [a \in Agents |-> [seen |-> 0, processed |-> 0, accepted |-> 0]]
  /\ lost = [a \in Agents |-> 0]

Working(a) == wpc[a] # "idle"
Loses(a) == lost[a] < MaxLost /\ lost' = [lost EXCEPT ![a] = @ + 1]
NothingLost == UNCHANGED lost
Turns(a, step) == wpc' = [wpc EXCEPT ![a] = step]

\* Mutant: every finished run counts as accepted.
AcceptedDelta_Processed(accepted) == 1

AcceptedDelta(accepted) == IF accepted THEN 1 ELSE 0

\* The end of run_once, with what its worker heartbeat adds to the counters.  That
\* call is tried once, and its failure is only logged.
Reports(a, accepted, answered) ==
  /\ Turns(a, "idle")
  /\ job' = [job EXCEPT ![a] = NoJob]
  /\ beatAt' = [beatAt EXCEPT ![a] = 0]
  /\ shown' = IF answered
              THEN [shown EXCEPT ![a] = [seen |-> clock, processed |-> @.processed + 1,
                                         accepted |-> @.accepted + AcceptedDelta(accepted)]]
              ELSE shown

\* The same, the answer of that call being lost or not.
Tells(a, accepted) ==
  \E answered \in BOOLEAN :
    /\ Reports(a, accepted, answered)
    /\ IF answered THEN NothingLost ELSE Loses(a)

-----------------------------------------------------------------------------
(* Claiming.                                                               *)

\* run_once up to the answer of the claim, and the WORKING heartbeat, which may fail.
AskClaim(a, t) ==
  /\ ~Working(a)
  /\ clock >= pausedUntil[a]
  /\ Claim(t, a)
  /\ \/ /\ Turns(a, "research")
        /\ job' = [job EXCEPT ![a] = [NoJob EXCEPT !.task = t, !.lease = task'[t].lease]]
        /\ beatAt' = [beatAt EXCEPT ![a] = clock]
        /\ \/ NothingLost /\ shown' = [shown EXCEPT ![a].seen = clock]
           \/ Loses(a) /\ UNCHANGED shown
     \/ Loses(a) /\ UNCHANGED <<wpc, job, beatAt, shown>>
  /\ UNCHANGED <<misses, pausedUntil>>

-----------------------------------------------------------------------------
(* Research and submission.                                                *)

\* The provider answers, or research() raises; the repair loop keeps its place.
Research(a) ==
  /\ wpc[a] = "research"
  /\ \/ \E b \in Bodies :
          /\ ~Recorded(job[a].task, a, b, job[a].repairs)
          /\ job' = [job EXCEPT ![a].body = b]
          /\ Turns(a, "submit")
     \/ /\ Turns(a, "give back")
        /\ \/ UNCHANGED job
           \/ a \in CodexAgents /\ job' = [job EXCEPT ![a].incomplete = TRUE]
  /\ UNCHANGED <<vars, beatAt, misses, pausedUntil, shown, lost>>

\* Mutant: a lease that outlives the repairs is left to expire.
GivesBack_Never(a, retained) == FALSE

\* After a rejection that cannot be repaired: release what the queue let the worker keep.
GivesBack(a, retained) == retained

\* The answer of a submission: accepted, rejected with the lease kept for a repair, or
\* rejected.
SubmitAnswered(a) ==
  LET j        == job[a]
      retained == task'[j.task].lease = j.lease
  IN  /\ Submit(j.task, a, j.lease, j.body, j.repairs)
      /\ IF Check[j.body] = "clean"
         THEN Tells(a, TRUE) /\ misses' = [misses EXCEPT ![a] = 0]
         ELSE /\ UNCHANGED misses
              /\ IF retained /\ j.tries < WorkerRepairs
                 THEN /\ Turns(a, "research")
                      /\ job' = [job EXCEPT ![a].repairs = Len(evidence'[j.task]), ![a].tries = @ + 1]
                      /\ UNCHANGED <<beatAt, shown>> /\ NothingLost
                 ELSE IF GivesBack(a, retained)
                      THEN Turns(a, "spent") /\ UNCHANGED <<job, beatAt, shown>> /\ NothingLost
                      ELSE Tells(a, FALSE)

\* It is refused, or the answer is lost: run_once goes to its error path.
SubmitFailed(a) ==
  LET j == job[a]
  IN  /\ \/ Submit(j.task, a, j.lease, j.body, j.repairs) /\ Loses(a)
         \/ Loses(a) /\ UNCHANGED vars
         \/ /\ \E now \in CapturedNow : ~ActiveLease(j.task, a, j.lease, now)
            /\ UNCHANGED vars /\ NothingLost
      /\ Turns(a, "give back")
      /\ UNCHANGED <<job, beatAt, misses, shown>>

SubmitJob(a) ==
  /\ wpc[a] = "submit"
  /\ SubmitAnswered(a) \/ SubmitFailed(a)
  /\ UNCHANGED pausedUntil

Pauses(incomplete, before) == incomplete /\ before + 1 >= PauseAfter

\* A release is lost, before or after the queue acted on it, or refused.
ReleaseFails(a) ==
  LET j == job[a]
  IN  \/ Release(j.task, a, j.lease) /\ Loses(a)
      \/ UNCHANGED vars /\ Loses(a)
      \/ /\ \E now \in CapturedNow : ~ActiveLease(j.task, a, j.lease, now)
         /\ UNCHANGED vars /\ NothingLost

\* The release after the last repair; when it fails, run_once goes to its error path.
GiveBackSpent(a) ==
  /\ wpc[a] = "spent"
  /\ \/ Release(job[a].task, a, job[a].lease) /\ Tells(a, FALSE)
     \/ ReleaseFails(a) /\ Turns(a, "give back") /\ UNCHANGED <<job, beatAt, shown>>
  /\ UNCHANGED <<misses, pausedUntil>>

\* The error path: one release, whose failure is only logged.  codex_worker counts the
\* incomplete results in a row; a pause runs from the start of the last one.
GiveBack(a) ==
  LET j      == job[a]
      paused == Pauses(j.incomplete, misses[a])
  IN  /\ wpc[a] = "give back"
      /\ \/ Release(j.task, a, j.lease) /\ Tells(a, FALSE)
         \/ ReleaseFails(a) /\ Reports(a, FALSE, TRUE)
      /\ misses' = [misses EXCEPT ![a] = IF paused THEN 0 ELSE IF j.incomplete THEN @ + 1 ELSE @]
      /\ pausedUntil' = IF paused THEN [pausedUntil EXCEPT ![a] = leases[j.task][j.lease].at + PauseTime] ELSE pausedUntil

-----------------------------------------------------------------------------
(* The LeaseHeartbeat thread, time, kills.                                 *)

\* Mutant: the interval is what the environment says.
Interval_Configured == HeartbeatTime

Interval == IF HeartbeatTime < HeartbeatMax THEN HeartbeatTime ELSE HeartbeatMax

\* Mutant: heartbeat_task before AGENT-02.
SeenBy_Untouched(row, now) == row

\* heartbeat_task: an agent that renews a lease is alive.
SeenBy(row, now) == IF row.seen < now THEN [row EXCEPT !.seen = now] ELSE row

\* heartbeat_task, with the part of it that AgentTaskQueue leaves out.  A refused or
\* lost heartbeat is only logged: the research goes on.
Beat(a) ==
  LET j == job[a]
  IN  /\ Working(a)
      /\ clock >= beatAt[a] + Interval
      /\ beatAt' = [beatAt EXCEPT ![a] = clock]
      /\ \E now \in CapturedNow :
           \/ /\ ActiveLease(j.task, a, j.lease, now)
              /\ \E s \in LeaseTimes : task' = [task EXCEPT ![j.task].leaseExpires = now + s]
              /\ shown' = [shown EXCEPT ![a] = SeenBy(@, now)]
              /\ UNCHANGED <<clock, leases, evidence>>
              /\ NothingLost \/ Loses(a)
           \/ /\ ~ActiveLease(j.task, a, j.lease, now)
              /\ UNCHANGED <<vars, shown>> /\ NothingLost
           \/ UNCHANGED <<vars, shown>> /\ Loses(a)
      /\ UNCHANGED <<wpc, job, misses, pausedUntil>>

\* A turn of the heartbeat thread is not late by a whole interval.
WorkerTick ==
  /\ \A a \in Agents : Working(a) => clock < beatAt[a] + Interval
  /\ Tick
  /\ UNCHANGED workerVars

\* The process is killed and starts anew; what it knew of pauses is gone.
Killed(a) ==
  /\ Working(a) \/ misses[a] > 0 \/ pausedUntil[a] > clock
  /\ Loses(a)
  /\ Turns(a, "idle")
  /\ job' = [job EXCEPT ![a] = NoJob]
  /\ misses' = [misses EXCEPT ![a] = 0]
  /\ pausedUntil' = [pausedUntil EXCEPT ![a] = 0]
  /\ beatAt' = [beatAt EXCEPT ![a] = 0]
  /\ UNCHANGED <<vars, shown>>

WorkerStep(a) ==
  \/ \E t \in Tasks : AskClaim(a, t)
  \/ Research(a) \/ SubmitJob(a) \/ GiveBackSpent(a) \/ GiveBack(a) \/ Beat(a) \/ Killed(a)

WorkerNext ==
  \/ WorkerTick
  \/ Maintain /\ UNCHANGED workerVars
  \/ \E t \in Tasks : Create(t) /\ UNCHANGED workerVars
  \/ \E a \in Agents : WorkerStep(a)

WorkerSpec == WorkerInit /\ [][WorkerNext]_allVars

-----------------------------------------------------------------------------
(* Properties.                                                             *)

WorkerTypeOK ==
  /\ wpc \in [Agents -> WorkerSteps]
  /\ job \in [Agents -> JobRecord]
  /\ beatAt \in [Agents -> 0..MaxClock]
  /\ misses \in [Agents -> 0..(PauseAfter - 1)]
  /\ pausedUntil \in [Agents -> Nat]
  /\ shown \in [Agents -> ShownRow]
  /\ lost \in [Agents -> 0..MaxLost]

\* The lease of t that agent a holds in the table is the one its worker works on.
WorkedOn(t, a) == Working(a) /\ job[a].task = t /\ job[a].lease = task[t].lease

\* No task waits for a worker that has forgotten it: whatever run_once ran into, a
\* lease is left behind only by a lost answer or a kill, one for each.
HeldIsWorkedOn ==
  \A a \in Agents :
    Cardinality({t \in Tasks : task[t].claimedBy = a /\ ~WorkedOn(t, a)}) <= lost[a]

\* An agent at work none of whose answers was lost, and whether its lease is live.
AtWork(a) == lost[a] = 0 /\ wpc[a] \in {"research", "submit"}
LeaseLives(a) ==
  task[job[a].task].lease = job[a].lease /\ task[job[a].task].leaseExpires > clock
DeadlineMissed(t) == task[t].deadline # None /\ task[t].deadline <= clock

\* However long the research takes and whatever interval is configured, a worker whose
\* heartbeats are answered does not lose its lease to the sweep.
WorkKeepsLease ==
  \A a \in Agents : AtWork(a) => LeaseLives(a) \/ DeadlineMissed(job[a].task)

\* AGENT-02: such a worker is shown online all the while.
WorkingIsOnline ==
  \A a \in Agents : AtWork(a) /\ LeaseLives(a) => clock - shown[a].seen <= OnlineTime

\* The operator's counters claim nothing that the queue did not record, and fall short
\* of it by no more than the answers that were lost.
CountsHonest ==
  \A a \in Agents :
    LET done == Cardinality({t \in Tasks : a \in AcceptedAgents(t)})
        claims == Cardinality({c \in Tasks \X (1..20) : Granted(c[1], a, c[2])})
    IN  /\ shown[a].accepted <= done
        /\ done <= shown[a].accepted + lost[a]
        /\ shown[a].processed <= claims

\* A heartbeat that is answered is all a worker needs, however it is configured: it
\* keeps the lease it works under and is shown at work; and it leaves none behind.
WorkHolds == WorkKeepsLease /\ WorkingIsOnline /\ HeldIsWorkedOn

\* The worker's own account of itself is that of the queue.
CountsHold == WorkerTypeOK /\ CountsHonest
=============================================================================
