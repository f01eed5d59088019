-------------------------- MODULE LeaderScheduler --------------------------
(***************************************************************************)
(* The replicas of the web process, the background leader they elect       *)
(* (core/leader_lock.py), the scheduler the leader runs                    *)
(* (core/scheduler.py), and the lifespan that starts and stops both        *)
(* (wolf_app.py).                                                          *)
(*                                                                         *)
(* A Postgres advisory lock elects one session.  A replica only learns     *)
(* that its session is gone when a check of its own finds out, and that    *)
(* check runs in the same thread pool as the jobs.                         *)
(***************************************************************************)
EXTENDS Naturals, Sequences, FiniteSets, SequencesExt

CONSTANTS
  Procs,       \* replicas; one that restarts keeps its name
  Jobs,        \* jobs registered with the scheduler, all synchronous functions
  Hanging,     \* the jobs whose function may never return
  Threads,     \* max_workers of the default executor of a replica
  MaxBoots,    \* bound on the starts of each replica
  MaxFaults,   \* bound on broken sessions and failed elections
  None         \* no session, no work

ASSUME ConstantsAssumption ==
  /\ Threads \in Nat \ {0}
  /\ MaxBoots \in Nat
  /\ MaxFaults \in Nat
  /\ None \notin Procs \cup Jobs
  /\ Hanging \subseteq Jobs
  /\ IsFiniteSet(Jobs)

Election == "election"     \* the work item that runs check_leadership
ASSUME ElectionAssumption == Election \notin Jobs /\ None # Election

Work == Jobs \cup {Election}
Phases == {"down", "waiting", "starting", "serving", "draining"}
Stages == {"idle", "queued", "probing", "trying"}

VARIABLES
  lock,      \* whose session holds the advisory lock, as Postgres sees it
  cut,       \* that session is broken and Postgres has not noticed
  conn,      \* [Procs -> BOOLEAN]: _leader_conn is not None
  phase,     \* [Procs -> Phases]: where the lifespan is
  stage,     \* [Procs -> Stages]: of the election work item
  due,       \* [Procs -> SUBSET Jobs]: next_run_at has passed
  running,   \* [Procs -> SUBSET Jobs]: Task.running
  overdue,   \* [Procs -> SUBSET Jobs]: the run was reported as a timeout
  queue,     \* [Procs -> Seq(Work)]: submitted to the executor, not started
  threads,   \* [Procs -> [1..Threads -> Work \cup {None}]]
  boots, faults

lockVars == <<lock, cut, faults>>
taskVars == <<due, running, overdue>>
poolVars == <<queue, threads>>
vars == <<lock, cut, faults, conn, phase, stage, due, running, overdue, queue, threads, boots>>

NoThreads == [s \in 1..Threads |-> None]

Init ==
  /\ lock = None
  /\ cut = FALSE
  /\ conn = [p \in Procs |-> FALSE]
  /\ phase = [p \in Procs |-> "down"]
  /\ stage = [p \in Procs |-> "idle"]
  /\ due = [p \in Procs |-> {}]
  /\ running = [p \in Procs |-> {}]
  /\ overdue = [p \in Procs |-> {}]
  /\ queue = [p \in Procs |-> << >>]
  /\ threads = [p \in Procs |-> NoThreads]
  /\ boots = [p \in Procs |-> 0]
  /\ faults = 0

Up(p) == phase[p] \in {"waiting", "starting", "serving"}

\* A thread of p's pool that is not at work.
FreeThread(p, s) == threads[p][s] = None /\ \A r \in 1..(s - 1) : threads[p][r] # None

-----------------------------------------------------------------------------
(* The database's side of the lock.                                        *)

\* Mutant: the client's own idea of the connection is asked, not the server.
SessionAlive_Assumed(p) == conn[p]

\* _connection_alive: the session answers, and so still holds the lock.
SessionAlive(p) == lock = p /\ ~cut

\* A network break, an idle kill or a restart of Postgres ends a session; the
\* replica it belongs to is not told.
Cut ==
  /\ faults < MaxFaults
  /\ lock # None /\ ~cut
  /\ cut' = TRUE
  /\ faults' = faults + 1
  /\ UNCHANGED <<lock, conn, phase, stage, boots>> /\ UNCHANGED <<taskVars, poolVars>>

\* Postgres frees the lock of a session that is gone.
ServerDrops ==
  /\ cut
  /\ lock' = None /\ cut' = FALSE
  /\ UNCHANGED <<faults, conn, phase, stage, boots>> /\ UNCHANGED <<taskVars, poolVars>>

\* pg_try_advisory_lock on a new connection: granted, refused because another
\* session has the lock, or failed (and then not the leader).
Elected(p) ==
  /\ lock = None
  /\ lock' = p
  /\ UNCHANGED <<cut, faults>>

NotElected ==
  /\ \/ lock # None /\ UNCHANGED faults
     \/ faults < MaxFaults /\ faults' = faults + 1
  /\ UNCHANGED <<lock, cut>>

\* Mutant: release_leader forgets the connection and does not close it.
LockAfterClose_LeftOpen(p) == lock

\* What closing p's connection does to the lock.
LockAfterClose(p) == IF SessionAlive(p) /\ conn[p] THEN None ELSE lock

-----------------------------------------------------------------------------
(* The lifespan of a replica.                                              *)

\* One election before serving: the winner starts the background runtime.
Boot(p) ==
  /\ phase[p] = "down"
  /\ boots[p] < MaxBoots
  /\ boots' = [boots EXCEPT ![p] = @ + 1]
  /\ \/ /\ Elected(p)
        /\ conn' = [conn EXCEPT ![p] = TRUE]
        /\ phase' = [phase EXCEPT ![p] = "starting"]
     \/ /\ NotElected
        /\ phase' = [phase EXCEPT ![p] = "waiting"]
        /\ UNCHANGED conn
  /\ UNCHANGED <<stage, taskVars, poolVars>>

\* _start_leader_runtime: gate, watcher, boot maintenance, jobs, scheduler.
StartRuntime(p) ==
  /\ phase[p] = "starting"
  /\ phase' = [phase EXCEPT ![p] = "serving"]
  /\ UNCHANGED <<lockVars, conn, stage, taskVars, poolVars, boots>>

\* The work items of the pool without the election that waits there.
WithoutElection(q) ==
  IF \E i \in DOMAIN q : q[i] = Election
  THEN RemoveAt(q, CHOOSE i \in DOMAIN q : q[i] = Election)
  ELSE q

\* SIGTERM: the wait or the watch is cancelled (a queued election with it, not
\* one a thread is at), the scheduler stops, the lock is released.  Jobs that
\* were submitted stay in the pool.
Shutdown(p) ==
  /\ Up(p)
  /\ phase' = [phase EXCEPT ![p] = "draining"]
  /\ stage' = [stage EXCEPT ![p] = IF @ = "queued" THEN "idle" ELSE @]
  /\ queue' = [queue EXCEPT ![p] = WithoutElection(@)]
  /\ lock' = LockAfterClose(p)
  /\ conn' = [conn EXCEPT ![p] = FALSE]
  /\ UNCHANGED <<cut, faults, taskVars, threads, boots>>

\* The process ends: its pool, its flags and its connection with it.
Gone(p) ==
  /\ phase' = [phase EXCEPT ![p] = "down"]
  /\ conn' = [conn EXCEPT ![p] = FALSE]
  /\ stage' = [stage EXCEPT ![p] = "idle"]
  /\ due' = [due EXCEPT ![p] = {}]
  /\ running' = [running EXCEPT ![p] = {}]
  /\ overdue' = [overdue EXCEPT ![p] = {}]
  /\ queue' = [queue EXCEPT ![p] = << >>]
  /\ threads' = [threads EXCEPT ![p] = NoThreads]
  /\ UNCHANGED <<faults, boots>>

\* An orderly exit waits for the threads of the pool.
Exit(p) ==
  /\ phase[p] = "draining"
  /\ queue[p] = << >> /\ threads[p] = NoThreads
  /\ lock' = LockAfterClose(p)
  /\ UNCHANGED cut
  /\ Gone(p)

\* SIGKILL, a crash, or os._exit after a failed takeover.  Postgres notices
\* the lost connection in its own time.
Kill(p) ==
  /\ phase[p] # "down"
  /\ cut' = (cut \/ lock = p)
  /\ UNCHANGED lock
  /\ Gone(p)

-----------------------------------------------------------------------------
(* The pool of threads.                                                    *)

\* A thread takes the oldest work item.
ThreadTakes(p) ==
  /\ queue[p] # << >>
  /\ \E s \in 1..Threads :
       /\ FreeThread(p, s)
       /\ threads' = [threads EXCEPT ![p][s] = Head(queue[p])]
  /\ queue' = [queue EXCEPT ![p] = Tail(@)]
  /\ stage' = [stage EXCEPT ![p] = IF Head(queue[p]) = Election THEN "probing" ELSE @]
  /\ UNCHANGED <<lockVars, conn, phase, taskVars, boots>>

\* The thread that ran the election is free again.
ElectionReturns(p) ==
  threads' = [threads EXCEPT ![p] = [s \in 1..Threads |-> IF @[s] = Election THEN None ELSE @[s]]]

-----------------------------------------------------------------------------
(* Leadership.                                                             *)

\* is_leader: an in-memory read.
IsLeader(p) == conn[p]

\* Mutant: a replica that was elected once is not watched any more.
Watched_UntilElected(p) == phase[p] = "waiting"

\* wait_for_leadership loops until it is elected, watch_leadership for ever.
Watched(p) == Up(p)

\* One turn of either loop: sleep, then check in the pool.
WatchWakes(p) ==
  /\ Watched(p)
  /\ stage[p] = "idle"
  /\ stage' = [stage EXCEPT ![p] = "queued"]
  /\ queue' = [queue EXCEPT ![p] = Append(@, Election)]
  /\ UNCHANGED <<lockVars, conn, phase, taskVars, threads, boots>>

\* check_leadership up to try_acquire_leader: a live session ends the check, a
\* dead one is dropped.
Probe(p) ==
  /\ stage[p] = "probing"
  /\ IF conn[p] /\ SessionAlive(p)
     THEN /\ stage' = [stage EXCEPT ![p] = "idle"]
          /\ ElectionReturns(p)
          /\ UNCHANGED conn
     ELSE /\ stage' = [stage EXCEPT ![p] = "trying"]
          /\ conn' = [conn EXCEPT ![p] = FALSE]
          /\ UNCHANGED threads
  /\ UNCHANGED <<lockVars, phase, taskVars, queue, boots>>

\* on_acquired: only the waiting loop starts the runtime.
PhaseIfElected(p) == IF phase[p] = "waiting" THEN "starting" ELSE phase[p]

\* try_acquire_leader; a follower that is elected starts the runtime.  The
\* thread does not know of a shutdown that came in between.
TryAcquire(p) ==
  /\ stage[p] = "trying"
  /\ stage' = [stage EXCEPT ![p] = "idle"]
  /\ ElectionReturns(p)
  /\ \/ /\ Elected(p)
        /\ conn' = [conn EXCEPT ![p] = TRUE]
        /\ phase' = [phase EXCEPT ![p] = PhaseIfElected(p)]
     \/ /\ NotElected
        /\ UNCHANGED <<conn, phase>>
  /\ UNCHANGED <<taskVars, queue, boots>>

-----------------------------------------------------------------------------
(* The scheduler.                                                          *)

\* The clock reaches a job's next_run_at.
FallsDue(p, j) ==
  /\ phase[p] = "serving"
  /\ j \notin due[p]
  /\ due' = [due EXCEPT ![p] = @ \cup {j}]
  /\ UNCHANGED <<lockVars, conn, phase, stage, running, overdue, poolVars, boots>>

\* The due jobs that _loop may start: a run still in progress blocks the next.
Startable(p) == due[p] \ running[p]

\* A job that could not start stays due.
DueAfterPass(p) == due[p] \ Startable(p)

\* One pass of _loop with the gate open.
Dispatch(p) ==
  /\ phase[p] = "serving"
  /\ IsLeader(p)
  /\ Startable(p) # {}
  /\ due' = [due EXCEPT ![p] = DueAfterPass(p)]
  /\ running' = [running EXCEPT ![p] = @ \cup Startable(p)]
  /\ queue' = [queue EXCEPT ![p] = @ \o SetToSeq(Startable(p))]
  /\ UNCHANGED <<lockVars, conn, phase, stage, overdue, threads, boots>>

\* Mutant: the flag falls with the timeout, the thread works on.
RunningAfterTimeout_Free(p, j) == running[p] \ {j}

\* The flag of a job after wait_for gives up on it: the future is shielded and
\* awaited, so the job counts as running until its thread is done.
RunningAfterTimeout(p, j) == running[p]

\* _run_task, asyncio.TimeoutError.
TimesOut(p, j) ==
  /\ phase[p] = "serving"
  /\ j \in running[p] \ overdue[p]
  /\ overdue' = [overdue EXCEPT ![p] = @ \cup {j}]
  /\ running' = [running EXCEPT ![p] = RunningAfterTimeout(p, j)]
  /\ UNCHANGED <<lockVars, conn, phase, stage, due, poolVars, boots>>

\* Mutant: no finally: a job that timed out stays flagged.
RunningAfterEnd_TimeoutKept(p, j) == IF j \in overdue[p] THEN running[p] ELSE running[p] \ {j}

\* The flag of a job whose thread is done, whatever it returned or raised.
RunningAfterEnd(p, j) == running[p] \ {j}

\* _run_task, finally.
JobEnds(p, s) ==
  LET j == threads[p][s]
  IN  /\ j \in Jobs
      /\ threads' = [threads EXCEPT ![p][s] = None]
      /\ running' = [running EXCEPT ![p] = RunningAfterEnd(p, j)]
      /\ overdue' = [overdue EXCEPT ![p] = @ \ {j}]
      /\ UNCHANGED <<lockVars, conn, phase, stage, due, queue, boots>>

ProcStep(p) ==
  \/ Boot(p) \/ StartRuntime(p) \/ Shutdown(p) \/ Exit(p) \/ Kill(p)
  \/ ThreadTakes(p) \/ WatchWakes(p) \/ Probe(p) \/ TryAcquire(p)
  \/ Dispatch(p)
  \/ \E j \in Jobs : FallsDue(p, j) \/ TimesOut(p, j)
  \/ \E s \in 1..Threads : JobEnds(p, s)

Next == Cut \/ ServerDrops \/ \E p \in Procs : ProcStep(p)

Spec == Init /\ [][Next]_vars

\* The loops sleep for bounded times and the pool serves its queue; a job ends
\* unless it is one that hangs; Postgres notices a dead session; the platform
\* ends a replica it is draining.
FairSpec ==
  /\ Spec
  /\ WF_vars(ServerDrops)
  /\ \A p \in Procs :
       /\ WF_vars(StartRuntime(p)) /\ WF_vars(WatchWakes(p)) /\ WF_vars(ThreadTakes(p))
       /\ WF_vars(Probe(p)) /\ WF_vars(TryAcquire(p)) /\ WF_vars(Dispatch(p))
       /\ WF_vars(phase[p] = "draining" /\ Kill(p))
       /\ \A s \in 1..Threads : WF_vars(threads[p][s] \notin Hanging /\ JobEnds(p, s))

-----------------------------------------------------------------------------
(* Safety.                                                                 *)

\* The module variables, task flags and pool slots have their types.
TypeOK ==
  /\ lock \in Procs \cup {None} /\ cut \in BOOLEAN
  /\ conn \in [Procs -> BOOLEAN]
  /\ phase \in [Procs -> Phases]
  /\ stage \in [Procs -> Stages]
  /\ due \in [Procs -> SUBSET Jobs]
  /\ running \in [Procs -> SUBSET Jobs]
  /\ overdue \in [Procs -> SUBSET Jobs]
  /\ queue \in [Procs -> Seq(Work)]
  /\ threads \in [Procs -> [1..Threads -> Work \cup {None}]]
  /\ boots \in [Procs -> 0..MaxBoots] /\ faults \in 0..MaxFaults

\* How often the work item w is in p's pool, waiting or at work.
Copies(p, w) ==
  Cardinality({i \in DOMAIN queue[p] : queue[p][i] = w})
  + Cardinality({s \in 1..Threads : threads[p][s] = w})

\* A replica never has two runs of one job, nor two leadership checks, in its
\* pool, however long a run outlives its timeout and its interval; and
\* Task.running is true as long as the run is there, no longer (_run_task).
SingleFlight ==
  \A p \in Procs :
    /\ \A j \in Jobs : Copies(p, j) = IF j \in running[p] THEN 1 ELSE 0
    /\ Copies(p, Election) = IF stage[p] = "idle" THEN 0 ELSE 1

\* The flags, the pool and what is in it agree, through hangs, crashes and handovers.
PoolHolds == TypeOK /\ SingleFlight

\* A live session never holds the lock for a replica that thinks it is a
\* follower: nobody would run the jobs and nobody could take over
\* (try_acquire_leader, _drop_leader_conn, release_leader).
NoForgottenLock == lock # None /\ ~cut => IsLeader(lock)

-----------------------------------------------------------------------------
(* Liveness.                                                               *)

Effective(p) == phase[p] = "serving" /\ IsLeader(p) /\ SessionAlive(p)

\* A replica whose session is gone finds out, as long as the pool has a thread
\* that no hanging job can take (watch_leadership, check_leadership).
StaleLeaderStepsDown ==
  \A p \in Procs :
    (IsLeader(p) /\ lock # p) ~> ~(IsLeader(p) /\ lock # p)

\* Deployments, crashes and lost sessions never strand the background work:
\* once they stop, a replica leads for good, if one is left (wait_for_leadership,
\* "rolling deploys cannot strand the app").
LeadershipSettles ==
  <>[]((\E p \in Procs : Effective(p)) \/ (\A p \in Procs : phase[p] = "down"))

\* On a replica that keeps the lead, a due job is submitted sooner or later, unless its
\* last run is still in the pool: a run that outlived its timeout does not silence it.
DueJobsRun ==
  \A p \in Procs : \A j \in Jobs :
    j \in due[p] ~> j \notin due[p] \/ phase[p] # "serving" \/ ~IsLeader(p) \/ Copies(p, j) > 0
=============================================================================
