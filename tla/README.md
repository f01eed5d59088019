# Formal models of Ghost Protocol v2

TLA+ specifications of the parts of Ghost Protocol v2 where a mistake would be
one of order: who holds a lease, who leads, what a late answer may still
change. Each module is written from the Python source; every definition that
stands for code is listed with its file and lines in `PROJECT.json` under
`map`. TLC checks the modules on small instances and TLAPS proves the most
important invariants for every value of the constants.

Contents: [the system](#the-system), [the modules](#the-modules),
[how state and actions correspond to the code](#state-and-actions),
[what each run checks](#runs), [fairness](#fairness), [proofs](#proofs),
[what the code does otherwise than its text says](#disagreements),
[what is not modelled](#not-modelled), [plan](#plan).

To run something: `tlc -config AgentTaskQueue.cfg MCAgentTaskQueue`,
`tlapm AgentTaskQueueProofs.tla`.

## The system

Ghost is a web process (`wolf_app.py`, FastAPI) with Postgres behind it,
deployed on a platform that overlaps the old and the new replica during every
deployment. Workers on other hosts (`services/`) call its HTTP API. All state
that matters is in Postgres; in memory there are caches, breakers, rate limits
and the scheduler's flags.

| Component | State it keeps | Operations | What is hard | What makes it correct |
|---|---|---|---|---|
| Agent task queue (`core/agent_workflow.py`) | tasks, lease events, evidence, workers | create, claim, heartbeat, submit, release, maintain | agents die, answer late, answer twice; `now` is read before the row lock is had; sweeps race submissions | N distinct agents complete a task, exactly; one lease at a time; late tokens change nothing; nothing is stranded |
| Leader election and scheduler (`core/leader_lock.py`, `core/scheduler.py`, lifespan in `wolf_app.py`) | an advisory lock, the lock session, per-task flags, a thread pool | try_acquire, check, wait, watch, release; dispatch, timeout, end of a job | sessions die silently; threads outlive timeouts and cancellations; replicas overlap | one leader; no job overlaps itself; no due job is lost; someone leads again after any fault |
| Circuit breakers (`core/circuit_breaker.py`) | counters and deadlines of each API, unlocked | allow, record_success, record_failure, reset | threads switch inside every method; answers arrive out of order; callers that report nothing | the threshold opens the circuit; an open one is retried |
| Agent workers (`services/*_worker/worker.py`) | a rate budget, one lease, a heartbeat thread | claim, research, submit, repair, release | lost responses, a lease that ends during a model call | a task is worked on once at a time, and given back |
| Edge forward ledger (`edge/ledger.py`, `edge/store_pg.py`) | experiments, forecasts, abstentions, outcomes, exclusions | register, record, abstain, settle, exclude | two runners; a check and a write in two transactions | a forecast precedes its window and never changes; an outcome is written once |
| Edge tick (`edge/pipeline.py`, `edge/service.py`) | a lease, the card, sent notices | card, issue, resolve, notify, paper orders | a tick outlives its lease; crashes between steps | one set of forecasts a day; every forecast is graded; a notice goes out once |
| Edge paper broker (`edge/paper.py`, `edge/fills.py`) | order records beside the broker's own | submit, protect, cancel, exit, reconcile | orders accepted with the answer lost; a guard job without the lease | no order twice, no position left open |
| Research budget (`edge/research_budget.py`, `edge/research_worker.py`) | spent amount and reservations of the day | reserve, charge, release | a crash between a paid call and its charge | spending stays under the cap |
| Research registry and activation (`core/research_*.py`) | artifacts, registrations, proofs, live models, leases | register, evaluate, activate, roll back | activation races retraining and rollback | only a proven artifact is activated, once, and can be rolled back |
| Contract 70 registry (`core/contract_70_*.py`) | one registration and its history | register, evaluate | selection and evaluation overlap in time | only outcomes after registration count |
| Predictions (`core/prediction.py`, `core/watchdog.py`, `core/tp_sl_resolve.py`, `core/pick_review.py`) | picks and their outcomes | issue, resolve, review, alert | three resolvers on one row; bars that are cached, missing or not final | one resolution, one alert, an outcome the market earned |
| Kill switch (`core/prediction.py`, `core/risk_discipline.py`) | the pause of issuance: five keys of `ghost_state` | judge, pause, clear, resume, suppress | every reader may clear a pause; a pause stops its own evidence | bad outcomes stop issuance; a pause ends |
| Paper wallet (`core/paper_wallet.py`) | cash, open and closed positions | cycle, reset, clean-up | duplicates, a month that rolls over | one open position a symbol, cash that adds up |
| Database pool (`core/db.py`) | connections | get, put, migrate | exhaustion | nobody waits for ever |
| Rate limits (`core/polygon_rate.py`) | tokens, cooldown | try_acquire, note_rate_limited | the clock is read before the lock | never above the rate |
| Morning card, Telegram (`core/morning_card_schedule.py`, `core/telegram.py`) | date of the last card | due, send | restarts around the window | one card a day |
| Request guard, MCP authorization (`shared/request_guard.py`, `mcp/`) | failures by client, codes | record, lock out, consume | concurrent redemptions | a code is used once |
| Monitors (`core/wolf_monitor.py`, `core/squeeze_monitor.py`) | last alert times | poll | started on the leader | as the scheduler |
| Signal engine and training (`core/signal_engine.py`, ...) | models | train, score | numerical | outside the reach of a model checker |
| Ledgers of Super Ghost, squeeze and shadow scoring | append-only rows | log, resolve | one writer each | append only |
| News, filings, options ingest | fetched documents | ingest | parsing | idempotent inserts |
| HTTP API, pages, scripts | none of their own | - | - | - |

How they interact. The lifespan of the web process elects a leader; the leader
registers about sixty jobs with the scheduler, which runs them in the default
thread pool. Among those jobs are the queue's maintenance sweep, the
resolvers, the edge tick and the paper guard. Jobs call external APIs through
the breakers, so one breaker is used by many threads at once. The agents call
the queue through the HTTP API of whatever replica answers; the queue is
therefore served by several processes at once, and only the database orders
them. The edge tick has its own lease on top of the leader's, because the lock
may change hands while a tick runs.

## The modules

| Module | What it is |
|---|---|
| `AgentTaskQueue` | the queue: one action per operation of `core/agent_workflow.py` |
| `AgentConsensus` | what the queue promises, without clock, leases or evidence |
| `AgentTaskQueueProofs` | theorems about leases, quorum, the evidence under each lease and the cooldown; the queue implements `AgentConsensus`; the workers use the queue as it allows, keep their leases and count truly |
| `LeaderScheduler` | replicas, the advisory lock, the takeover and watch loops, the scheduler and its thread pool |
| `LeaderSchedulerProofs` | the lock is never forgotten; a replica's pool has everything once, as its flags say |
| `CircuitBreaker` | one breaker and the threads that share it |
| `SwitchProofs` | the threshold opens the circuit; the kill switch is one record and bounds what is issued under red |
| `EdgeTick` | one experiment and one session of the edge shadow: ticks under a lease over the forward ledger |
| `FrozenLedger` | what the forward ledger promises: write-once forecasts, outcomes that stand |
| `EdgeTickProofs` | `EdgeTick` implements `FrozenLedger`; one spec for every forecast; the card is what is on record |
| `AgentWorker` | the two workers, composed with `AgentTaskQueue`: what a worker believes against what the row says |
| `EdgePaper` | the paper order of one forecast, and the broker's side of it |
| `ResearchBudget` | a morning of paid research by several containers: reservation, lease, calls, charge |
| `ResearchBudgetProofs` | allowances and bills stay under the cap; a symbol is paid for once |
| `PaperWallet` | the wallet's transactions, and the table lock that orders them |
| `PaperProofs` | the wallet: what a transaction has read stands; cash, limit and one lot a symbol follow. The paper order: the row says of the entry what is so; done is sold; the exits of one job at a time cover what was bought, and no share twice |
| `ResearchActivation` | a lane that research artifacts serve: registration, proof, activation, rollback, and a process that loads the model |
| `ResearchActivationProofs` | the rows of a lane tell one story; what is served is current; what a proof rests on |
| `PickLedger` | the picks of one symbol: issued, resolved, withdrawn, ended by operators, told |
| `PickLedgerProofs` | outcomes are what the market did; an ending is final and told once |
| `KillSwitch` | the pause of issuance, its evidence, and all who write it |
| `MC...` | the instances that TLC checks |

`AgentWorker` extends `AgentTaskQueue` and its actions conjoin the queue's; the others
stand for processes that meet only in the database.

In every module the safety invariants are conjunctions of named parts, the type
invariant among them: `LeasesHold`, `PoolHolds`, `CardHolds` and so on.

## State and actions

### AgentTaskQueue

`task[t]` is the row of task `t` in `ghost_agent_tasks`, `evidence[t]` the rows
of `ghost_agent_evidence` in insertion order. `leases[t]` is what the events
table says of the task: one record per `CLAIMED` event with how and when that
lease ended. The token of a lease is its position in that history, so an old
token can be told from a new one.

Every operation takes the row lock of the task inside one transaction, so each
is one action: `Create`, `Claim` (with the sweep that `claim_task` runs first,
the order of priority and `SKIP LOCKED`), `Heartbeat`, `Submit`, `Release`,
`Maintain`. `_expire_unavailable_tasks` is `Swept` and `SweptLeases`: three
UPDATEs one after the other, of which the third works on what the second wrote.

What is not atomic with the transaction is the time. Each function reads
`time.time()` before it waits for a pooled connection and for the row. So an
action runs with a `now` that may be up to `MaxDelay` old, and two transactions
may commit in the other order than their clocks.

Assumptions: READ COMMITTED with a row lock makes an operation's condition and
update one instant; a body's verdict is a function of the body (`Check`: clean,
repairable or fatal); the status `CANCELLED` is never written by any code; the
claims of different agents in different processes are the same function.

### LeaderScheduler

`lock` and `cut` are Postgres' side: whose session has the advisory lock, and
whether that session is broken without Postgres knowing. `conn[p]` is the
module variable `_leader_conn`, all that `is_leader()` looks at. `phase[p]` is
where the lifespan is, `stage[p]` where the work item is that runs
`check_leadership` in the executor: its probe of the session and its attempt to
acquire are two steps. `queue[p]` and `threads[p]` are the default executor,
shared by elections and jobs. `due`, `running` and `overdue` are the
scheduler's flags.

Actions are `Boot`, `StartRuntime`, `Shutdown`, `Exit`, `Kill` for the lifespan;
`WatchWakes`, `Probe`, `TryAcquire` for the two loops; `FallsDue`, `Dispatch`,
`TimesOut`, `JobEnds` for the scheduler; `ThreadTakes` for the pool; `Cut` and
`ServerDrops` for the network and Postgres.

Simplifications: all registered jobs are synchronous functions, so only the
executor branch of `_run_task` is modelled; a dispatch and the start of its
coroutine are one step; the boot maintenance is part of `StartRuntime`; the two
monitors are gated as the scheduler and are not separate.

### CircuitBreaker

One breaker. Its callers are jobs in threads, and it has no lock. Under CPython
3.12 a thread can be switched at a call and not between two plain assignments,
so a method is one step between two of its calls. `allow` is `Ask`, then `Count`
(the comprehension that replaces `_call_timestamps`: it builds the new list
first, so another thread's stamp can be lost), then `Stamp` or `Limit`.
`record_success` of a half-open circuit logs before it closes (`Succeeds`,
`Close`); `record_failure` logs before it opens (`Fails`, `Trip`).

Times are kept as what is left of them: `left` ticks of the cooldown,
`stamps[k]` calls that count for `k` ticks more. The model then has finitely
many states without a bound on time; only the number of stamps in a list is
bounded. `failures` is counted up to the threshold, since nothing tells higher
counts apart.

`Forgets` is a call site that reports neither success nor failure
(`core/market_sessions.py`, early returns in `core/prices.py`); a response
that cannot be parsed reports both, in that order. `auto_recover` reads the state
of breakers and, whenever it would act, finds that `allow` has nothing left to
change; it has no action.

### EdgeTick

The store (`edge/store_pg.py`) is a table of rows in which each call is a
transaction of its own, so a tick is as many steps as it makes calls. `pc[r]`
says where the tick of process `r` is and `local[r]` holds its Python variables;
`experiment`, `forecasts`, `abstained`, `card`, `outcomes` and `excluded` are the
rows of one experiment and one session, `lease` the `edge_shadow` row.

A morning tick goes through `Start` (claim), `Register`, `Fetch`, `Scan` (the rows of
an earlier tick), `Stamp` and `Record` for each of the top names, `Abstain` for
the others, `WriteCard` and `Leave` (release); an evening tick through `FindPending`,
`Resolve`, then `CheckOutcome` and `PutOutcome` for the market and the simulated
record of each forecast. `CheckExclusion` and `Exclude` are the two transactions
of `Ledger.exclude`. A refusal (`ContractError`) ends the step of the tick it is
in, as `guarded` has it, and a tick has one such step here. Only the refusal of the spec
does not: the experiment is then left out (`Refused`, the code's `refused_specs`), and the tick goes
on to write the day's card for the other experiments, with all candidates and with
`refused_specs` on it, but without a forecast or an abstention of this one.

Time is the phase of the day and the end of leases: `WindowOpens`, `LeaseEnds` for a
holder that is dead, `LeaseOutlived` for one whose tick still runs.

Simplifications: the symbols, prices and candidates of a fetch are arbitrary; of
the final outcomes there are two, an open trade's end and `NO_FILL`, and
`Verdicts` keeps what `edge/resolver.py` implies between the two records; the
reads of `resolve_day` and `settle` before one write are one step, since a
later final outcome is seen by `put_unless_final` anyway; the days of an early
close issue nothing and are left out, and so is the experiment of a trained
model, which is issued by a loop of its own with the same calls.

### AgentWorker

`wpc[a]` is where `run_once` of worker `a` is, `job[a]` what it works on; `beatAt[a]` is
the last turn of its `LeaseHeartbeat` thread, `shown[a]` its row of
`ghost_agent_workers`. `AskClaim`, `SubmitJob` and `GiveBack` are the queue's own actions
with what the worker makes of the answer, or with an answer that is lost although the
queue has acted (counted in `lost`, for each worker). `Beat` renews the
lease at the worker's interval, which `Interval` caps; `WorkerTick` lets time pass, and
not past a heartbeat that is due. `Killed` ends a worker anywhere.

Simplifications: `RateBudget`, the status rows of a finished run and the polls of an idle
worker are left out; each research yields a payload of its own, so the path that
returns a stored answer is not taken; a pause is counted from the start of `run_once`; the
heartbeat thread ends with its task (in the code, up to 5 s later).

### EdgePaper

`row` is the record in `edge_paper`, `orders` the broker's orders by client order id,
`actual` the reconciled outcome. `pc[r]` and `local[r]` are where the two jobs are and what
they have read: the tick and the guard job run the same deadline step, and only the tick has
the entry, the time exit and the reconciliation. Each call to the broker or to the store is a
step: `Read`, `CancelEntry`, `Reread`, `Judge`, `CancelLegs`, `RereadLegs`, `ProtectPart`,
`PostProtect`, `ConfirmProtect`, `PostFlatten`, `ConfirmFlatten`, and `Exit...` for the time exit.
The broker fills, cancels and rejects between any two of them (`Fills`, `Stops`). A call may
fail before or after it took effect (`Posts`, `Cancels`), and a job may die (`Dies`); both count
in `mishaps`. `OthersShares` are the shares of the symbol that other experiments hold: only with
them can one sell more than was bought.

Left out: the accounting and profit of an order, and orders that twin experiments share.

### PickLedger

`picks` are the rows of one symbol, `bars` the market, `events` the performance log, `alerts`
what was sent. A resolver is `Judge` (it has read the row, fetched bars and a price, at a
`now` that is older still), `Write` (`UPDATE ... WHERE outcome IS NULL`) and `Tell`; a cycle is
`PlanReviews`, `Save` (its transaction under the advisory lock) and `Notify`. `VoidOrphans` and
`ForceExpire` are the endings by operators. `Resolve` is `resolve_open_prediction_detail`
with its order of bars before quotes and stop before target. A day is a session and the
time after it, with one move of the price in the session; bars come through the cache
(`Cached`), with gaps or not at all. `Tick` waits for jobs that are under way: resolvers
and cycles take less than a night.

The watchdog's endpoint acts as a watchdog without bars that does not log. The risk and
shadow records that follow the reconciler are left out.

### PaperWallet

`book` is what is committed: for each signal the lot it was entered with, the profit, the balance and
the month of the configuration row. A transaction `tx[t]` is a cycle, a clean-up, a reset or a page:
`Begin` is everything up to its first quote or write, `Quote` the quotes, then `Trade` or
`CleanUp`; a cycle that finds another month goes through `Roll` first, uncommitted, so that it
works on `View`, and others on `book`.

The lock is the one that `ensure_paper_tables` takes in each of these transactions: a `CREATE
INDEX IF NOT EXISTS` locks its table in SHARE mode before it finds the index there. Whoever has
begun shares the table (`MayShare`), whoever writes is alone (`Alone`), and two that wait
for each other are a `Deadlock`. `WaitsToWrite` is a place in the queue of the lock, behind which no
one begins. Nothing else keeps two cycles apart: a migration that made the index instead would
let them stack lots of a symbol and spend the same cash, which is what the mutant
`Alone_NoIndex` shows.

Simplifications: which signals are candidates, which bands are crossed and at what price is
arbitrary; a slice costs the same in both books; the records of finished months and of daily equity
are left out; a cycle with nothing to write may wait for the lock all the same, as it
does for its snapshot of the day; `Gains` exceed what a lot cost, since a long lot loses at most that.

### KillSwitch

`pause` is `engine_paused` with its latch and timer, `resume` the operator's keys, `evidence`
the resolved picks that are read, newest last, by age. A cycle is `Evaluate`, `CheckGrace`,
`ReadPrev`, then `AutoClear`, `Clear` or `WritePause`, each a transaction, and `Save`, which keeps a
pick back when this cycle has tripped or the recorded pause says so. `Look` and
`LookClears` are a reader that finds a cooldown due and deletes the pause in a second
transaction. `Resume` is the operator. Times are ages and what remains of them.

### ResearchBudget

`spent` and `holds` are the day's row of `edge_research_budget`, `lease` and `record` the rows of
each symbol, `task[r]` the locals of `research_symbol` in container `r`. `Pick`, `Reserve`,
`Claim`, `Look` admit a task; `AuthorAnswers`, `AuthorFails`, `Reviews` are its paid calls;
`Charge`, `Put`, `Release`, `Unlease` end it, each a transaction. `Raises` and `Killed` interrupt it
anywhere, `LeaseOver` ends a lease, under a task that still runs only if that one was
suspended. `uncharged`, `real` and `suspended` are history.

Assumed, as the comment on `FAILED_CALL_USD` has it: a call costs at most its headroom, one
that raised at most its estimate. Money is counted in units of the headroom. All checks
of one task use the clock it read at the start. The limit of three turns per request is
left to the budget; the ranking of the queue and the end of the window are left out.

### ResearchActivation

One lane, a symbol and a direction. `reg[a]` and `preds[a]` are the registration of artifact
`a` and what it issued, in order, with outcomes and outbox rows; `live`, `saved` and `log` are the rows of
the lane: the model, its predecessor, the activation log. `Register`, `Issue` and `Resolve` fill
the sample; `Evaluate`, `StartActivation`, `CommitActivation` or `RefuseActivation`, and `Mark` are the
outbox job; `Review` is the lease job, which restores the predecessor or pauses the engine; `Train` is a
retrain and `LookToDelete`, `Delete` the two deletions that take no lock. A writer clears the
cache of its own process after its commit (`Flush`), and `Here` says which writers share the process whose
loads are modelled: `LookUp`, `CheckLog`, `ReadBytes`, `Put`, `Served`, each a statement of
`load_model`. The model lock is held through an activation (`LaneFree`), since that one reads
the incumbent before it writes; the other holders write at once.

`auto` is `RESEARCH_AUTO_ACTIVATION` as the process of the outbox job has it: off by default, and
read anew only by a process that starts (`JobDies`). With it off, `Evaluate` proves and
goes straight to `Mark`; the lease job does not look at it. `attempt[a]` is a history of what first came
of the proof of `a`: attempted, whatever the attempt led to, or passed over, because activations were off
or the job died or failed between the evaluation and the activation.

`Starts` are states to begin in. `StartsAssumption` says of them what the code keeps: the rows
tell one story, a proven registration has its sample, and what was activated was proven. `Init` is otherwise a
process that has just come up. `attempt` and `past` are history.

Simplifications: the secondary statistics of a sample are its wins and its share of invalid
predictions; `Review` may find an activation degraded at any time; the artifact store, the
digests but for their comparison in `ReadBytes`, and the promotion of a model to disk are left
out; a load takes less than one unit of the clock. There are only as many registrations as the model has
artifacts: a job looks at the 50 newest open ones (`_list_regs_impl`), so that the row of an older one is marked
PROCESSED without an evaluation, as is that of a registration whose evaluation answers `ok: False` because
its artifact fails the integrity check. `SampleSettles` says nothing of these.

## Runs

Bounds are given with the reason why the interesting case happens within them.

| Run | Bounds | What it shows |
|---|---|---|
| `queue` | 1 task of two kinds (3 attempts and a deadline of 2, or 2 attempts and none), 2 agents, quorum 2, clock to 3, `now` up to 1 old, leases of 2, clean and repairable bodies, 1 repair | Types; row, lease history and attempts agree and no task is stranded (`LeasesHold`); the quorum is exact; no agent counts twice; stale tokens write nothing and repairs are bounded (`EvidenceHolds`); the cooldown after a release holds; every transaction is a step of `AgentConsensus`; with only time and maintenance fair, a deadline settles its task and an unrenewed lease ends (`QueueSettles`). Three attempts are the least with a lost lease before a quorum of two. |
| `worker` | a claude and a codex worker, 1 task that needs both, 1 lost answer or kill of each, leases of 2, clock to 3, a configured interval longer than the lease | A lease is left behind only for a fault, and a worker whose heartbeats are answered keeps its lease and is shown online (`WorkHolds`); its counters agree with the queue (`CountsHold`). |
| `leader_election` | 2 replicas, 2 boots each, 1 fault, 1 job that may hang, 2 threads | Types; no job or election is in the pool twice, and its flag says so exactly (`PoolHolds`); the lock is never held by a live session of a replica that thinks it is a follower; a leader without its session notices; a due job is submitted, though its last run outlived its timeout; after the last fault and deployment one replica leads and schedules for good, unless all are down. Two boots give a crash and a return on both sides; the second thread is what a hanging job leaves to the check. As many hanging jobs as threads are outside this run: then no check runs. |
| `breaker` | 3 threads, threshold 2, cooldown 2, 2 probes, rate 2 | Types; a count at the threshold never leaves the circuit closed, but for the thread about to open it (`BreakerHolds`); however many calls fail, the API is asked again and again. Three threads are needed for one to trip, one to close and one to copy the list. |
| `edge_day` | 2 runners, 2 names, 2 prices, 2 specs, 1 forecast a day, 1 tick that outlives its lease, 1 crash or truncated answer, 1 exclusion | Every forecast has the registered spec; each candidate behind a card is answered, unless the card says that its spec was refused and names none, and the card's levels are those graded (`CardHolds`); as long as no lease is outlived there is one set of forecasts, crashes or not; the rows implement `FrozenLedger`. Two runners, names and prices are what two sets of forecasts, or two prices for one, need. |
| `paper_orders` | 3 shares, 3 of others, 2 tries of each exit, 3 time exits, 2 lost answers, refusals or deaths, both jobs at once for one deadline step | The entry is called ended or refused only when it is (`EntryHolds`); what was bought stays covered, exactly by one job and at least by two, and by one job no share is offered twice (`SharesHold`); done means flat and reconciled as such (`DoneHolds`); past the grace period an order is settled or an alarm raised. Three shares give partial fills of entry and exit both, which it takes to protect a part twice. |
| `paper_oversold` | the same, no fault, no overlap | A violation: see below. |
| `picks` | 1 pick, a watchdog, a reconciler, a cycle, 3 sessions, a horizon of 2 bars, 3 prices, 1 failed read, message or process | The outcome is what the market did, and is told once and as it is (`OutcomesHold`); the first ending stands; it comes. The prices are at the target, at the entry and beyond the stop, so that gaps happen. |
| `kill` | 2 cycles, 1 reader, 4 picks, 2 outcomes of 2 days, 1 failure or resume | A latched pause has no timer, a cleared one leaves no key, and once the outcomes trip only cycles that were under way issue (`SwitchHolds`); a pause ends by itself. Two cycles and a reader are needed for a clear that is stale when it is made. |
| `wallet` | the scheduler's cycle and a process that serves requests, 4 signals of which 2 are lots of one symbol from before the rule and 2 share a symbol, 2 open lots, balances of 3 lots or half a lot, 2 months, 2 requests that write, pages without a bound, 1 fault | What a cycle counted before its quotes holds when it trades: cash and the limit of lots are kept, and pages are of one book (`WalletHolds`); a symbol is not stacked; an expired lot ends. The limit binds in the first balance and the cash in the second; closed lots lose, since gains only leave more room. |
| `research_budget` | 2 containers, 2 symbols, an allowance of 2 calls, a cap of two allowances and a half, 2 attempts, 1 task killed, suspended or raising | Charges and allowances fit under the cap (`AllowancesHold`); bills never pass it; a symbol is paid for by one task at a time and its record stands; the queue is answered or its money spent. The half allowance is what a second symbol may be refused for. |
| `activation` | 2 artifacts, samples of 2, both won, a lease of 1, a reserve of 1, models that live 2, a cache of 1, clock to 3, 1 kill or failure, 1 or 2 retrains or deletions, 2 loads | From four starts: nothing registered yet, with activations off; both samples about to be complete, with activations on, or off until a restart may turn them on; one artifact just activated. No activation is served past its lease or after it ended (`ServedHolds`); an activation has a predecessor to return to, an artifact one activation, and rows and log agree (`LaneHolds`); a proof rests on the first outcomes of its registration, is passed over only with activations off or by a job that died or failed, and is then never activated (`ProofHolds`); a lease ends and a decided registration closes (`LaneSettles`). A second artifact is what may take the lane from the first, a third has nothing to add. |

`edge_day` is checked up to symmetry of its runners, names, prices and specs, which the specification
treats alike; runs with liveness use none. `MaxTasks` bounds the tasks of the queue that exist: the
claim that chooses among several tasks, the sweep of several and fatal bodies are in the model,
and the theorems cover them; of the runs only `worker` has bodies that end a task.
`CHECK_DEADLOCK FALSE` is set where the system may stop: all replicas may be down
for good, a day's order may be settled, the sessions modelled may be over, the picks
issued, the research done. The queue's maintenance, the breaker's clock, the ticks of
the edge and the wallet's cycle are always enabled.

Each property of a passing run has a mutant in `PROJECT.json`: an operator of
the module that changes one mapped definition as a plausible bug would, with
which TLC finds that property violated. Some conjunctions have one for several parts.

## Fairness

- Queue: the clock advances, and `maintain_workflow` is registered as a job of
  the scheduler (`wolf_app.py`). Nothing is assumed of agents. The clock stops
  at `MaxClock`, and the properties speak of times that a `now` can reach.
- Leader: the loops of `leader_lock.py` sleep for bounded times and the pool
  takes queued work when a thread is free; Postgres drops a dead session
  (keepalives); the platform kills a replica that it drains; a job ends unless
  it is in `Hanging`. Boots, cuts, shutdowns of serving replicas and failed
  elections are not fair and are bounded: the properties say what happens once
  they stop.
- Breaker: time passes, calls have timeouts and so return, jobs keep asking.
- Edge: nothing is assumed; `edge_day` checks safety.
- Paper: both jobs run again and again while the day lasts and go on through their steps,
  and the broker ends what it was asked to end (`Stops`). Nobody promises a fill.
- Picks: the reconciler is a job of the scheduler and its steps are taken; the days pass
  (strongly fair, since a job under way holds the night back).
- Wallet: the job runs every 300 s; the queue of a Postgres lock is first come, first served; a
  transaction goes on or waits; Postgres aborts one of two in a deadlock; the feeds answer for
  all symbols now and then. Requests that write, and faults, are bounded: a stream of either
  could keep a lot open.
- Kill switch: the market scan starts cycles again and again and time passes. Readers and
  the operator may never come.
- Activation: time passes, the outbox job and the lease job are jobs of the scheduler, statements of a load and
  the clearing of a cache after a commit come to an end. Outcomes, retrains and deletions may never come.
- Research: the edge job runs in each container, a lease whose task is gone ends, a
  backoff ends. `Answered` speaks of days without an interruption.

## Proofs

All theorems hold for every value of the constants that satisfies the named
assumptions of the modules.

`AgentTaskQueueProofs`. The conditions of one operation rely on what others
left, so no property is inductive alone. `LedgerInv` joins types, `LeaseLedger`
(the lease columns describe the one open lease, the newest; attempts count the
leases) and `NeverStranded`; it is preserved action by action, with lemmas on
what a sweep, a closed lease and an unleased row are. `QuorumInv` adds, given
`LedgerInv`, that the quorum is exact, that the holder of a lease has no
accepted evidence yet (`HolderFresh`), that a quorum is not reached while a task is
open (`NothingEarly`) and `OneVoicePerAgent`: without `HolderFresh` a second
submission of one agent could not be excluded, and without `LedgerInv` not that
the submitting agent is the holder. From both follows that every transaction
is a step of `AgentConsensus`: `QueueImplementsConsensus`.
`EvidenceHolds` and `ReleaseCoolsDown` (`EvidenceIsHeld`, `CooldownIsKept`) speak of what was
recorded long ago. A step changes the end of the newest lease of a task, adds one lease or adds
one row of evidence; a lease that is granted is newer than all evidence, and one that ends has
no successor yet. The strengthening is `HolderRepairs`: under a lease that is still held there
are rejected submissions only, all repairable, and no more than the repairs allowed, which is
what makes the next submission legal.
The second half of the module is about the workers. `WorkerInv` says of each agent apart (`AgentInv`) that the lease
it works under was granted to it and its heartbeat is not overdue (`JobInv`), that a run at work is a claim
not yet counted as processed (`CountInv`), that the lease lasts beyond the next heartbeat or was dropped at
the deadline (`LeaseInv`), and how many leases it left behind (`LeftInv`). The last is the subtle one: a release that is
refused because the lease just lapsed leaves it behind without a fault of its own, so `Lapsing` sets aside the fault that let
it lapse. What one step leaves to others is `Untouched`, of the queue, and `Same`, of the worker; `Bystander` joins them, and each
operation then needs a lemma about the worker that takes it (`OwnClaim` to `OwnKilled`). `WorkersUseTheQueue` is the refinement
the other way round: `WorkerSpec` implies `Spec`, so the theorems about the queue hold with its workers. `WorkersKeepTheirLease` and
`CountsAreTrue` use `TimesAssumption`, the order of the times the workers are built with: heartbeats of 60 s at most,
leases of 300 s at least, shown online for 120 s. The queue would grant shorter leases to other clients; the
theorems about the queue alone do not use it.

`LeaderSchedulerProofs`. `LockIsNeverForgotten`: the lock variables, types of
those, and `NoForgottenLock` are inductive together; a lemma says that actions
of scheduler and pool leave them alone. `PoolIsSingle`: that there is one copy of a work item, and that the
flags say so, is proved as `PoolInv`, without counting: places in the queue and the threads that
hold the same are the same place, a job's flag says that one holds it (`Waits`, `Works`), and so does
the stage of the leadership check. Each action is one of a few changes of one pool (an item is
queued, taken, ended, withdrawn, or all are gone), and `CountsOne` leads back to the cardinalities of
`SingleFlight`. The jobs are finitely many (`ConstantsAssumption`), as a dispatch lists those that are due.

`SwitchProofs`, of `CircuitBreaker`. `Typed` (an open circuit only has a cooldown), and with
it `ThresholdTrips`: every action that lowers the circuit also lowers the count,
and the action that raises the count to the threshold leaves a thread about to
open. `BreakerCorrect` joins the two.

`SwitchProofs`, of `KillSwitch`. `SwitchIsSafe`: that few picks are issued once the outcomes trip (`Red`) is not
inductive, as a cycle may be anywhere then. `RedIsPaid` adds to the picks issued under red those that may
still be, one for each cycle that is under way and not `Doomed` by its own judgement or memory: together
they are at most the cycles and the failures. A judgement made under red dooms its cycle (`RedTrips`: no grace narrows what
it reads), a failed one is a failure, and a pick that is issued uses up its cycle (`SavePays`). It
does not matter who clears the recorded pause when. `TimeGoes` takes the oldest rows by their number: their order
by age is not needed for safety (that it can always be taken is part of what `kill` checks).

`EdgeTickProofs`. The store's operations check what they write, but a tick
writes from variables it read calls ago. `IInv` says what those may be relied
on for: while a tick issues, its spec is the registered one; while it grades,
what it has at hand is on record. Both survive the other ticks' steps since
rows are never deleted and the experiment is written once (`OthersUndisturbed`).
From it follow `OneSpecHolds` and, step by step, `TicksImplementLedger`: `Record`
is a step of `FrozenLedger` or finds its row there, `PutOutcome` likewise, and no
other action touches those rows. Neither the lease nor any bound on crashes is
used: the ledger is safe without its lease. `CardIsTheRecord` does use it. `CardTick` says what the locals of a
tick are worth when it comes to write the card (its forecasts are on record, its other candidates
forecast or abstained from, unless its spec was refused: which spec is registered never changes once
a tick has found one, so what a tick was told at `Register` is what its card says), and `OneTick` that as long as no lease was outlived only its holder is at
work, so that what it counted in its scan is still all there is; without it a second tick
might add forecasts between scan and card. The symbols are finitely many (`NamesAssumption`).

`ResearchBudgetProofs`. `AllowancesFit`: what was charged and the allowances of all tasks
that were not charged fit under the cap. It is not inductive alone: a charge must free a
reservation that is there and nobody else's (`TaskInv`), and an admission counts all
reservations, of which the uncharged ones are a part. `PaidForOnce` and `RecordStands`
rest on `LeaseInv`: while no task was suspended, the lease of a symbol names the one
task at work on it, so the record it found due is still due when it writes. `BillsFit` is about money
that the providers took and nobody counted. `BillsInv` assigns each reservation the units billed under
it: none before the first call, no more than its task's cost while that task is there to charge
it, at most the allowance once it was interrupted. Those units form a set of pairs (`Pile`), so that
the sum over all reservations is a cardinality, without recursion, and what was billed is
at most what was charged and the pile; a pile fits into the allowances (`PileFits`), and these fit by `AllowancesFit`.

`PaperProofs`, of `PaperWallet`. A cycle decides on what it read before the quotes, so `CashHolds`,
`OpenBounded` and `OneLotPerSymbol` are inductive only with `LookStands`, and that one only with
`WriterAlone`: while a month is rolled but not committed, all others are idle. A commit that
changes the book finds no one else with a look; one that does not change it disturbs no look.

`PaperProofs`, of `EdgePaper`. `RowIsTrueOfEntry`: a row is written from a copy that a job took earlier, so
`EntryInv` says of each job what it relies on where it is (`Honest`): that a copy says "ended" only of an entry that has
ended, that a check which has come past `reread` has seen it end, and that ids are recorded before they are
posted. An entry that has ended never moves again (`Moves`), whatever the other job, the
broker or the day does. That a placed order is recorded as refused takes two lost answers follows by counting them: one
is owed as soon as an order is placed that the tick does not know to be accepted (`RowTrue`), and a
second by the look-up that does not find it. `Shaped` says what a status says of the shares of
an order, and that the legs wait for the entry.

`DoneIsSold`, `SharesHoldAlone`: "covered", "not twice" and "done" are promises about all exits at once, made by a job
that knows only its copies. The inductive invariant is `SoloInv`: where in the day a job may be (`DayInv`), and, as
long as no two jobs have met and nothing was closed as the last resort, `Solo`. Its parts: every exit that was
placed is on record (`RowKnows`); exits follow one another, one protective exit at most (`InTurn`); what the
exits have sold and still work on fits into what was bought (`Fit`); what a done deadline step and a done
forecast leave (`Covers`, `Over`); and `Relies`, what the one job at work may rely on at each step: its record is
the row, an order that its copy calls over is over and as it says, and the shares it counted as
owned are those no exit has sold, so that the order it is about to post fits. Neither `Fit` nor `Covers` is
inductive without `Relies`, nor `Relies` without `RowKnows`: an exit that was not recorded would not be counted.
A sum over the exits is the cardinality of a set of pairs (`Pile`, `Counted`), without recursion: one order that
offers less makes the pile smaller, one that is posted makes it larger by its size, and `ClaimsOffered` leads back
to the sums of the model. The broker can only shrink what is offered (`Drifts`). `OneExitPerShare` and `DoneHolds` are proved in
full. Of `CheckedIsCovered` the case that the jobs have met once is not: there the copies of
both are stale at once, and none of `Relies` holds.

`ResearchActivationProofs`. `LaneIsOneStory`: the rows of a lane change in different transactions, so `LaneInv`
adds to types and `OneStory` what an activation under way may rely on, `Committing` (no activation
is current, its artifact was never activated, and the incumbent it found is proven and outlasts
the lease it is about to grant), and where the outbox job is (`JobAtWork`, `Flushing`). That a predecessor may serve until the
lease and the reserve are over is kept as an inequality of two recorded times, which no clock
disturbs. `ServedIsCurrent` is about what a load has read: `ReadInv` says of each of its
steps, and of the cached entry, that the model was the lane's since the time that the entry
records (`past` remembers when it left); an activation that passed the check of the
log was current then, since the log only grows. `ProvenBySample` rests on lemmas about samples: the
first `SampleSize` valid ones of a sequence whose outcomes are never rewritten and to which others are only
appended stay the first (`Grown`, `ProofStands`), and an evaluation that reaches `SampleSize` in the
resolved prefix has reached those (`StatusProves`). Its second part is `Noted`: a registration is proven exactly when
something came of its proof or the job is about to activate it, and what that job commits it had attempted. Since an
artifact comes to the log only through a commit, whatever was passed over stays out of it.

`PickLedgerProofs`. `OutcomesAreTrue`, `EndingsStand`. What a resolver writes was decided earlier, with bars
that may not have been final, so `PickInv` has `Earned` in two places: of a row that is closed, and of the verdict a
resolver is about to write as long as the pick is open. `VerdictEarned` is the heart: whatever bars and quote
`Resolve` gets, its verdict is earned, since the first bar that touched a level is the first (`FirstOf`, from the
well-foundedness of the library), a full horizon is over (`HorizonFull`), and a bar that counts against a win
was final (`DayOver`). `EarnedStays` carries that through time: what was seen of a pick only widens and a bar that is
over does not change. That an ending is told once needs that at most one resolver or cycle is about to tell
of it (`ToldByOne`), which follows since the one that closes a row finds it open (`OpenUntold`).

Only model-checked: liveness (all of it, as the prover has no rule for it), and of `SharesHold` in `EdgePaper` the
case that two jobs have met once (cover by at least one exit).

## Disagreements

A run that ends in a violation states what a comment or document says; the trace
is what the code does.

| Run | The text | The code |
|---|---|---|
| `paper_oversold` | `edge/paper.py`: "definitely refused, or the broker shows it rejected: flatten below", "never sell more than we own" | a protective exit that has filled by the time it is read back is final too: its shares are flattened again, from what another experiment holds of the symbol |

Others that the models show in the same way and that no run keeps.

- Queue: beyond the repair cap `docs/CODEX_WORKER_CONTRACT.md` has a task dead-lettered and not
  reissued, while the code puts it back to PENDING as long as attempts remain; an agent that
  spends its repairs claims the same task again at once, since the cooldown (comment on F35)
  looks at releases only; a submission between the deadline and the next sweep completes a
  task that `docs/AGENT_WORKFLOW.md` says expires; of two heartbeats that commit in the other
  order than their clocks the later one shortens the lease.
- Leader: an election already in a thread can take the lock after `release_leader`, for a
  process that is going away; a leader without its session starts jobs until the next
  liveness check; that check needs a thread of the pool that hanging jobs may hold; a replica
  that drains releases the lock while its jobs are in threads, so that the next leader runs the
  same job beside them, which `leader_lock.py` gives as what the election prevents.
- Breaker: a successful probe closes the circuit, but not the one granted last; probes are let
  through as soon as the circuit opens, not after the cooldown; two threads that trip a
  breaker together give its probes back, and threads that count the window together exceed
  `rate_limit_max_calls`.
- Edge: a tick that outlives its lease after its scan issues a second set of forecasts, which
  `_issue_top` rules out; a market record that is unresolved beside a final simulated one is
  not looked at again, though the resolver says "resolve again when data arrives"; `exclude`
  and `settle` can both pass, so that a settled forecast is excluded (`exclude` has no caller
  in production yet); a deployment whose spec is refused may write the day's card first, after which
  the registered one finds the day "already_issued" and neither forecasts nor abstains; an excluded forecast without an outcome stays pending, and its refusal
  ends the grading of the forecasts after it on every tick; a forecast kept from an earlier
  tick is missing on the card when the candidates of the later tick lack its name.
- Paper: an entry that was accepted with its answer lost, refused as a duplicate when it is
  posted again and not found by a lookup that fails, is recorded as rejected, against the
  docstring of `submit`; two jobs that both find a part unprotected protect it twice, and when this
  happens to a forecast a second time (`MaxOverlaps = 2`, 4 shares) they may cancel each other's
  exits and leave shares uncovered in a row that says "done", which is why `CheckedIsCovered`
  stops at one overlap; two jobs at once can oversell when another experiment holds the symbol,
  and the later save of the whole row loses what the earlier one wrote; at the last tick a
  lost but accepted time exit followed by a position close sells twice, and an accepted one
  that does not fill raises no alarm; `submit` does not look at the expiry of the entry. The
  guard job is given 25 s by the scheduler while each of its calls may take 15 s.
- Picks: bars fetched up to 900 s before the winter close at 21:00 UTC are served after it and
  count as final, so that a pick expires at, or is won or lost against, an unfinished bar,
  where `tp_sl_resolve.py` promises "the final horizon close, never a later reconciliation
  quote"; force-expire and the health check write EXPIRED without a price or horizon, which
  `db.py` and `wolf_app.py` say an administrative ending must never do; when bars cannot be
  fetched the quote alone decides; the bar of the day of entry is never looked at.
- Kill switch: a reader's stale clear can delete a newer latched pause, or the operator's
  grace with it, after which old evidence pauses again; a cycle past its grace check writes a
  pause right after the operator's resume; a trip of the cooldown alone removes a latch;
  an exception in the enforcement lets the cycle issue.
- Research: a task that was suspended past its lease may overwrite the finished record of
  another, or reopen it with a failure; a container killed while it researches blocks the head
  of the queue until its lease ends after 20 minutes.
- Activation: `_store_direction_model` says that every writer of a lane takes the model lock, which the
  deletion by an administrator and the purge do not; `invalidate_model_cache` promises that a stale
  model is never served after its row has changed, which holds neither for other processes nor
  for a load under way (both are bounded by the life of an entry); a registration past its
  deadline stays COLLECTING when no outbox row follows; a proof whose activation was interrupted or refused, or
  that was found while activations were off, which is the default, is not tried again, and turning them on does not help it; a refused activation may have replaced the predecessor row already.

`END_GAME.md` describes the election as fail-open; the code refuses leadership
when Postgres fails, and the model follows the code.

## Not modelled

Listed with reasons in `PROJECT.json`. In short: numerical code (training,
scoring, statistics), parsing and formatting, read-only views and idempotent
ingest are left out for good; the components named in the plan come next.
Inside the modelled components: the text of validators; the records of months and days of the wallet; the registry of breakers; what
each job does; the accounting of paper orders; what models and providers answer.

## Plan

1. The Contract 70 registry; the rest of the research registry (freezing an artifact, reusing evidence).
2. Cards: a card whose cycle was skipped by the lock counts as sent, a market scan that was
   skipped as a scan (`wolf_app.py`, `core/morning_card_schedule.py`).
3. `EdgeTick` further: notices sent once, the intraday and opening-range forecasts.
4. Small ones: the token bucket of `core/polygon_rate.py`, the pool of connections,
   `FailureLockout`, authorization codes.
5. Proofs: `CheckedIsCovered` of `EdgePaper` after the two jobs have met once.
