------------------------- MODULE ResearchActivation -------------------------
(***************************************************************************)
(* How a research artifact comes to serve a lane, one symbol and           *)
(* direction, and how it leaves it again.  A registered artifact issues    *)
(* predictions; the outbox job evaluates the registration whenever one is  *)
(* resolved and, if activations are turned on, activates the artifact when *)
(* the proof is complete; the lease job ends the activation and restores   *)
(* the model it displaced.                                                 *)
(* Meanwhile models are retrained and deleted, and a process loads the     *)
(* lane's model through its cache.                                         *)
(*                                                                         *)
(* The writers of the lane hold an advisory lock for one transaction; the  *)
(* deletion of models does not, and a load takes several statements.       *)
(***************************************************************************)
EXTENDS Integers, FiniteSets, Sequences

CONSTANTS
  Artifacts,
  SampleSize,   \* V2_CONFIRMATORY_N
  MinWins,      \* V2_MIN_WINS
  InvalidShare, \* 1 / _MAX_INVALID_RATE
  MaxDays,      \* V2_MAX_CALENDAR_DAYS
  LeaseWindow,  \* _lease_window_s
  Reserve,      \* _ROLLBACK_FRESHNESS_RESERVE_S
  ModelLife,    \* the 14 days of model_serve_guard
  TTL,          \* V3_MODEL_CACHE_TTL_S
  MaxTries,     \* failures after which an outbox row is DEAD
  None,
  MaxClock,     \* bound on the clock
  Here,         \* the writers that run in the process that loads
  Starts        \* where the registrations may be at the start, with the bounds from there on

Models == [kind : {"proven", "research"}, by : {None}, at : 0..MaxClock]
            \cup [kind : {"activated"}, by : Artifacts, at : 0..MaxClock]
NoModel == [kind |-> "none", by |-> None, at |-> 0]
Rows == Models \cup {NoModel}

Writers == {"job", "review", "train", "delete"}
Closed == {"PROVEN", "FALSIFIED", "FUTILE", "INCOMPLETE"}
Registration == [status : {"none", "COLLECTING"} \cup Closed, at : 0..MaxClock]
Prediction ==
  {p \in [counts : BOOLEAN, outcome : {"open", "WIN", "LOSS", "INVALID"},
          row : {"none", "PENDING", "PROCESSED", "DEAD"}, tries : 0..MaxTries] :
    /\ p.outcome = "open" <=> p.row = "none"
    /\ p.row \in {"none", "PENDING"} => p.tries < MaxTries}
Event == [event : {"ACTIVATED", "SUPERSEDED", "ROLLED_BACK"}, by : Artifacts, at : 0..MaxClock]
Budget == [issues : [Artifacts -> Nat], models : Nat, loads : Nat, faults : Nat]
Start == [reg : [Artifacts -> Registration], preds : [Artifacts -> Seq(Prediction)],
          live : Rows, saved : Rows, log : Seq(Event), auto : BOOLEAN, left : Budget]

ASSUME ActivationAssumption ==
  /\ {Reserve, MaxClock, MinWins, TTL} \subseteq Nat
  /\ {SampleSize, InvalidShare, MaxDays, LeaseWindow, ModelLife, MaxTries} \subseteq Nat \ {0}
  /\ None \notin Artifacts /\ Here \subseteq Writers
  /\ Starts \subseteq Start

\* The latest event of a log.
LastOf(l) == IF l = << >> THEN [event |-> "none", by |-> None, at |-> 0] ELSE l[Len(l)]

\* The rows of a lane, m with predecessor p, agree with its log l: an activation in the lane
\* is the latest event, each artifact has one, and what it displaced outlasts its lease.
OneStory(m, p, l) ==
  /\ LastOf(l).event = "ACTIVATED" =>
       /\ m.kind # "proven" /\ p.kind = "proven"
       /\ LastOf(l).at + LeaseWindow + Reserve <= p.at + ModelLife
  /\ m.kind = "activated" => LastOf(l) = [event |-> "ACTIVATED", by |-> m.by, at |-> m.at]
  /\ \A j, k \in DOMAIN l :
       l[j].event = "ACTIVATED" /\ l[k].event = "ACTIVATED" /\ l[j].by = l[k].by => j = k

Counted(p) == {i \in DOMAIN p : p[i].counts}

\* The first SampleSize of the predictions S of p that are not invalid.
FirstOf(p, S) ==
  LET valid == {i \in S : p[i].outcome # "INVALID"}
  IN  {i \in valid : Cardinality({j \in valid : j <= i}) <= SampleSize}

Wins(p, S) == Cardinality({i \in S : p[i].outcome = "WIN"})

\* The first SampleSize of all that count are resolved, with enough wins.
ProvenBy(p) ==
  LET first == FirstOf(p, Counted(p))
  IN  /\ Cardinality(first) = SampleSize /\ Wins(p, first) >= MinWins
      /\ \A i \in first : p[i].outcome # "open"

\* The program starts on what it left.
ASSUME StartsAssumption ==
  \A s \in Starts :
    /\ OneStory(s.live, s.saved, s.log)
    /\ \A a \in Artifacts : s.reg[a].status = "PROVEN" => ProvenBy(s.preds[a])
    /\ \A k \in DOMAIN s.log : s.log[k].event = "ACTIVATED" => s.reg[s.log[k].by].status = "PROVEN"

VARIABLES
  clock,
  left,    \* bounds: predictions to be issued, models to be trained or deleted, loads, interruptions
  reg,     \* [Artifacts -> the registration]
  preds,   \* [Artifacts -> Seq(prediction, its resolution and outbox row)], as issued
  live,    \* the model_ and meta_ rows of the lane
  saved,   \* the row of ghost_research_activation_predecessors
  log,     \* ghost_research_activation_log
  paused,  \* engine_paused, latched
  auto,    \* RESEARCH_AUTO_ACTIVATION in the process of the outbox job
  job,     \* the outbox job
  delete,  \* the deletion by an administrator or by the purge
  flush,   \* writers that have yet to clear the cache of their own process
  cache,   \* the lane's entry of _MODEL_CACHE in one process
  load,    \* load_model in that process
  attempt, \* history: [Artifacts -> what first came of the proof]
  past     \* history: models that left the lane, and when

laneVars == <<live, saved, log, paused, past>>
proofVars == <<reg, preds, attempt, auto>>
readVars == <<cache, load>>
vars == <<clock, left, proofVars, laneVars, job, delete, flush, readVars>>

Job == [step : {"idle", "activate", "commit", "flush", "mark"}, by : Artifacts \cup {None}, row : Nat,
        now : 0..MaxClock, found : Rows]
Load == [step : {"idle", "log", "bytes", "put", "served"}, model : Rows, cached : BOOLEAN, since : Nat]
Entry == [model : Rows, at : 0..MaxClock, there : BOOLEAN]

Attempt == {"none", "attempted", "off", "interrupted"}

NoJob == [step |-> "idle", by |-> None, row |-> 0, now |-> 0, found |-> NoModel]
NoLoad == [step |-> "idle", model |-> NoModel, cached |-> FALSE, since |-> 0]
NoEntry == [model |-> NoModel, at |-> 0, there |-> FALSE]

Init ==
  /\ clock = 0
  /\ \E s \in Starts :
       /\ reg = s.reg /\ preds = s.preds /\ left = s.left
       /\ live = s.live /\ saved = s.saved /\ log = s.log /\ auto = s.auto
  /\ paused = FALSE
  /\ job = NoJob /\ delete = "idle" /\ flush = {}
  /\ cache = NoEntry /\ load = NoLoad
  /\ attempt = [a \in Artifacts |-> IF reg[a].status = "PROVEN" THEN "attempted" ELSE "none"]
  /\ past = {}

-----------------------------------------------------------------------------
(* Registration, predictions and their evaluation.                         *)

Register(a) ==
  /\ reg[a].status = "none"
  /\ reg' = [reg EXCEPT ![a] = [status |-> "COLLECTING", at |-> clock]]
  /\ UNCHANGED <<clock, left, preds, attempt, auto, laneVars, job, delete, flush, readVars>>

\* Mutant: whatever the artifact issues counts.
InWindow_Any(a) == TRUE

\* Issued after the registration and by its deadline, before it closed.
InWindow(a) == reg[a].status = "COLLECTING" /\ clock <= reg[a].at + MaxDays

\* run_research_cycle scores every active artifact, registered or not.
Issue(a) ==
  /\ left.issues[a] > 0 /\ left' = [left EXCEPT !.issues[a] = @ - 1]
  /\ preds' = [preds EXCEPT ![a] =
                Append(@, [counts |-> InWindow(a), outcome |-> "open", row |-> "none", tries |-> 0])]
  /\ UNCHANGED <<clock, reg, attempt, auto, laneVars, job, delete, flush, readVars>>

\* The resolver's outcome and the outbox row, in one transaction; EXPIRED is no win
\* either and stands with LOSS.
Resolve(a, i, outcome) ==
  /\ preds[a][i].outcome = "open"
  /\ preds' = [preds EXCEPT ![a][i].outcome = outcome, ![a][i].row = "PENDING"]
  /\ UNCHANGED <<clock, left, reg, attempt, auto, laneVars, job, delete, flush, readVars>>

\* Mutant: an unresolved prediction is passed over.
Reached_Resolved(p) == {i \in Counted(p) : p[i].outcome # "open"}

\* In the order of issuance, up to the first that is unresolved.
Reached(p) == {i \in Counted(p) : \A j \in Counted(p) : j <= i => p[j].outcome # "open"}

\* The gate on the rate of invalid predictions up to the end of the sample; the other
\* secondary gates are statistics of the same frozen sample.
GatesPass(p) ==
  LET sample  == FirstOf(p, Reached(p))
      invalid == {i \in Reached(p) : /\ p[i].outcome = "INVALID"
                                     /\ Cardinality({j \in sample : j < i}) < SampleSize}
  IN  Cardinality(invalid) * InvalidShare <= Cardinality(sample) + Cardinality(invalid)

\* What the resolved predictions say of the registration.
Status(a) ==
  LET sample == FirstOf(preds[a], Reached(preds[a]))
      n      == Cardinality(sample)
      wins   == Wins(preds[a], sample)
      passes == wins >= MinWins /\ GatesPass(preds[a])
  IN  IF n = SampleSize THEN IF passes THEN "PROVEN" ELSE "FALSIFIED"
      ELSE IF wins + SampleSize - n < MinWins THEN "FUTILE"
      ELSE IF clock > reg[a].at + MaxDays THEN "INCOMPLETE" ELSE "COLLECTING"

-----------------------------------------------------------------------------
(* The lane.                                                               *)

Fault == left.faults > 0 /\ left' = [left EXCEPT !.faults = @ - 1]
Last == LastOf(log)
Logs(event, a, at) == log' = Append(log, [event |-> event, by |-> a, at |-> at])

\* The writers wait for the one that holds the model lock.
LaneFree == job.step # "commit"

\* Another model takes the rows of the lane.
Becomes(m) ==
  /\ live' = m
  /\ past' = IF live \in {m, NoModel} THEN past
             ELSE {p \in past : p.model # live} \cup {[model |-> live, at |-> clock]}

\* A writer clears the cache of its own process only.
ThenFlushes(w) == flush' = IF w \in Here THEN flush \cup {w} ELSE flush

\* Mutant: a lease once granted is good.
Serveable_Leased(m, now) == m.kind # "none" /\ (m.kind # "activated" => now <= m.at + ModelLife)

\* model_serve_guard, for scoring.
Serveable(m, now) ==
  /\ m.kind # "none"
  /\ IF m.kind = "activated" THEN now < m.at + LeaseWindow ELSE now <= m.at + ModelLife

Used(a) == \E k \in DOMAIN log : log[k].event = "ACTIVATED" /\ log[k].by = a

\* Mutant: the incumbent has to be good today.
Outlasts_Today(m, now) == Serveable(m, now)

\* The incumbent can still be restored when the lease has ended.
Outlasts(m, now) == m.at + ModelLife >= now + LeaseWindow + Reserve

\* Mutant: any serveable incumbent may be displaced.
Displaceable_Serveable(m, now) == Serveable(m, now) /\ Outlasts(m, now)

Displaceable(m, now) == m.kind = "proven" /\ Serveable(m, now) /\ Outlasts(m, now)

\* _store_direction_model.  A research model fills a slot that serves nothing; a proven
\* one supersedes the activation and its predecessor.
Train(kind) ==
  /\ LaneFree /\ "train" \notin flush
  /\ left.models > 0 /\ left' = [left EXCEPT !.models = @ - 1]
  /\ \/ kind = "proven"
     \/ live.kind \in {"none", "research"} \/ ~Serveable(live, clock)
  /\ Becomes([kind |-> kind, by |-> None, at |-> clock])
  /\ IF kind = "proven" /\ Last.event = "ACTIVATED"
     THEN Logs("SUPERSEDED", Last.by, clock) /\ saved' = NoModel
     ELSE UNCHANGED <<log, saved>>
  /\ ThenFlushes("train")
  /\ UNCHANGED <<clock, proofVars, paused, job, delete, readVars>>

\* delete_model and _purge_v3_stale_or_weak: no lock, and the row that is deleted may be
\* another than the one that was looked at.
LookToDelete ==
  /\ delete = "idle" /\ "delete" \notin flush
  /\ live # NoModel
  /\ left.models > 0 /\ left' = [left EXCEPT !.models = @ - 1]
  /\ delete' = "delete"
  /\ UNCHANGED <<clock, proofVars, laneVars, job, flush, readVars>>

Delete ==
  /\ delete = "delete"
  /\ Becomes(NoModel)
  /\ delete' = "idle"
  /\ ThenFlushes("delete")
  /\ UNCHANGED <<clock, left, proofVars, saved, log, paused, job, readVars>>

-----------------------------------------------------------------------------
(* _research_outbox_job.                                                   *)

Goes(step) == job' = [job EXCEPT !.step = step]
Marks(a, i, row) == preds' = [preds EXCEPT ![a][i].row = row]

\* What comes of the proof of a, unless something came of it before.
Notes(a, what) == attempt' = [attempt EXCEPT ![a] = IF @ = "none" THEN what ELSE @]
Interrupted == IF job.step = "activate" THEN Notes(job.by, "interrupted") ELSE UNCHANGED attempt

\* The evaluation closes the registration: later rows look at open registrations only.
Proves(a) == reg[a].status = "COLLECTING" /\ Status(a) = "PROVEN"

\* Mutant: only what was proven before is activated.
Activates_Before(a) == auto /\ reg[a].status = "PROVEN"

\* Mutant: later rows look at closed registrations too.
Activates_Again(a) == auto /\ Status(a) = "PROVEN"

\* The evaluation that proves is the one that activates, if activations are turned on.
Activates(a) == auto /\ Proves(a)

\* A row of the outbox, and update_forward_proof_status of its registration.
Evaluate(a, i) ==
  /\ job.step = "idle"
  /\ preds[a][i].row = "PENDING"
  /\ reg' = IF reg[a].status = "COLLECTING" THEN [reg EXCEPT ![a].status = Status(a)] ELSE reg
  /\ job' = [NoJob EXCEPT !.step = IF Activates(a) THEN "activate" ELSE "mark", !.by = a, !.row = i]
  /\ IF Proves(a) /\ ~auto THEN Notes(a, "off") ELSE UNCHANGED attempt
  /\ UNCHANGED <<clock, left, preds, auto, laneVars, delete, flush, readVars>>

\* The proof is persisted and stands, and its lease has not been used.
Eligible(a) == reg[a].status = "PROVEN" /\ Status(a) = "PROVEN" /\ ~Used(a)

\* _activate_impl, under the lock, looks at the incumbent.
StartActivation ==
  /\ job.step = "activate"
  /\ Notes(job.by, "attempted")
  /\ IF Eligible(job.by) /\ Displaceable(live, clock)
     THEN job' = [job EXCEPT !.step = "commit", !.now = clock, !.found = live]
     ELSE Goes("mark")
  /\ UNCHANGED <<clock, left, reg, preds, auto, laneVars, delete, flush, readVars>>

\* It writes the predecessor, the model and the log, and commits.
CommitActivation ==
  /\ job.step = "commit"
  /\ saved' = job.found
  /\ Becomes([kind |-> "activated", by |-> job.by, at |-> job.now])
  /\ Logs("ACTIVATED", job.by, job.now)
  /\ ThenFlushes("job")
  /\ Goes(IF "job" \in flush' THEN "flush" ELSE "mark")
  /\ UNCHANGED <<clock, left, proofVars, paused, delete, readVars>>

\* What it would write is not serveable, after the predecessor has been replaced.
RefuseActivation ==
  /\ job.step = "commit"
  /\ saved' = job.found
  /\ Goes("mark")
  /\ UNCHANGED <<clock, left, proofVars, live, log, paused, past, delete, flush, readVars>>

Mark ==
  /\ job.step = "mark"
  /\ Marks(job.by, job.row, "PROCESSED")
  /\ job' = NoJob
  /\ UNCHANGED <<clock, left, reg, attempt, auto, laneVars, delete, flush, readVars>>

\* Whatever raises, its transaction is rolled back, and the row is tried again.
JobRaises ==
  /\ Fault
  /\ job.step \in {"activate", "commit", "mark"}
  /\ LET tries == preds[job.by][job.row].tries + 1
     IN  preds' = [preds EXCEPT ![job.by][job.row].tries = tries,
                                ![job.by][job.row].row = IF tries >= MaxTries THEN "DEAD" ELSE "PENDING"]
  /\ job' = NoJob /\ Interrupted
  /\ UNCHANGED <<clock, reg, auto, laneVars, delete, flush, readVars>>

-----------------------------------------------------------------------------
(* review_active_leases.                                                   *)

Restorable(now) == saved # NoModel /\ Serveable(saved, now)

\* The lane holds what the log says was activated.
Intact == live = [kind |-> "activated", by |-> Last.by, at |-> Last.at]
LeaseOver(now) == now >= Last.at + LeaseWindow

\* One transaction under the model lock; degraded is what the outcomes since the activation
\* say.  Without a predecessor that can serve, the engine is paused, and stays so.
Review(degraded) ==
  /\ LaneFree /\ "review" \notin flush
  /\ Last.event = "ACTIVATED"
  /\ degraded \/ ~Intact \/ LeaseOver(clock)
  /\ IF Restorable(clock)
     THEN /\ Becomes(saved) /\ Logs("ROLLED_BACK", Last.by, clock)
          /\ ThenFlushes("review")
          /\ UNCHANGED paused
     ELSE paused' = TRUE /\ UNCHANGED <<live, past, log, flush>>
  /\ UNCHANGED <<clock, left, proofVars, saved, job, delete, readVars>>

\* invalidate_model_cache in the process of the writer, after its commit.
Flush(w) ==
  /\ w \in flush
  /\ cache' = NoEntry /\ flush' = flush \ {w}
  /\ IF w = "job" THEN Goes("mark") ELSE UNCHANGED job
  /\ UNCHANGED <<clock, left, proofVars, laneVars, delete, load>>

-----------------------------------------------------------------------------
(* load_model.                                                             *)

\* Mutant: the latest event is an activation, of whatever artifact.
LogMatches_Any(m) == m.kind = "activated" => Last.event = "ACTIVATED"

\* _persisted_activation_matches
LogMatches(m) == m.kind = "activated" => Last = [event |-> "ACTIVATED", by |-> m.by, at |-> m.at]

\* Mutant: an entry never ages.
Hit_Always == cache.there

Hit == cache.there /\ clock - cache.at < TTL

Loads(step, m, cached) ==
  load' = [step |-> step, model |-> m, cached |-> cached, since |-> Len(log)]

\* The cached entry or the meta row, and the guard on it; that nothing can be served is
\* cached too.
LookUp ==
  /\ load.step = "idle"
  /\ left.loads > 0 /\ left' = [left EXCEPT !.loads = @ - 1]
  /\ IF Hit THEN Serveable(cache.model, clock) /\ Loads("log", cache.model, TRUE)
     ELSE IF Serveable(live, clock) THEN Loads("log", live, FALSE)
     ELSE Loads("put", NoModel, FALSE)
  /\ UNCHANGED <<clock, proofVars, laneVars, job, delete, flush, cache>>

Reads(step, m) == load' = [load EXCEPT !.step = step, !.model = m]

CheckLog ==
  /\ load.step = "log"
  /\ IF LogMatches(load.model)
     THEN Reads(IF load.cached THEN "served" ELSE "bytes", load.model)
     ELSE IF load.cached THEN load' = NoLoad ELSE Reads("put", NoModel)
  /\ UNCHANGED <<clock, left, proofVars, laneVars, job, delete, flush, cache>>

\* The bytes must have the digest that the meta row names.
ReadBytes ==
  /\ load.step = "bytes"
  /\ Reads("put", IF live = load.model THEN load.model ELSE NoModel)
  /\ UNCHANGED <<clock, left, proofVars, laneVars, job, delete, flush, cache>>

Put ==
  /\ load.step = "put"
  /\ cache' = [model |-> load.model, at |-> clock, there |-> TRUE]
  /\ IF load.model = NoModel THEN load' = NoLoad ELSE Reads("served", load.model)
  /\ UNCHANGED <<clock, left, proofVars, laneVars, job, delete, flush>>

Served ==
  /\ load.step = "served"
  /\ load' = NoLoad
  /\ UNCHANGED <<clock, left, proofVars, laneVars, job, delete, flush, cache>>

LoadStep == LookUp \/ CheckLog \/ ReadBytes \/ Put \/ Served

-----------------------------------------------------------------------------
(* Time, and processes that are killed.                                    *)

\* A load is over within one unit of the clock.
Tick ==
  /\ clock < MaxClock /\ load.step = "idle"
  /\ clock' = clock + 1
  /\ UNCHANGED <<left, proofVars, laneVars, job, delete, flush, readVars>>

\* The process that follows reads the switch anew.
JobDies == job' = NoJob /\ Interrupted /\ auto' \in BOOLEAN

\* The process that loads is killed, and with it what else ran there, or another one is.
Killed ==
  /\ Fault
  /\ \/ /\ cache' = NoEntry /\ load' = NoLoad /\ flush' = {}
        /\ IF "job" \in Here THEN JobDies ELSE UNCHANGED <<job, attempt, auto>>
        /\ delete' = IF "delete" \in Here THEN "idle" ELSE delete
     \/ "job" \notin Here /\ JobDies /\ UNCHANGED <<readVars, flush, delete>>
  /\ UNCHANGED <<clock, reg, preds, laneVars>>

OutboxStep ==
  \/ \E a \in Artifacts : \E i \in DOMAIN preds[a] : Evaluate(a, i)
  \/ StartActivation \/ CommitActivation \/ RefuseActivation \/ Mark \/ Flush("job")

Next ==
  \/ Tick \/ Killed \/ JobRaises
  \/ \E a \in Artifacts :
       \/ Register(a) \/ Issue(a)
       \/ \E i \in DOMAIN preds[a], outcome \in {"WIN", "LOSS", "INVALID"} : Resolve(a, i, outcome)
  \/ \E kind \in {"proven", "research"} : Train(kind)
  \/ LookToDelete \/ Delete
  \/ OutboxStep
  \/ \E degraded \in BOOLEAN : Review(degraded)
  \/ \E w \in Writers : Flush(w)
  \/ LoadStep

Spec == Init /\ [][Next]_vars

\* Time passes, the scheduler runs both jobs, and calls come back.  Nothing is assumed of
\* trainers, deletions and outcomes.
FairSpec ==
  /\ Spec
  /\ WF_vars(Tick) /\ WF_vars(OutboxStep) /\ WF_vars(Review(FALSE)) /\ WF_vars(LoadStep)
  /\ \A w \in Writers : WF_vars(Flush(w))

-----------------------------------------------------------------------------
(* Properties.                                                             *)

TypeOK ==
  /\ clock \in 0..MaxClock /\ left \in Budget
  /\ reg \in [Artifacts -> Registration]
  /\ preds \in [Artifacts -> Seq(Prediction)]
  /\ live \in Rows /\ saved \in Rows
  /\ log \in Seq(Event) /\ paused \in BOOLEAN
  /\ job \in Job /\ delete \in {"idle", "delete"} /\ flush \subseteq Writers
  /\ cache \in Entry /\ load \in Load
  /\ auto \in BOOLEAN /\ attempt \in [Artifacts -> Attempt]
  /\ past \subseteq [model : Models, at : 0..MaxClock]

\* Whatever the caches hold and however retrains, activations, rollbacks and kills fall
\* between the statements of a load: the activation that a process serves was the lane's
\* current one, its lease not over, at some moment of that load.
CurrentIsServed ==
  load.step = "served" /\ load.model.kind = "activated" =>
    /\ clock < load.model.at + LeaseWindow
    /\ \E k \in DOMAIN log :
         /\ k >= load.since
         /\ log[k] = [event |-> "ACTIVATED", by |-> load.model.by, at |-> load.model.at]

\* A model that other processes have replaced, or deleted, is not served for longer than
\* the life of a cache entry.
StaleWithinTTL ==
  load.step = "served" /\ load.model # live =>
    \E p \in past : p.model = load.model /\ clock <= p.at + TTL

ServedHolds == CurrentIsServed /\ StaleWithinTTL

\* While an activation is the latest event of the lane, and for the reserve after its lease,
\* there is a model to return to that may serve.
PredecessorKept ==
  Last.event = "ACTIVATED" =>
    /\ saved.kind = "proven"
    /\ clock <= Last.at + LeaseWindow + Reserve => Serveable(saved, clock)

\* Each artifact has one activation.
OneActivation ==
  \A j, k \in DOMAIN log :
    log[j].event = "ACTIVATED" /\ log[k].event = "ACTIVATED" /\ log[j].by = log[k].by => j = k

\* An activated model is in the lane only while the log says so.
LiveIsLogged == live.kind = "activated" => LogMatches(live)

\* Whatever retrains, deletions, refusals and reviews come between, the model rows, the
\* predecessor and the log of a lane tell one story.
LaneHolds == TypeOK /\ PredecessorKept /\ OneActivation /\ LiveIsLogged

\* In whatever order outcomes arrive, an artifact is proven by the first SampleSize valid
\* predictions it issued after its registration, all of them.  A proof is passed over only by
\* a job that found it with activations turned off, or died or failed before it came to activate; and
\* what was passed over is never activated, whatever rows follow and however the switch is
\* turned: only an artifact whose activation was attempted by the job that proved it serves.
ProofHolds ==
  \A a \in Artifacts :
    /\ reg[a].status = "PROVEN" =>
         /\ ProvenBy(preds[a])
         /\ attempt[a] # "none" \/ (job.step = "activate" /\ job.by = a)
    /\ Used(a) => reg[a].status = "PROVEN" /\ attempt[a] = "attempted"

\* The lease of an activation comes to an end: its predecessor is back, another model has
\* superseded it, or the engine is paused.
LeaseEnds ==
  \A a \in Artifacts :
    (Last.event = "ACTIVATED" /\ Last.by = a /\ LeaseOver(clock)) ~> (Last.event # "ACTIVATED" \/ paused)

\* A registration whose outcomes decide it is closed, even though only the outbox rows
\* of those outcomes cause an evaluation, unless such a row is dead.
Decided(a) == reg[a].status = "COLLECTING" /\ Status(a) \notin {"COLLECTING", "INCOMPLETE"}
SampleSettles ==
  \A a \in Artifacts :
    Decided(a) ~> (reg[a].status \in Closed \/ \E i \in DOMAIN preds[a] : preds[a][i].row = "DEAD")

LaneSettles == LeaseEnds /\ SampleSettles
=============================================================================
