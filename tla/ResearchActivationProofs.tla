---------------------- MODULE ResearchActivationProofs ----------------------
(***************************************************************************)
(* Theorems about ResearchActivation, for any artifacts, sizes of samples, *)
(* windows and processes, and every bound on what interferes.              *)
(***************************************************************************)
EXTENDS ResearchActivation, FiniteSetTheorems, TLAPS

\* The row that the outbox job works on stays as it found it.
JobAtWork ==
  job.step # "idle" =>
    /\ job.by \in Artifacts /\ job.row \in DOMAIN preds[job.by]
    /\ preds[job.by][job.row].row = "PENDING"

\* What an activation has found under the lock stands until it commits.
Committing ==
  job.step = "commit" =>
    /\ Last.event # "ACTIVATED" /\ ~Used(job.by)
    /\ job.found.kind = "proven" /\ Outlasts(job.found, job.now)

\* The job is where it clears the cache of its process, if it has to.
Flushing == "job" \in flush => job.step = "flush" /\ "job" \in Here

LaneInv == TypeOK /\ JobAtWork /\ Flushing /\ Committing /\ OneStory(live, saved, log)

-----------------------------------------------------------------------------
(* Types.                                                                  *)

LEMMA RowTypes ==
  /\ NoModel \in Rows
  /\ \A kind \in {"proven", "research"}, t \in 0..MaxClock : [kind |-> kind, by |-> None, at |-> t] \in Rows
  /\ \A a \in Artifacts, t \in 0..MaxClock : [kind |-> "activated", by |-> a, at |-> t] \in Rows
  /\ \A m \in Rows : /\ m.at \in 0..MaxClock /\ m.by \in Artifacts \cup {None}
                     /\ m.kind \in {"none", "proven", "research", "activated"}
                     /\ m # NoModel => m \in Models
                     /\ m.kind = "activated" => m.by \in Artifacts
                     /\ m.kind = "none" <=> m = NoModel
<1>1. 0 \in 0..MaxClock
  BY ActivationAssumption
<1> QED
  BY <1>1 DEF Rows, Models, NoModel

\* Whatever takes the rows, the history stays one of models and times.
LEMMA BecomesTyped ==
  ASSUME TypeOK, NEW m \in Rows, Becomes(m)
  PROVE  /\ live' = m /\ live' \in Rows
         /\ past' \subseteq [model : Models, at : 0..MaxClock]
<1>1. live \in {m, NoModel} \/ live \in Models
  BY RowTypes DEF TypeOK
<1>2. ASSUME live \notin {m, NoModel}
      PROVE  past' \subseteq [model : Models, at : 0..MaxClock]
  <2>1. [model |-> live, at |-> clock] \in [model : Models, at : 0..MaxClock]
    BY <1>1, <1>2 DEF TypeOK
  <2> QED
    BY <1>2, <2>1 DEF Becomes, TypeOK
<1> QED
  BY <1>2 DEF Becomes, TypeOK

LEMMA LogsTyped ==
  ASSUME TypeOK, NEW e \in {"ACTIVATED", "SUPERSEDED", "ROLLED_BACK"}, NEW a \in Artifacts,
         NEW t \in 0..MaxClock, Logs(e, a, t)
  PROVE  log' \in Seq(Event)
BY DEF TypeOK, Logs, Event

LEMMA LastTyped ==
  ASSUME TypeOK
  PROVE  log # << >> => Last \in Event /\ Len(log) \in DOMAIN log /\ Last = log[Len(log)]
BY DEF TypeOK, Last, LastOf

LEMMA LastActivated ==
  ASSUME TypeOK, Last.event = "ACTIVATED"
  PROVE  log # << >> /\ Last.by \in Artifacts /\ Last.at \in 0..MaxClock
BY LastTyped DEF Last, LastOf, Event

\* A bound is used up by one.
LEMMA BoundsTyped ==
  ASSUME TypeOK
  PROVE  /\ left.models > 0 => [left EXCEPT !.models = @ - 1] \in Budget
         /\ left.loads > 0 => [left EXCEPT !.loads = @ - 1] \in Budget
         /\ left.faults > 0 => [left EXCEPT !.faults = @ - 1] \in Budget
         /\ \A a \in Artifacts : left.issues[a] > 0 => [left EXCEPT !.issues[a] = @ - 1] \in Budget
<1>1. /\ left = [issues |-> left.issues, models |-> left.models, loads |-> left.loads,
                faults |-> left.faults]
      /\ left.models \in Nat /\ left.loads \in Nat /\ left.faults \in Nat
      /\ left.issues \in [Artifacts -> Nat]
  BY DEF TypeOK, Budget
<1>2. \A n \in Nat : n > 0 => n - 1 \in Nat
  OBVIOUS
<1>3. ASSUME NEW a \in Artifacts, left.issues[a] > 0
      PROVE  [left EXCEPT !.issues[a] = @ - 1] \in Budget
  <2>1. left.issues[a] - 1 \in Nat
    BY <1>1, <1>2, <1>3
  <2>2. [left.issues EXCEPT ![a] = left.issues[a] - 1] \in [Artifacts -> Nat]
    BY <1>1, <2>1
  <2> QED
    BY <1>1, <2>2 DEF Budget
<1> QED
  BY <1>1, <1>2, <1>3 DEF Budget

\* One prediction is changed to another one.
LEMMA PredsTyped ==
  ASSUME TypeOK, NEW a \in Artifacts, NEW i \in DOMAIN preds[a], NEW p \in Prediction
  PROVE  [preds EXCEPT ![a][i] = p] \in [Artifacts -> Seq(Prediction)]
<1>1. preds[a] \in Seq(Prediction)
  BY DEF TypeOK
<1>2. [preds[a] EXCEPT ![i] = p] \in Seq(Prediction)
  BY <1>1
<1> QED
  BY <1>2 DEF TypeOK

-----------------------------------------------------------------------------
(* Samples.                                                                *)

LEMMA CountedIsFinite ==
  ASSUME NEW p \in Seq(Prediction)
  PROVE  /\ Counted(p) \subseteq DOMAIN p /\ DOMAIN p \subseteq Nat
         /\ IsFiniteSet(Counted(p)) /\ Reached(p) \subseteq Counted(p) /\ IsFiniteSet(Reached(p))
<1>1. DOMAIN p = 1..Len(p) /\ Len(p) \in Nat
  OBVIOUS
<1>2. IsFiniteSet(DOMAIN p)
  BY <1>1, FS_Interval
<1>3. Counted(p) \subseteq DOMAIN p /\ Reached(p) \subseteq Counted(p)
  BY DEF Counted, Reached
<1> QED
  BY <1>1, <1>2, <1>3, FS_Subset

\* What is noted of a proof is noted once.
LEMMA NotesTyped ==
  ASSUME TypeOK, NEW a \in Artifacts, NEW what \in Attempt, Notes(a, what)
  PROVE  /\ attempt' \in [Artifacts -> Attempt]
         /\ \A b \in Artifacts : attempt'[b] = IF b = a /\ attempt[a] = "none" THEN what ELSE attempt[b]
BY DEF TypeOK, Notes

LEMMA InterruptedTyped ==
  ASSUME TypeOK, JobAtWork, Interrupted
  PROVE  attempt' \in [Artifacts -> Attempt]
<1>1. CASE job.step = "activate"
  BY <1>1, NotesTyped DEF Interrupted, JobAtWork, Attempt
<1>2. CASE job.step # "activate"
  BY <1>2 DEF Interrupted, TypeOK
<1> QED
  BY <1>1, <1>2

\* The result of an evaluation is a status.
LEMMA StatusTyped ==
  ASSUME TypeOK, NEW a \in Artifacts
  PROVE  Status(a) \in {"COLLECTING"} \cup Closed
BY DEF Status, Closed

-----------------------------------------------------------------------------
(* Types are kept.                                                         *)

\* Registration and outcomes (register_forward_experiment, run_research_cycle,
\* resolve_research_prediction).
LEMMA ProofStepsTyped ==
  ASSUME TypeOK, JobAtWork, NEW a \in Artifacts,
         \/ Register(a) \/ Issue(a)
         \/ \E i \in DOMAIN preds[a], o \in {"WIN", "LOSS", "INVALID"} : Resolve(a, i, o)
  PROVE  TypeOK' /\ JobAtWork'
<1>1. CASE Register(a)
  <2>1. reg' \in [Artifacts -> Registration]
    BY <1>1 DEF Register, TypeOK, Registration
  <2> QED
    BY <1>1, <2>1 DEF Register, TypeOK, JobAtWork, laneVars, readVars
<1>2. CASE Issue(a)
  <2> DEFINE p == [counts |-> InWindow(a), outcome |-> "open", row |-> "none", tries |-> 0]
  <2>1. p \in Prediction
    BY ActivationAssumption DEF Prediction, InWindow
  <2>2. preds[a] \in Seq(Prediction) /\ preds' = [preds EXCEPT ![a] = Append(preds[a], p)]
    BY <1>2 DEF Issue, TypeOK
  <2> HIDE DEF p
  <2>3. preds' \in [Artifacts -> Seq(Prediction)]
    BY <2>1, <2>2 DEF TypeOK
  <2>4. left' \in Budget
    BY <1>2, BoundsTyped DEF Issue
  <2>5. \A i \in DOMAIN preds[a] : i \in DOMAIN preds'[a] /\ preds'[a][i] = preds[a][i]
    BY <2>1, <2>2 DEF TypeOK
  <2>6. \A b \in Artifacts : b # a => preds'[b] = preds[b]
    BY <2>2 DEF TypeOK
  <2>7. JobAtWork'
    BY <1>2, <2>5, <2>6 DEF Issue, JobAtWork
  <2> QED
    BY <1>2, <2>3, <2>4, <2>7 DEF Issue, TypeOK, laneVars, readVars
<1>3. ASSUME NEW i \in DOMAIN preds[a], NEW o \in {"WIN", "LOSS", "INVALID"}, Resolve(a, i, o)
      PROVE  TypeOK' /\ JobAtWork'
  <2> DEFINE p == [preds[a][i] EXCEPT !.outcome = o, !.row = "PENDING"]
  <2>1. preds[a] \in Seq(Prediction) /\ preds[a][i] \in Prediction
    BY DEF TypeOK
  <2>2. p \in Prediction
    BY <1>3, <2>1 DEF Prediction, Resolve
  <2>3. preds' = [preds EXCEPT ![a][i] = p]
    BY <1>3, <2>1 DEF Resolve, TypeOK, Prediction
  <2>4. preds' \in [Artifacts -> Seq(Prediction)]
    BY <2>2, <2>3, PredsTyped
  <2>5. preds[a][i].row = "none"
    BY <1>3, <2>1 DEF Resolve, Prediction
  <2>6. JobAtWork'
    BY <1>3, <2>1, <2>3, <2>5 DEF Resolve, JobAtWork, TypeOK
  <2> QED
    BY <1>3, <2>4, <2>6 DEF Resolve, TypeOK, laneVars, readVars
<1> QED
  BY <1>1, <1>2, <1>3

\* Retrains and deletions (_store_direction_model, delete_model).
LEMMA ModelStepsTyped ==
  ASSUME TypeOK, JobAtWork,
         \/ \E kind \in {"proven", "research"} : Train(kind)
         \/ LookToDelete \/ Delete
  PROVE  TypeOK' /\ JobAtWork'
<1>1. ASSUME NEW kind \in {"proven", "research"}, Train(kind) PROVE TypeOK' /\ JobAtWork'
  <2> DEFINE m == [kind |-> kind, by |-> None, at |-> clock]
  <2>1. m \in Rows
    BY RowTypes DEF TypeOK
  <2>2. live' \in Rows /\ past' \subseteq [model : Models, at : 0..MaxClock]
    <3> HIDE DEF m
    <3> QED
      BY <1>1, <2>1, BecomesTyped DEF Train, m
  <2>3. log' \in Seq(Event) /\ saved' \in Rows
    <3>1. CASE kind = "proven" /\ Last.event = "ACTIVATED"
      BY <1>1, <3>1, LastActivated, LogsTyped, RowTypes DEF Train, TypeOK
    <3>2. CASE ~(kind = "proven" /\ Last.event = "ACTIVATED")
      BY <1>1, <3>2 DEF Train, TypeOK
    <3> QED
      BY <3>1, <3>2
  <2>4. left' \in Budget /\ flush' \subseteq Writers
    <3>1. left' \in Budget
      BY <1>1, BoundsTyped DEF Train
    <3> QED
      BY <1>1, <3>1 DEF Train, TypeOK, ThenFlushes, Writers
  <2> QED
    BY <1>1, <2>2, <2>3, <2>4 DEF Train, TypeOK, JobAtWork, proofVars, readVars
<1>2. CASE LookToDelete
  <2>1. left' \in Budget
    BY <1>2, BoundsTyped DEF LookToDelete
  <2> QED
    BY <1>2, <2>1 DEF LookToDelete, TypeOK, JobAtWork, proofVars, laneVars, readVars
<1>3. CASE Delete
  <2>1. live' \in Rows /\ past' \subseteq [model : Models, at : 0..MaxClock]
    BY <1>3, RowTypes, BecomesTyped DEF Delete
  <2>2. flush' \subseteq Writers
    BY <1>3 DEF Delete, TypeOK, ThenFlushes, Writers
  <2> QED
    BY <1>3, <2>1, <2>2 DEF Delete, TypeOK, JobAtWork, proofVars, readVars
<1> QED
  BY <1>1, <1>2, <1>3

\* A row that the job has done with, or puts back.
LEMMA MarksTyped ==
  ASSUME TypeOK, JobAtWork, job.step # "idle",
         NEW row \in {"PENDING", "PROCESSED", "DEAD"}, NEW tries \in 0..MaxTries,
         row = "PENDING" => tries < MaxTries
  PROVE  [preds EXCEPT ![job.by][job.row].tries = tries, ![job.by][job.row].row = row]
           \in [Artifacts -> Seq(Prediction)]
<1> DEFINE a == job.by
           i == job.row
           p == [preds[a][i] EXCEPT !.tries = tries, !.row = row]
<1>1. a \in Artifacts /\ i \in DOMAIN preds[a] /\ preds[a] \in Seq(Prediction)
  BY DEF JobAtWork, TypeOK
<1>2. preds[a][i] \in Prediction /\ preds[a][i].row = "PENDING"
  BY <1>1 DEF JobAtWork
<1>3. p \in Prediction
  BY <1>2 DEF Prediction
<1>4. [preds EXCEPT ![a][i].tries = tries, ![a][i].row = row] = [preds EXCEPT ![a][i] = p]
  BY <1>1 DEF TypeOK
<1> HIDE DEF a, i, p
<1>5. [preds EXCEPT ![a][i] = p] \in [Artifacts -> Seq(Prediction)]
  BY <1>1, <1>3, PredsTyped
<1> QED
  BY <1>4, <1>5 DEF a, i

\* The outbox job (_research_outbox_job, activate_artifact, mark_outbox_processed).
LEMMA JobStepsTyped ==
  ASSUME TypeOK, JobAtWork,
         \/ \E a \in Artifacts : \E i \in DOMAIN preds[a] : Evaluate(a, i)
         \/ StartActivation \/ CommitActivation \/ RefuseActivation \/ Mark \/ JobRaises
  PROVE  TypeOK' /\ JobAtWork'
<1>0. NoJob \in Job /\ NoJob.step = "idle"
  BY RowTypes, ActivationAssumption DEF NoJob, Job
<1>1. ASSUME NEW a \in Artifacts, NEW i \in DOMAIN preds[a], Evaluate(a, i)
      PROVE  TypeOK' /\ JobAtWork'
  <2>1. reg' \in [Artifacts -> Registration]
    BY <1>1, StatusTyped DEF Evaluate, TypeOK, Registration
  <2>2. i \in Nat
    BY DEF TypeOK
  <2>3. job' \in Job /\ job'.by = a /\ job'.row = i
    BY <1>0, <1>1, <2>2 DEF Evaluate, Job, NoJob
  <2>4. JobAtWork'
    BY <1>1, <2>3 DEF Evaluate, JobAtWork
  <2>5. attempt' \in [Artifacts -> Attempt]
    BY <1>1, NotesTyped DEF Evaluate, TypeOK, Attempt
  <2> QED
    BY <1>1, <2>1, <2>3, <2>4, <2>5 DEF Evaluate, TypeOK, laneVars, readVars
<1>2. CASE StartActivation
  <2>1. job.by \in Artifacts
    BY <1>2 DEF StartActivation, JobAtWork
  <2>2. job' \in Job /\ job'.by = job.by /\ job'.row = job.row
    BY <1>2 DEF StartActivation, TypeOK, Job, Goes
  <2>3. JobAtWork'
    BY <1>2, <2>2 DEF StartActivation, JobAtWork
  <2>4. attempt' \in [Artifacts -> Attempt]
    BY <1>2, <2>1, NotesTyped DEF StartActivation, Attempt
  <2> QED
    BY <1>2, <2>2, <2>3, <2>4 DEF StartActivation, TypeOK, laneVars, readVars
<1>3. CASE CommitActivation
  <2> DEFINE m == [kind |-> "activated", by |-> job.by, at |-> job.now]
  <2>1. job.by \in Artifacts /\ job.now \in 0..MaxClock /\ job.found \in Rows
    BY <1>3 DEF CommitActivation, JobAtWork, TypeOK, Job
  <2>2. m \in Rows
    BY <2>1, RowTypes
  <2>3. live' \in Rows /\ past' \subseteq [model : Models, at : 0..MaxClock]
    <3> HIDE DEF m
    <3> QED
      BY <1>3, <2>2, BecomesTyped DEF CommitActivation, m
  <2>4. log' \in Seq(Event)
    BY <1>3, <2>1, LogsTyped DEF CommitActivation
  <2>5. job' \in Job /\ job'.by = job.by /\ job'.row = job.row
    BY <1>3 DEF CommitActivation, TypeOK, Job, Goes
  <2>6. JobAtWork'
    BY <1>3, <2>5 DEF CommitActivation, JobAtWork, proofVars
  <2>7. flush' \subseteq Writers
    BY <1>3 DEF CommitActivation, TypeOK, ThenFlushes, Writers
  <2> QED
    BY <1>3, <2>1, <2>3, <2>4, <2>5, <2>6, <2>7 DEF CommitActivation, TypeOK, proofVars, readVars
<1>4. CASE RefuseActivation
  <2>1. job' \in Job /\ job'.by = job.by /\ job'.row = job.row /\ job.found \in Rows
    BY <1>4 DEF RefuseActivation, TypeOK, Job, Goes
  <2>2. JobAtWork'
    BY <1>4, <2>1 DEF RefuseActivation, JobAtWork, proofVars
  <2> QED
    BY <1>4, <2>1, <2>2 DEF RefuseActivation, TypeOK, proofVars, readVars
<1>5. CASE Mark
  <2> DEFINE q == preds[job.by][job.row]
  <2>1. q \in Prediction /\ preds[job.by] \in Seq(Prediction) /\ job.by \in Artifacts /\ job.row \in DOMAIN preds[job.by]
    BY <1>5 DEF Mark, JobAtWork, TypeOK
  <2>2. preds' = [preds EXCEPT ![job.by][job.row].tries = q.tries, ![job.by][job.row].row = "PROCESSED"]
    BY <1>5, <2>1 DEF Mark, Marks, TypeOK, Prediction
  <2>3. q.tries \in 0..MaxTries /\ job.step # "idle"
    BY <1>5, <2>1 DEF Prediction, Mark
  <2> HIDE DEF q
  <2>4. preds' \in [Artifacts -> Seq(Prediction)]
    BY <2>2, <2>3, MarksTyped
  <2> QED
    BY <1>0, <1>5, <2>4 DEF Mark, TypeOK, JobAtWork, laneVars, readVars
<1>6. CASE JobRaises
  <2> DEFINE tries == preds[job.by][job.row].tries + 1
             row == IF tries >= MaxTries THEN "DEAD" ELSE "PENDING"
  <2>1. job.step # "idle"
    BY <1>6 DEF JobRaises
  <2>2. preds[job.by][job.row] \in Prediction /\ preds[job.by][job.row].row = "PENDING" /\ job.by \in Artifacts
    BY <2>1 DEF JobAtWork, TypeOK
  <2>3. tries \in 0..MaxTries /\ row \in {"PENDING", "DEAD"} /\ (row = "PENDING" => tries < MaxTries)
    BY <2>2, ActivationAssumption DEF Prediction
  <2>4. preds' = [preds EXCEPT ![job.by][job.row].tries = tries, ![job.by][job.row].row = row]
    BY <1>6 DEF JobRaises
  <2> HIDE DEF tries, row
  <2>5. preds' \in [Artifacts -> Seq(Prediction)]
    BY <2>1, <2>3, <2>4, MarksTyped
  <2>6. left' \in Budget
    BY <1>6, BoundsTyped DEF JobRaises, Fault
  <2>7. attempt' \in [Artifacts -> Attempt]
    BY <1>6, <2>2, InterruptedTyped DEF JobRaises
  <2> QED
    BY <1>0, <1>6, <2>5, <2>6, <2>7 DEF JobRaises, TypeOK, JobAtWork, laneVars, readVars
<1> QED
  BY <1>1, <1>2, <1>3, <1>4, <1>5, <1>6

\* The review of leases (review_active_leases).
LEMMA ReviewTyped ==
  ASSUME TypeOK, JobAtWork, NEW degraded \in BOOLEAN, Review(degraded)
  PROVE  TypeOK' /\ JobAtWork'
<1>1. CASE Restorable(clock)
  <2>1. live' \in Rows /\ past' \subseteq [model : Models, at : 0..MaxClock]
    BY <1>1, BecomesTyped DEF Review, TypeOK
  <2>2. log' \in Seq(Event)
    BY <1>1, LastActivated, LogsTyped DEF Review, TypeOK
  <2>3. flush' \subseteq Writers
    BY <1>1 DEF Review, TypeOK, ThenFlushes, Writers
  <2> QED
    BY <1>1, <2>1, <2>2, <2>3 DEF Review, TypeOK, JobAtWork, proofVars, readVars
<1>2. CASE ~Restorable(clock)
  BY <1>2 DEF Review, TypeOK, JobAtWork, proofVars, readVars
<1> QED
  BY <1>1, <1>2

LEMMA ReadTypes == NoLoad \in Load /\ NoEntry \in Entry /\ NoLoad.step = "idle"
BY RowTypes, ActivationAssumption DEF NoLoad, NoEntry, Load, Entry

\* Caches and loads (invalidate_model_cache, load_model).
LEMMA FlushTyped ==
  ASSUME TypeOK, JobAtWork, Flushing, NEW w \in Writers, Flush(w)
  PROVE  TypeOK' /\ JobAtWork'
<1>1. cache' \in Entry /\ flush' \subseteq Writers
  BY ReadTypes DEF Flush, TypeOK
<1>2. CASE w = "job"
  <2>1. job.step = "flush" /\ job' \in Job /\ job'.by = job.by /\ job'.row = job.row
    BY <1>2 DEF Flush, Flushing, TypeOK, Job, Goes
  <2>2. JobAtWork'
    BY <2>1 DEF Flush, JobAtWork, proofVars
  <2> QED
    BY <1>1, <2>1, <2>2 DEF Flush, TypeOK, proofVars, laneVars
<1>3. CASE w # "job"
  BY <1>1, <1>3 DEF Flush, TypeOK, JobAtWork, proofVars, laneVars
<1> QED
  BY <1>2, <1>3

LEMMA LoadTyped ==
  ASSUME TypeOK, JobAtWork, LoadStep
  PROVE  TypeOK' /\ JobAtWork'
<1>0. /\ load.model \in Rows /\ cache.model \in Rows /\ live \in Rows /\ NoModel \in Rows
      /\ load \in Load /\ clock \in 0..MaxClock /\ Len(log) \in Nat
  BY RowTypes DEF TypeOK, Load, Entry
<1>1. CASE LookUp
  <2>1. left' \in Budget
    BY <1>1, BoundsTyped DEF LookUp
  <2>2. load' \in Load
    <3>1. ASSUME NEW step \in {"log", "put"}, NEW m \in Rows, NEW c \in BOOLEAN
          PROVE  Loads(step, m, c) => load' \in Load
      BY <1>0 DEF Loads, Load
    <3> QED
      BY <1>0, <1>1, <3>1 DEF LookUp
  <2> QED
    BY <1>1, <2>1, <2>2 DEF LookUp, TypeOK, JobAtWork, proofVars, laneVars
<1>2. CASE CheckLog
  <2>1. load' \in Load
    BY <1>0, <1>2, ReadTypes DEF CheckLog, Reads, Load
  <2> QED
    BY <1>2, <2>1 DEF CheckLog, TypeOK, JobAtWork, proofVars, laneVars
<1>3. CASE ReadBytes
  <2>1. load' \in Load
    BY <1>0, <1>3 DEF ReadBytes, Reads, Load
  <2> QED
    BY <1>3, <2>1 DEF ReadBytes, TypeOK, JobAtWork, proofVars, laneVars
<1>4. CASE Put
  <2>1. load' \in Load /\ cache' \in Entry
    BY <1>0, <1>4, ReadTypes DEF Put, Reads, Load, Entry
  <2> QED
    BY <1>4, <2>1 DEF Put, TypeOK, JobAtWork, proofVars, laneVars
<1>5. CASE Served
  BY <1>5, ReadTypes DEF Served, TypeOK, JobAtWork, proofVars, laneVars
<1> QED
  BY <1>1, <1>2, <1>3, <1>4, <1>5 DEF LoadStep

\* Time, and processes that are killed.
LEMMA KilledTyped ==
  ASSUME TypeOK, JobAtWork, Killed
  PROVE  TypeOK' /\ JobAtWork'
<1>1. left' \in Budget
  BY BoundsTyped DEF Killed, Fault
<1>2. NoJob \in Job /\ NoJob.step = "idle"
  BY RowTypes, ActivationAssumption DEF NoJob, Job
<1>3. job' \in {job, NoJob} /\ auto' \in BOOLEAN /\ attempt' \in [Artifacts -> Attempt]
  BY InterruptedTyped DEF Killed, JobDies, TypeOK
<1>4. cache' \in Entry /\ load' \in Load /\ flush' \subseteq Writers /\ delete' \in {"idle", "delete"}
  BY ReadTypes DEF Killed, TypeOK, readVars
<1>5. JobAtWork'
  BY <1>2, <1>3 DEF Killed, JobAtWork
<1> QED
  BY <1>1, <1>2, <1>3, <1>4, <1>5 DEF Killed, TypeOK, laneVars

LEMMA TypesKept ==
  ASSUME TypeOK, JobAtWork, Flushing, [Next]_vars
  PROVE  TypeOK' /\ JobAtWork'
<1>1. CASE Tick
  <2>1. clock' \in 0..MaxClock
    BY <1>1, ActivationAssumption DEF Tick, TypeOK
  <2> QED
    BY <1>1, <2>1 DEF Tick, TypeOK, JobAtWork, proofVars, laneVars, readVars
<1>2. CASE UNCHANGED vars
  BY <1>2 DEF vars, TypeOK, JobAtWork, proofVars, laneVars, readVars
<1>3. "job" \in Writers
  BY DEF Writers
<1> QED
  BY <1>1, <1>2, <1>3, ProofStepsTyped, ModelStepsTyped, JobStepsTyped, ReviewTyped, FlushTyped, LoadTyped,
     KilledTyped DEF Next, OutboxStep

\* Only a commit by the job itself has the job flush.
LEMMA FlushingKept ==
  ASSUME TypeOK, Flushing, [Next]_vars
  PROVE  Flushing'
<1>1. ASSUME NEW a \in Artifacts, NEW i \in DOMAIN preds[a], Evaluate(a, i) PROVE Flushing'
  BY <1>1 DEF Evaluate, Flushing
<1>2. CASE StartActivation \/ RefuseActivation \/ Mark \/ JobRaises
  BY <1>2 DEF StartActivation, RefuseActivation, Mark, JobRaises, Flushing
<1>3. CASE CommitActivation
  <2>1. job' = [job EXCEPT !.step = IF "job" \in flush' THEN "flush" ELSE "mark"]
    BY <1>3 DEF CommitActivation, Goes
  <2>2. "job" \notin flush
    BY <1>3 DEF CommitActivation, Flushing
  <2> QED
    BY <1>3, <2>1, <2>2 DEF CommitActivation, ThenFlushes, Flushing, TypeOK, Job
<1>4. ASSUME NEW kind \in {"proven", "research"}, Train(kind) PROVE Flushing'
  BY <1>4 DEF Train, ThenFlushes, Flushing
<1>5. CASE LookToDelete \/ Delete
  BY <1>5 DEF LookToDelete, Delete, ThenFlushes, Flushing
<1>6. ASSUME NEW degraded \in BOOLEAN, Review(degraded) PROVE Flushing'
  BY <1>6 DEF Review, ThenFlushes, Flushing
<1>7. ASSUME NEW w \in Writers, Flush(w) PROVE Flushing'
  <2>1. CASE w = "job"
    BY <1>7, <2>1 DEF Flush, Flushing
  <2>2. CASE w # "job"
    BY <1>7, <2>2 DEF Flush, Flushing
  <2> QED
    BY <2>1, <2>2
<1>8. CASE LoadStep
  BY <1>8 DEF LoadStep, LookUp, CheckLog, ReadBytes, Put, Served, Flushing
<1>9. CASE Killed
  BY <1>9 DEF Killed, JobDies, Flushing
<1>10. ASSUME NEW a \in Artifacts,
              \/ Register(a) \/ Issue(a)
              \/ \E i \in DOMAIN preds[a], o \in {"WIN", "LOSS", "INVALID"} : Resolve(a, i, o)
       PROVE  Flushing'
  BY <1>10 DEF Register, Issue, Resolve, Flushing
<1>11. CASE Tick \/ UNCHANGED vars
  BY <1>11 DEF Tick, vars, Flushing
<1>12. "job" \in Writers
  BY DEF Writers
<1> QED
  BY <1>1, <1>2, <1>3, <1>4, <1>5, <1>6, <1>7, <1>8, <1>9, <1>10, <1>11, <1>12 DEF Next, OutboxStep

-----------------------------------------------------------------------------
(* The lane.                                                               *)

LEMMA ActivationNats ==
  /\ {SampleSize, MinWins, MaxDays, LeaseWindow, Reserve, ModelLife, TTL, MaxClock} \subseteq Nat
  /\ SampleSize > 0 /\ LeaseWindow > 0
BY ActivationAssumption

\* An event at the end of a log is its latest, and the others stay.
LEMMA LogGrows ==
  ASSUME NEW l \in Seq(Event), NEW e \in Event
  PROVE  /\ LastOf(Append(l, e)) = e /\ Append(l, e) \in Seq(Event)
         /\ DOMAIN Append(l, e) = DOMAIN l \cup {Len(l) + 1} /\ Len(l) + 1 \notin DOMAIN l
         /\ Append(l, e)[Len(l) + 1] = e
         /\ \A k \in DOMAIN l : Append(l, e)[k] = l[k]
BY DEF LastOf

\* The end of an activation (SUPERSEDED, ROLLED_BACK) keeps the story of a lane that goes on
\* without one.
LEMMA StoryOfEnd ==
  ASSUME NEW l \in Seq(Event), NEW e \in Event, e.event # "ACTIVATED",
         NEW m, NEW p, OneStory(m, p, l), NEW n, n.kind # "activated", NEW q
  PROVE  OneStory(n, q, Append(l, e))
<1>1. \A j, k \in DOMAIN l \cup {Len(l) + 1} :
        /\ Append(l, e)[j].event = "ACTIVATED" /\ Append(l, e)[k].event = "ACTIVATED"
        /\ Append(l, e)[j].by = Append(l, e)[k].by
        => j = k
  BY LogGrows DEF OneStory
<1> QED
  BY <1>1, LogGrows DEF OneStory

\* An artifact that was not activated before is (_activate_impl).
LEMMA StoryOfActivation ==
  ASSUME NEW l \in Seq(Event), NEW a \in Artifacts, NEW t \in 0..MaxClock,
         NEW m, NEW p, OneStory(m, p, l),
         ~\E k \in DOMAIN l : l[k].event = "ACTIVATED" /\ l[k].by = a,
         NEW q, q.kind = "proven", Outlasts(q, t)
  PROVE  OneStory([kind |-> "activated", by |-> a, at |-> t], q,
                  Append(l, [event |-> "ACTIVATED", by |-> a, at |-> t]))
<1> DEFINE e == [event |-> "ACTIVATED", by |-> a, at |-> t]
<1>1. e \in Event /\ e.event = "ACTIVATED" /\ e.by = a /\ e.at = t
  BY DEF Event
<1> HIDE DEF e
<1>2. \A j, k \in DOMAIN l \cup {Len(l) + 1} :
        /\ Append(l, e)[j].event = "ACTIVATED" /\ Append(l, e)[k].event = "ACTIVATED"
        /\ Append(l, e)[j].by = Append(l, e)[k].by
        => j = k
  BY <1>1, LogGrows DEF OneStory
<1>3. t + LeaseWindow + Reserve <= q.at + ModelLife
  BY DEF Outlasts
<1>4. OneStory([kind |-> "activated", by |-> a, at |-> t], q, Append(l, e))
  BY <1>1, <1>2, <1>3, LogGrows DEF OneStory, e
<1> QED
  BY <1>4 DEF e

\* The model lock: whoever writes the log finds no activation under way, and the one that
\* commits finds the lane as it was (_acquire_model_lock).
LEMMA StoryKept ==
  ASSUME LaneInv, [Next]_vars
  PROVE  OneStory(live, saved, log)' /\ Committing'
<1>0. TypeOK /\ JobAtWork /\ Committing /\ OneStory(live, saved, log)
  BY DEF LaneInv
<1>1. ASSUME UNCHANGED <<live, saved, log, job>>
      PROVE  OneStory(live, saved, log)' /\ Committing'
  BY <1>0, <1>1 DEF OneStory, LastOf, Committing, Last, Used, Outlasts
<1>2. ASSUME UNCHANGED <<live, saved, log>>, job'.step # "commit"
      PROVE  OneStory(live, saved, log)' /\ Committing'
  BY <1>0, <1>2 DEF OneStory, LastOf, Committing
<1>3. ASSUME NEW a \in Artifacts, NEW i \in DOMAIN preds[a], Evaluate(a, i)
      PROVE  OneStory(live, saved, log)' /\ Committing'
  <2>1. job'.step # "commit"
    BY <1>3 DEF Evaluate, NoJob
  <2> QED
    BY <1>2, <1>3, <2>1 DEF Evaluate, laneVars
<1>4. CASE StartActivation
  <2>1. CASE Eligible(job.by) /\ Displaceable(live, clock)
    <3>1. job' = [job EXCEPT !.step = "commit", !.now = clock, !.found = live] /\ UNCHANGED <<live, saved, log>>
      BY <1>4, <2>1 DEF StartActivation, laneVars
    <3>2. job'.by = job.by /\ job'.now = clock /\ job'.found = live
      BY <1>0, <3>1 DEF TypeOK, Job
    <3>3. Last.event # "ACTIVATED" /\ ~Used(job.by)
      BY <1>0, <2>1 DEF Eligible, Displaceable, OneStory, Last
    <3>4. live.kind = "proven" /\ Outlasts(live, clock)
      BY <2>1 DEF Displaceable
    <3> QED
      BY <1>0, <3>1, <3>2, <3>3, <3>4 DEF OneStory, LastOf, Last, Used, Committing, Outlasts
  <2>2. CASE ~(Eligible(job.by) /\ Displaceable(live, clock))
    <3>1. job'.step = "mark"
      BY <1>0, <1>4, <2>2 DEF StartActivation, Goes, TypeOK, Job
    <3> QED
      BY <1>2, <1>4, <3>1 DEF StartActivation, laneVars
  <2> QED
    BY <2>1, <2>2
<1>5. CASE CommitActivation
  <2> DEFINE m == [kind |-> "activated", by |-> job.by, at |-> job.now]
  <2>1. job.by \in Artifacts /\ job.now \in 0..MaxClock
    BY <1>0, <1>5 DEF CommitActivation, JobAtWork, TypeOK, Job
  <2>2. /\ job.found.kind = "proven" /\ Outlasts(job.found, job.now)
        /\ ~\E k \in DOMAIN log : log[k].event = "ACTIVATED" /\ log[k].by = job.by
    BY <1>0, <1>5 DEF CommitActivation, Committing, Used
  <2>3. OneStory(m, job.found, Append(log, [event |-> "ACTIVATED", by |-> job.by, at |-> job.now]))
    BY <1>0, <2>1, <2>2, StoryOfActivation DEF TypeOK
  <2>4. live' = m /\ saved' = job.found
        /\ log' = Append(log, [event |-> "ACTIVATED", by |-> job.by, at |-> job.now])
    BY <1>5 DEF CommitActivation, Becomes, Logs
  <2>5. job'.step # "commit"
    BY <1>0, <1>5 DEF CommitActivation, Goes, TypeOK, Job
  <2> HIDE DEF m
  <2> QED
    BY <2>3, <2>4, <2>5 DEF Committing
<1>6. CASE RefuseActivation
  <2>1. Last.event # "ACTIVATED"
    BY <1>0, <1>6 DEF RefuseActivation, Committing
  <2>2. job'.step # "commit"
    BY <1>0, <1>6 DEF RefuseActivation, Goes, TypeOK, Job
  <2> QED
    BY <1>0, <1>6, <2>1, <2>2 DEF RefuseActivation, OneStory, Last, LastOf, Committing
<1>7. ASSUME NEW kind \in {"proven", "research"}, Train(kind)
      PROVE  OneStory(live, saved, log)' /\ Committing'
  <2>1. live' = [kind |-> kind, by |-> None, at |-> clock] /\ job' = job /\ job.step # "commit"
    BY <1>7 DEF Train, Becomes, LaneFree
  <2>2. CASE kind = "proven" /\ Last.event = "ACTIVATED"
    <3> DEFINE e == [event |-> "SUPERSEDED", by |-> Last.by, at |-> clock]
    <3>1. e \in Event /\ e.event # "ACTIVATED"
      BY <1>0, <2>2, LastActivated DEF TypeOK, Event
    <3>2. log' = Append(log, e) /\ live'.kind # "activated"
      BY <1>7, <2>1, <2>2 DEF Train, Logs
    <3> HIDE DEF e
    <3>3. OneStory(live', saved', Append(log, e))
      BY <1>0, <3>1, <3>2, StoryOfEnd DEF TypeOK
    <3> QED
      BY <2>1, <3>2, <3>3 DEF Committing
  <2>3. CASE ~(kind = "proven" /\ Last.event = "ACTIVATED")
    <3>1. UNCHANGED <<log, saved>>
      BY <1>7, <2>3 DEF Train
    <3> QED
      BY <1>0, <2>1, <2>3, <3>1 DEF OneStory, Last, LastOf, Committing
  <2> QED
    BY <2>2, <2>3
<1>8. CASE Delete
  <2>1. live' = NoModel /\ UNCHANGED <<saved, log, job>>
    BY <1>8 DEF Delete, Becomes
  <2> QED
    BY <1>0, <2>1 DEF NoModel, OneStory, LastOf, Committing, Last, Used, Outlasts
<1>9. ASSUME NEW degraded \in BOOLEAN, Review(degraded)
      PROVE  OneStory(live, saved, log)' /\ Committing'
  <2>1. CASE Restorable(clock)
    <3> DEFINE e == [event |-> "ROLLED_BACK", by |-> Last.by, at |-> clock]
    <3>1. Last.event = "ACTIVATED" /\ job' = job /\ job.step # "commit"
      BY <1>9 DEF Review, LaneFree
    <3>2. e \in Event /\ e.event # "ACTIVATED"
      BY <1>0, <3>1, LastActivated DEF TypeOK, Event
    <3>3. log' = Append(log, e) /\ live' = saved /\ saved' = saved
      BY <1>9, <2>1 DEF Review, Becomes, Logs
    <3>4. saved.kind # "activated"
      BY <1>0, <3>1 DEF OneStory, Last
    <3> HIDE DEF e
    <3>5. OneStory(live', saved', Append(log, e))
      BY <1>0, <3>2, <3>3, <3>4, StoryOfEnd DEF TypeOK
    <3> QED
      BY <3>1, <3>3, <3>5 DEF Committing
  <2>2. CASE ~Restorable(clock)
    BY <1>1, <1>9, <2>2 DEF Review
  <2> QED
    BY <2>1, <2>2
<1>10. CASE Mark \/ JobRaises
  BY <1>2, <1>10 DEF Mark, JobRaises, NoJob, laneVars
<1>11. CASE Killed
  <2>1. job' = job \/ job'.step # "commit"
    BY <1>11 DEF Killed, JobDies, NoJob
  <2> QED
    BY <1>1, <1>2, <1>11, <2>1 DEF Killed, laneVars
<1>12. ASSUME NEW w \in Writers, Flush(w)
       PROVE  OneStory(live, saved, log)' /\ Committing'
  <2>1. job' = job \/ job'.step # "commit"
    BY <1>0, <1>12 DEF Flush, Goes, TypeOK, Job
  <2> QED
    BY <1>1, <1>2, <1>12, <2>1 DEF Flush, laneVars
<1>13. CASE LoadStep \/ Tick \/ LookToDelete \/ UNCHANGED vars
  BY <1>1, <1>13 DEF LoadStep, LookUp, CheckLog, ReadBytes, Put, Served, Tick, LookToDelete, vars, laneVars
<1>14. ASSUME NEW a \in Artifacts,
              \/ Register(a) \/ Issue(a)
              \/ \E i \in DOMAIN preds[a], o \in {"WIN", "LOSS", "INVALID"} : Resolve(a, i, o)
       PROVE  OneStory(live, saved, log)' /\ Committing'
  BY <1>1, <1>14 DEF Register, Issue, Resolve, laneVars
<1>15. "job" \in Writers
  BY DEF Writers
<1> QED
  BY <1>3, <1>4, <1>5, <1>6, <1>7, <1>8, <1>9, <1>10, <1>11, <1>12, <1>13, <1>14, <1>15 DEF Next, OutboxStep

LEMMA LaneInvInit == Init => LaneInv
<1> SUFFICES ASSUME Init PROVE LaneInv
  OBVIOUS
<1>1. PICK s \in Starts : /\ reg = s.reg /\ preds = s.preds /\ left = s.left
                          /\ live = s.live /\ saved = s.saved /\ log = s.log /\ auto = s.auto
  BY DEF Init
<1>2. s \in Start /\ OneStory(s.live, s.saved, s.log)
  BY ActivationAssumption, StartsAssumption
<1>3. NoJob \in Job /\ NoJob.step = "idle" /\ 0 \in 0..MaxClock
  BY RowTypes, ActivationAssumption DEF NoJob, Job
<1>4. TypeOK
  BY <1>1, <1>2, <1>3, ReadTypes DEF Init, TypeOK, Start, Attempt
<1> QED
  BY <1>1, <1>2, <1>3, <1>4 DEF Init, LaneInv, JobAtWork, Flushing, Committing

LEMMA LaneInvNext == LaneInv /\ [Next]_vars => LaneInv'
BY TypesKept, FlushingKept, StoryKept DEF LaneInv

LEMMA LaneInvHolds == Spec => []LaneInv
BY LaneInvInit, LaneInvNext, PTL DEF Spec

\* The model rows, the predecessor and the log of a lane tell one story, whatever retrains,
\* deletions, refused activations, reviews and kills come between (_activate_impl,
\* _rollback_impl, _store_direction_model, delete_model).
THEOREM LaneIsOneStory == Spec => []LaneHolds
<1>1. LaneInv => LaneHolds
  <2> SUFFICES ASSUME LaneInv PROVE LaneHolds
    OBVIOUS
  <2>1. TypeOK /\ OneStory(live, saved, log)
    BY DEF LaneInv
  <2>2. saved.at \in 0..MaxClock /\ clock \in 0..MaxClock
    BY <2>1, RowTypes DEF TypeOK
  <2>3. PredecessorKept
    <3> SUFFICES ASSUME Last.event = "ACTIVATED"
                 PROVE  /\ saved.kind = "proven"
                        /\ clock <= Last.at + LeaseWindow + Reserve => Serveable(saved, clock)
      BY DEF PredecessorKept
    <3>1. saved.kind = "proven" /\ Last.at + LeaseWindow + Reserve <= saved.at + ModelLife
      BY <2>1 DEF OneStory, Last
    <3>2. Last.at \in 0..MaxClock
      BY <2>1, LastActivated
    <3> QED
      BY <2>2, <3>1, <3>2, ActivationNats DEF Serveable
  <2>4. OneActivation /\ LiveIsLogged
    BY <2>1 DEF OneStory, OneActivation, LiveIsLogged, LogMatches, Last
  <2> QED
    BY <2>1, <2>3, <2>4 DEF LaneHolds
<1> QED
  BY <1>1, LaneInvHolds, PTL

-----------------------------------------------------------------------------
(* What is served.                                                         *)

\* The lane had m at time t or later.
Lately(m, t) == m = live \/ \E p \in past : p.model = m /\ t <= p.at

WasLogged(m, since) ==
  \E k \in DOMAIN log : /\ k >= since
                        /\ log[k] = [event |-> "ACTIVATED", by |-> m.by, at |-> m.at]

\* What a load knows of the model it has in hand: a cached one may be as old as an entry may
\* be, and an activation was found in the log after the load began.
LoadInv ==
  load.step # "idle" =>
    /\ load.since \in 0..Len(log)
    /\ load.step \in {"log", "bytes", "served"} => load.model.kind # "none"
    /\ load.step \in {"bytes", "put"} => ~load.cached
    /\ load.model.kind = "activated" =>
         /\ clock < load.model.at + LeaseWindow
         /\ load.step \in {"bytes", "put", "served"} => WasLogged(load.model, load.since)
    /\ load.model.kind # "none" => Lately(load.model, IF load.cached THEN clock - TTL ELSE clock)

\* An entry was the lane's model when it was written.
CacheInv ==
  /\ cache.at <= clock
  /\ cache.model.kind # "none" => Lately(cache.model, cache.at)

ReadInv == TypeOK /\ LoadInv /\ CacheInv

\* A model that leaves the lane does so now (the history past).
LEMMA LatelyKept ==
  ASSUME TypeOK, NEW m \in Rows, m.kind # "none", NEW t \in Int, t <= clock, Lately(m, t),
         UNCHANGED <<live, past>> \/ \E n \in Rows : Becomes(n)
  PROVE  Lately(m, t)'
<1>0. m # NoModel /\ clock \in Int
  BY RowTypes DEF NoModel, TypeOK
<1>1. CASE UNCHANGED <<live, past>>
  BY <1>1 DEF Lately
<1>2. ASSUME NEW n \in Rows, Becomes(n) PROVE Lately(m, t)'
  <2>1. CASE live \in {n, NoModel}
    <3>1. past' = past /\ live' = n
      BY <1>2, <2>1 DEF Becomes
    <3> QED
      BY <1>0, <2>1, <3>1 DEF Lately
  <2>2. CASE live \notin {n, NoModel}
    <3>1. past' = {p \in past : p.model # live} \cup {[model |-> live, at |-> clock]}
      BY <1>2, <2>2 DEF Becomes
    <3>2. CASE m = live
      <4>1. [model |-> live, at |-> clock] \in past'
        BY <3>1
      <4> QED
        BY <3>2, <4>1 DEF Lately
    <3>3. CASE m # live
      <4>1. PICK p \in past : p.model = m /\ t <= p.at
        BY <3>3 DEF Lately
      <4>2. p \in past'
        BY <3>1, <3>3, <4>1
      <4> QED
        BY <4>1, <4>2 DEF Lately
    <3> QED
      BY <3>2, <3>3
  <2> QED
    BY <2>1, <2>2
<1> QED
  BY <1>1, <1>2

\* Whatever the writers of the lane do between two statements of a load.
LEMMA WritersKeepReads ==
  ASSUME ReadInv, TypeOK', UNCHANGED <<clock, load>>, cache' \in {cache, NoEntry},
         log' = log \/ \E e \in Event : log' = Append(log, e),
         UNCHANGED <<live, past>> \/ \E n \in Rows : Becomes(n)
  PROVE  LoadInv' /\ CacheInv'
<1>0. /\ TypeOK /\ clock \in 0..MaxClock /\ load \in Load /\ cache \in Entry /\ log \in Seq(Event)
      /\ load.model \in Rows /\ cache.model \in Rows /\ cache.at \in 0..MaxClock
  BY DEF ReadInv, TypeOK, Load, Entry
<1>1. /\ Len(log) \in Nat /\ Len(log') \in Nat /\ Len(log) <= Len(log')
      /\ \A k \in DOMAIN log : k \in DOMAIN log' /\ log'[k] = log[k]
  BY <1>0
<1>2. \A m, s : WasLogged(m, s) => WasLogged(m, s)'
  BY <1>1 DEF WasLogged
<1>3. ASSUME load.step # "idle", load.model.kind # "none"
      PROVE  Lately(load.model, IF load.cached THEN clock - TTL ELSE clock)'
  <2>1. PICK m \in Rows : m = load.model
    BY <1>0
  <2>2. PICK t \in Int : t = IF load.cached THEN clock - TTL ELSE clock
    BY <1>0, ActivationNats
  <2>3. t <= clock /\ Lately(m, t) /\ m.kind # "none"
    BY <1>0, <1>3, <2>1, <2>2, ActivationNats DEF ReadInv, LoadInv
  <2>4. Lately(m, t)'
    BY <1>0, <2>3, LatelyKept
  <2> QED
    BY <2>1, <2>2, <2>4
<1>4. LoadInv'
  BY <1>0, <1>1, <1>2, <1>3 DEF ReadInv, LoadInv
<1>5. CacheInv'
  <2>1. CASE cache' = NoEntry
    BY <1>0, <2>1, ActivationNats DEF CacheInv, NoEntry, NoModel
  <2>2. CASE cache' = cache
    <3>1. PICK m \in Rows, t \in Int : m = cache.model /\ t = cache.at
      BY <1>0
    <3>2. t <= clock /\ (m.kind # "none" => Lately(m, t))
      BY <3>1 DEF ReadInv, CacheInv
    <3>3. m.kind # "none" => Lately(m, t)'
      BY <1>0, <3>2, LatelyKept
    <3> QED
      BY <2>2, <3>1, <3>2, <3>3 DEF CacheInv
  <2> QED
    BY <2>1, <2>2
<1> QED
  BY <1>4, <1>5

\* The statements of a load (load_model, _persisted_activation_matches, _load_model_uncached).
LEMMA LoadKeepsReads ==
  ASSUME ReadInv, LoadStep
  PROVE  LoadInv' /\ CacheInv'
<1>0. /\ TypeOK /\ clock \in 0..MaxClock /\ load \in Load /\ cache \in Entry /\ log \in Seq(Event)
      /\ load.model \in Rows /\ cache.model \in Rows /\ cache.at \in 0..MaxClock /\ live \in Rows
      /\ Len(log) \in Nat /\ LoadInv /\ CacheInv /\ load.cached \in BOOLEAN
  BY DEF ReadInv, TypeOK, Load, Entry
<1>1. CASE LookUp
  <2>1. UNCHANGED <<clock, cache, live, past, log>>
    BY <1>1 DEF LookUp, laneVars
  <2>2. CacheInv'
    BY <1>0, <2>1 DEF CacheInv, Lately
  <2>3. CASE Hit
    <3>1. /\ Serveable(cache.model, clock)
          /\ load' = [step |-> "log", model |-> cache.model, cached |-> TRUE, since |-> Len(log)]
      BY <1>1, <2>3 DEF LookUp, Loads
    <3>2. cache.model.kind # "none" /\ cache.at > clock - TTL
      BY <1>0, <2>3, <3>1, ActivationNats DEF Serveable, Hit
    <3>3. Lately(cache.model, clock - TTL)
      <4>1. CASE cache.model = live
        BY <4>1 DEF Lately
      <4>2. ASSUME NEW p \in past, p.model = cache.model, cache.at <= p.at
            PROVE  Lately(cache.model, clock - TTL)
        <5>1. p.at \in 0..MaxClock
          BY <1>0 DEF TypeOK
        <5>2. clock - TTL <= p.at
          BY <1>0, <3>2, <4>2, <5>1, ActivationNats
        <5> QED
          BY <4>2, <5>2 DEF Lately
      <4> QED
        BY <1>0, <3>2, <4>1, <4>2 DEF CacheInv, Lately
    <3>4. Lately(cache.model, clock - TTL)'
      BY <2>1, <3>3 DEF Lately
    <3> QED
      BY <1>0, <2>1, <2>2, <3>1, <3>2, <3>4 DEF LoadInv, Serveable
  <2>4. CASE ~Hit /\ Serveable(live, clock)
    <3>1. load' = [step |-> "log", model |-> live, cached |-> FALSE, since |-> Len(log)]
      BY <1>1, <2>4 DEF LookUp, Loads
    <3> QED
      BY <1>0, <2>1, <2>2, <2>4, <3>1 DEF LoadInv, Serveable, Lately
  <2>5. CASE ~Hit /\ ~Serveable(live, clock)
    <3>1. load' = [step |-> "put", model |-> NoModel, cached |-> FALSE, since |-> Len(log)]
      BY <1>1, <2>5 DEF LookUp, Loads
    <3> QED
      BY <1>0, <2>1, <2>2, <3>1 DEF LoadInv, NoModel
  <2> QED
    BY <2>3, <2>4, <2>5
<1>2. ASSUME UNCHANGED <<clock, cache, live, past, log>>, load.step # "idle",
             NEW step \in {"bytes", "put", "served"}, NEW m \in {load.model, NoModel},
             load' = [load EXCEPT !.step = step, !.model = m],
             step \in {"bytes", "put"} => ~load.cached,
             step \in {"bytes", "served"} => m.kind # "none",
             m.kind = "activated" => WasLogged(m, load.since)
      PROVE  LoadInv' /\ CacheInv'
  <2>1. load'.step = step /\ load'.model = m /\ load'.cached = load.cached /\ load'.since = load.since
    BY <1>0, <1>2 DEF Load
  <2>2. CacheInv'
    BY <1>0, <1>2 DEF CacheInv, Lately
  <2>3. m.kind # "none" => m = load.model
    BY DEF NoModel
  <2>4. WasLogged(m, load.since) => WasLogged(m, load.since)'
    BY <1>2 DEF WasLogged
  <2>5. m.kind # "none" => Lately(m, IF load.cached THEN clock - TTL ELSE clock)'
    BY <1>0, <1>2, <2>3 DEF LoadInv, Lately
  <2> QED
    BY <1>0, <1>2, <2>1, <2>2, <2>3, <2>4, <2>5 DEF LoadInv
<1>3. CASE CheckLog
  <2>1. load.step = "log" /\ UNCHANGED <<clock, cache, live, past, log>>
    BY <1>3 DEF CheckLog, laneVars
  <2>2. CASE LogMatches(load.model)
    <3>1. load.model.kind = "activated" => WasLogged(load.model, load.since)
      <4> SUFFICES ASSUME load.model.kind = "activated" PROVE WasLogged(load.model, load.since)
        OBVIOUS
      <4>1. Last = [event |-> "ACTIVATED", by |-> load.model.by, at |-> load.model.at]
        BY <2>2 DEF LogMatches
      <4>2. log # << >> /\ Len(log) \in DOMAIN log /\ Last = log[Len(log)]
        BY <1>0, <4>1, LastActivated, LastTyped
      <4>3. Len(log) >= load.since
        BY <1>0, <2>1 DEF LoadInv
      <4> QED
        BY <4>1, <4>2, <4>3 DEF WasLogged
    <3>2. load' = [load EXCEPT !.step = IF load.cached THEN "served" ELSE "bytes", !.model = load.model]
      BY <1>3, <2>2 DEF CheckLog, Reads
    <3>3. load.model.kind # "none"
      BY <1>0, <2>1 DEF LoadInv
    <3> QED
      BY <1>2, <2>1, <3>1, <3>2, <3>3
  <2>3. CASE ~LogMatches(load.model) /\ load.cached
    BY <1>0, <1>3, <2>1, <2>3, ReadTypes DEF CheckLog, LoadInv, CacheInv, Lately
  <2>4. CASE ~LogMatches(load.model) /\ ~load.cached
    <3>1. load' = [load EXCEPT !.step = "put", !.model = NoModel]
      BY <1>3, <2>4 DEF CheckLog, Reads
    <3> QED
      BY <1>2, <2>1, <2>4, <3>1 DEF NoModel
  <2> QED
    BY <2>2, <2>3, <2>4
<1>4. CASE ReadBytes
  <2>1. load.step = "bytes" /\ UNCHANGED <<clock, cache, live, past, log>>
    BY <1>4 DEF ReadBytes, laneVars
  <2> DEFINE m == IF live = load.model THEN load.model ELSE NoModel
  <2>2. load' = [load EXCEPT !.step = "put", !.model = m]
    BY <1>4 DEF ReadBytes, Reads
  <2>3. m \in {load.model, NoModel} /\ (m.kind = "activated" => m = load.model)
    BY DEF NoModel
  <2> HIDE DEF m
  <2>4. ~load.cached /\ (m.kind = "activated" => WasLogged(m, load.since))
    BY <1>0, <2>1, <2>3 DEF LoadInv
  <2> QED
    BY <1>2, <2>1, <2>2, <2>3, <2>4
<1>5. CASE Put
  <2>1. load.step = "put" /\ UNCHANGED <<clock, live, past, log>> /\ ~load.cached
        /\ cache' = [model |-> load.model, at |-> clock, there |-> TRUE]
    BY <1>0, <1>5 DEF Put, laneVars, LoadInv
  <2>2. load.model.kind # "none" => Lately(load.model, clock)
    BY <1>0, <2>1 DEF LoadInv
  <2>3. CacheInv'
    BY <1>0, <2>1, <2>2 DEF CacheInv, Lately
  <2>4. CASE load.model = NoModel
    BY <1>5, <2>3, <2>4, ReadTypes DEF Put, LoadInv
  <2>5. CASE load.model # NoModel
    <3>1. load.model.kind # "none"
      BY <1>0, <2>5, RowTypes
    <3>2. load' = [load EXCEPT !.step = "served", !.model = load.model]
      BY <1>5, <2>5 DEF Put, Reads
    <3>3. /\ load'.step = "served" /\ load'.model = load.model /\ load'.cached = load.cached
          /\ load'.since = load.since
      BY <1>0, <3>2 DEF Load
    <3> QED
      BY <1>0, <2>1, <2>2, <2>3, <3>1, <3>3 DEF LoadInv, WasLogged, Lately
  <2> QED
    BY <2>4, <2>5
<1>6. CASE Served
  BY <1>0, <1>6, ReadTypes DEF Served, laneVars, LoadInv, CacheInv, Lately
<1> QED
  BY <1>1, <1>3, <1>4, <1>5, <1>6 DEF LoadStep

\* Between loads nothing is in hand (Tick waits for the load), and a kill drops what is.
LEMMA OthersKeepReads ==
  ASSUME ReadInv, TypeOK', Tick \/ Killed
  PROVE  LoadInv' /\ CacheInv'
<1>0. /\ TypeOK /\ clock \in 0..MaxClock /\ cache \in Entry /\ cache.at \in 0..MaxClock /\ LoadInv /\ CacheInv
  BY DEF ReadInv, TypeOK, Entry
<1>1. CASE Tick
  BY <1>0, <1>1 DEF Tick, LoadInv, CacheInv, Lately, laneVars, readVars
<1>2. CASE Killed
  <2>1. UNCHANGED <<clock, live, past, log>> /\ (UNCHANGED readVars \/ (cache' = NoEntry /\ load' = NoLoad))
    BY <1>2 DEF Killed, laneVars
  <2>2. CASE UNCHANGED readVars
    BY <1>0, <2>1, <2>2 DEF LoadInv, CacheInv, WasLogged, Lately, readVars
  <2>3. CASE cache' = NoEntry /\ load' = NoLoad
    BY <1>0, <2>1, <2>3, ReadTypes DEF LoadInv, CacheInv, NoEntry, NoModel
  <2> QED
    BY <2>1, <2>2, <2>3
<1> QED
  BY <1>1, <1>2

LEMMA ReadsKept ==
  ASSUME LaneInv, LaneInv', ReadInv, [Next]_vars
  PROVE  ReadInv'
<1> SUFFICES LoadInv' /\ CacheInv'
  BY DEF LaneInv, ReadInv
<1>0. TypeOK /\ TypeOK' /\ JobAtWork
  BY DEF LaneInv
<1>1. ASSUME UNCHANGED <<clock, load>>, cache' \in {cache, NoEntry},
             log' = log \/ \E e \in Event : log' = Append(log, e),
             UNCHANGED <<live, past>> \/ \E n \in Rows : Becomes(n)
      PROVE  LoadInv' /\ CacheInv'
  BY <1>0, <1>1, WritersKeepReads
<1>2. CASE CommitActivation
  <2>1. [kind |-> "activated", by |-> job.by, at |-> job.now] \in Rows
        /\ [event |-> "ACTIVATED", by |-> job.by, at |-> job.now] \in Event
    BY <1>0, <1>2, RowTypes DEF CommitActivation, JobAtWork, TypeOK, Job, Event
  <2> QED
    BY <1>1, <1>2, <2>1 DEF CommitActivation, Logs, readVars
<1>3. ASSUME NEW kind \in {"proven", "research"}, Train(kind) PROVE LoadInv' /\ CacheInv'
  <2>1. [kind |-> kind, by |-> None, at |-> clock] \in Rows
    BY <1>0, RowTypes DEF TypeOK
  <2>2. log' = log \/ \E e \in Event : log' = Append(log, e)
    <3>1. CASE kind = "proven" /\ Last.event = "ACTIVATED"
      <4>1. [event |-> "SUPERSEDED", by |-> Last.by, at |-> clock] \in Event
        BY <1>0, <3>1, LastActivated DEF TypeOK, Event
      <4> QED
        BY <1>3, <3>1, <4>1 DEF Train, Logs
    <3>2. CASE ~(kind = "proven" /\ Last.event = "ACTIVATED")
      BY <1>3, <3>2 DEF Train
    <3> QED
      BY <3>1, <3>2
  <2>3. UNCHANGED <<clock, load>> /\ cache' \in {cache, NoEntry} /\ \E n \in Rows : Becomes(n)
    BY <1>3, <2>1 DEF Train, readVars
  <2> QED
    BY <1>1, <2>2, <2>3
<1>4. CASE Delete
  BY <1>1, <1>4, RowTypes DEF Delete, readVars
<1>5. ASSUME NEW degraded \in BOOLEAN, Review(degraded) PROVE LoadInv' /\ CacheInv'
  <2>1. [event |-> "ROLLED_BACK", by |-> Last.by, at |-> clock] \in Event
    BY <1>0, <1>5, LastActivated DEF Review, TypeOK, Event
  <2>2. saved \in Rows
    BY <1>0 DEF TypeOK
  <2>3. UNCHANGED <<clock, load>> /\ cache' \in {cache, NoEntry}
    BY <1>5 DEF Review, readVars
  <2>4. CASE Restorable(clock)
    <3>1. Becomes(saved) /\ log' = Append(log, [event |-> "ROLLED_BACK", by |-> Last.by, at |-> clock])
      BY <1>5, <2>4 DEF Review, Logs
    <3> QED
      BY <1>1, <2>1, <2>2, <2>3, <3>1
  <2>5. CASE ~Restorable(clock)
    BY <1>1, <1>5, <2>3, <2>5 DEF Review
  <2> QED
    BY <2>4, <2>5
<1>6. ASSUME NEW a \in Artifacts,
             \/ Register(a) \/ Issue(a)
             \/ \E i \in DOMAIN preds[a], o \in {"WIN", "LOSS", "INVALID"} : Resolve(a, i, o)
             \/ \E i \in DOMAIN preds[a] : Evaluate(a, i)
      PROVE  LoadInv' /\ CacheInv'
  BY <1>1, <1>6 DEF Register, Issue, Resolve, Evaluate, laneVars, readVars
<1>7. CASE StartActivation \/ RefuseActivation \/ Mark \/ JobRaises \/ LookToDelete \/ UNCHANGED vars
  BY <1>1, <1>7 DEF StartActivation, RefuseActivation, Mark, JobRaises, LookToDelete, vars, laneVars, readVars
<1>8. ASSUME NEW w \in Writers, Flush(w) PROVE LoadInv' /\ CacheInv'
  BY <1>1, <1>8 DEF Flush, laneVars
<1>9. CASE LoadStep
  BY <1>9, LoadKeepsReads
<1>10. CASE Tick \/ Killed
  BY <1>0, <1>10, OthersKeepReads
<1>11. "job" \in Writers
  BY DEF Writers
<1> QED
  BY <1>2, <1>3, <1>4, <1>5, <1>6, <1>7, <1>8, <1>9, <1>10, <1>11 DEF Next, OutboxStep

\* Whatever the cache holds and however retrains, activations, rollbacks and kills fall between
\* the statements of a load: an activation that is served was the lane's latest event at some
\* moment of that load and its lease is not over, and a model that left the lane is not served
\* for longer than an entry of the cache lives (load_model, model_serve_guard).
THEOREM ServedIsCurrent == Spec => []ServedHolds
<1>1. LaneInv /\ Init => ReadInv
  <2>1. TypeOK /\ Init => LoadInv
    BY ReadTypes DEF Init, LoadInv
  <2>2. Init => CacheInv
    BY DEF Init, CacheInv, NoEntry, NoModel
  <2> QED
    BY <2>1, <2>2 DEF LaneInv, ReadInv
<1>2. ReadInv => ServedHolds
  <2> SUFFICES ASSUME ReadInv, load.step = "served" PROVE ServedHolds
    BY DEF ServedHolds, CurrentIsServed, StaleWithinTTL
  <2>1. /\ TypeOK /\ clock \in 0..MaxClock /\ load.model.kind # "none"
        /\ Lately(load.model, IF load.cached THEN clock - TTL ELSE clock)
    BY DEF ReadInv, LoadInv, TypeOK
  <2>2. CurrentIsServed
    BY DEF ReadInv, LoadInv, WasLogged, CurrentIsServed
  <2>3. StaleWithinTTL
    <3> SUFFICES ASSUME load.model # live
                 PROVE  \E p \in past : p.model = load.model /\ clock <= p.at + TTL
      BY DEF StaleWithinTTL
    <3>1. PICK p \in past : p.model = load.model /\ (IF load.cached THEN clock - TTL ELSE clock) <= p.at
      BY <2>1 DEF Lately
    <3>2. p.at \in 0..MaxClock
      BY <2>1 DEF TypeOK
    <3>3. clock <= p.at + TTL
      BY <2>1, <3>1, <3>2, ActivationNats
    <3> QED
      BY <3>1, <3>3
  <2> QED
    BY <2>2, <2>3 DEF ServedHolds
<1>3. LaneInv /\ LaneInv' /\ ReadInv /\ [Next]_vars => ReadInv'
  BY ReadsKept
<1> QED
  BY <1>1, <1>2, <1>3, LaneInvHolds, PTL DEF Spec

-----------------------------------------------------------------------------
(* The sample of a proof.                                                  *)

Valid(p, S) == {i \in S : p[i].outcome # "INVALID"}

\* A sample takes the earliest of the valid predictions.
LEMMA SampleIsEarliest ==
  ASSUME NEW p, NEW S \in SUBSET Nat, IsFiniteSet(S),
         NEW i \in FirstOf(p, S), NEW j \in Valid(p, S), j <= i
  PROVE  j \in FirstOf(p, S)
<1> DEFINE upto(n) == {k \in Valid(p, S) : k <= n}
<1>1. FirstOf(p, S) = {n \in Valid(p, S) : Cardinality(upto(n)) <= SampleSize}
  BY DEF FirstOf, Valid
<1>2. i \in Nat /\ j \in Nat /\ Valid(p, S) \subseteq Nat /\ Valid(p, S) \subseteq S
  BY DEF FirstOf, Valid
<1>3. upto(j) \subseteq upto(i) /\ upto(i) \subseteq S
  BY <1>2
<1>4. IsFiniteSet(upto(i)) /\ IsFiniteSet(upto(j))
  BY <1>3, FS_Subset
<1>5. Cardinality(upto(j)) <= Cardinality(upto(i)) /\ Cardinality(upto(i)) \in Nat /\ Cardinality(upto(j)) \in Nat
  BY <1>3, <1>4, FS_Subset, FS_CardinalityType
<1>6. Cardinality(upto(i)) <= SampleSize
  BY <1>1
<1> HIDE DEF upto
<1> QED
  BY <1>1, <1>5, <1>6, ActivationNats

\* As many valid predictions as a sample has, with none left out before them, are the sample.
LEMMA SampleIs ==
  ASSUME NEW p, NEW S \in SUBSET Nat, IsFiniteSet(S),
         NEW F \in SUBSET Valid(p, S), Cardinality(F) = SampleSize,
         \A i \in F, j \in Valid(p, S) : j <= i => j \in F
  PROVE  FirstOf(p, S) = F
<1> DEFINE upto(n) == {k \in Valid(p, S) : k <= n}
<1>1. FirstOf(p, S) = {n \in Valid(p, S) : Cardinality(upto(n)) <= SampleSize}
  BY DEF FirstOf, Valid
<1>2. Valid(p, S) \subseteq Nat /\ Valid(p, S) \subseteq S
  BY DEF Valid
<1>3. IsFiniteSet(Valid(p, S)) /\ IsFiniteSet(F)
  BY <1>2, FS_Subset
<1>4. ASSUME NEW i \in F PROVE Cardinality(upto(i)) <= SampleSize
  <2>1. upto(i) \subseteq F
    OBVIOUS
  <2> HIDE DEF upto
  <2> QED
    BY <1>3, <2>1, FS_Subset
<1>5. ASSUME NEW i \in Valid(p, S), i \notin F PROVE Cardinality(upto(i)) > SampleSize
  <2>1. \A j \in F : j <= i
    BY <1>2, <1>5
  <2>2. F \cup {i} \subseteq upto(i) /\ upto(i) \subseteq Valid(p, S)
    BY <1>2, <2>1
  <2> HIDE DEF upto
  <2>3. IsFiniteSet(F \cup {i}) /\ Cardinality(F \cup {i}) = SampleSize + 1
    BY <1>3, <1>5, FS_AddElement
  <2>4. IsFiniteSet(upto(i))
    BY <1>3, <2>2, FS_Subset
  <2>5. Cardinality(F \cup {i}) <= Cardinality(upto(i)) /\ Cardinality(upto(i)) \in Nat
    BY <2>2, <2>4, FS_Subset, FS_CardinalityType
  <2> QED
    BY <2>3, <2>5, ActivationNats
<1>6. \A i \in Valid(p, S) : Cardinality(upto(i)) \in Nat
  <2> SUFFICES ASSUME NEW i \in Valid(p, S) PROVE Cardinality(upto(i)) \in Nat
    OBVIOUS
  <2>1. upto(i) \subseteq Valid(p, S)
    OBVIOUS
  <2> HIDE DEF upto
  <2> QED
    BY <1>3, <2>1, FS_Subset, FS_CardinalityType
<1> HIDE DEF upto
<1> QED
  BY <1>1, <1>4, <1>5, <1>6, ActivationNats

\* A full sample of what was reached is the sample of all that count: an unresolved prediction
\* holds back those after it, and only those (_evaluate_impl).
LEMMA ReachedIsFirst ==
  ASSUME NEW p \in Seq(Prediction), Cardinality(FirstOf(p, Reached(p))) = SampleSize
  PROVE  FirstOf(p, Counted(p)) = FirstOf(p, Reached(p))
<1> DEFINE F == FirstOf(p, Reached(p))
<1>1. /\ Counted(p) \subseteq Nat /\ IsFiniteSet(Counted(p))
      /\ Reached(p) \subseteq Counted(p) /\ IsFiniteSet(Reached(p)) /\ Reached(p) \in SUBSET Nat
  BY CountedIsFinite
<1>2. F \subseteq Valid(p, Reached(p)) /\ F \in SUBSET Valid(p, Counted(p))
  BY <1>1 DEF FirstOf, Valid
<1>3. ASSUME NEW i \in F, NEW j \in Valid(p, Counted(p)), j <= i PROVE j \in F
  <2>1. i \in Reached(p) /\ j \in Counted(p) /\ i \in Nat /\ j \in Nat
    BY <1>1, <1>2 DEF Valid
  <2>2. \A k \in Counted(p) : k <= j => k <= i
    BY <1>1, <1>3, <2>1
  <2>3. j \in Reached(p)
    BY <2>1, <2>2 DEF Reached
  <2>4. j \in Valid(p, Reached(p))
    BY <2>3 DEF Valid
  <2> QED
    BY <1>1, <1>3, <2>4, SampleIsEarliest
<1> HIDE DEF F
<1>4. Cardinality(F) = SampleSize
  BY DEF F
<1>5. FirstOf(p, Counted(p)) = F
  BY <1>1, <1>2, <1>3, <1>4, SampleIs
<1> QED
  BY <1>5 DEF F

LEMMA StatusProves ==
  ASSUME NEW a \in Artifacts, preds[a] \in Seq(Prediction), Status(a) = "PROVEN"
  PROVE  ProvenBy(preds[a])
<1> DEFINE p == preds[a]
           F == FirstOf(p, Reached(p))
<1>1. Cardinality(F) = SampleSize /\ Wins(p, F) >= MinWins
  BY DEF Status
<1>2. FirstOf(p, Counted(p)) = F
  BY <1>1, ReachedIsFirst
<1>3. F \subseteq Reached(p) /\ Reached(p) \subseteq Counted(p) /\ Reached(p) \subseteq Nat
  BY CountedIsFinite DEF FirstOf
<1>4. \A i \in F : p[i].outcome # "open"
  <2> SUFFICES ASSUME NEW i \in F PROVE p[i].outcome # "open"
    OBVIOUS
  <2>1. i \in Reached(p) /\ i \in Counted(p) /\ i <= i
    BY <1>3
  <2> QED
    BY <2>1 DEF Reached
<1> QED
  BY <1>1, <1>2, <1>4 DEF ProvenBy

\* Later outcomes, and predictions that do not count, change nothing of a proof.
LEMMA ProofStands ==
  ASSUME NEW p \in Seq(Prediction), NEW q \in Seq(Prediction), ProvenBy(p),
         DOMAIN p \subseteq DOMAIN q,
         \A i \in DOMAIN p : /\ q[i].counts = p[i].counts
                             /\ p[i].outcome # "open" => q[i].outcome = p[i].outcome,
         \A i \in DOMAIN q \ DOMAIN p : ~q[i].counts
  PROVE  ProvenBy(q)
<1> DEFINE C == Counted(p)
           F == FirstOf(p, C)
<1>1. C \subseteq DOMAIN p /\ C \in SUBSET Nat /\ IsFiniteSet(C) /\ Counted(q) = C
  BY CountedIsFinite DEF Counted
<1>2. Cardinality(F) = SampleSize /\ Wins(p, F) >= MinWins /\ \A i \in F : p[i].outcome # "open"
  BY DEF ProvenBy
<1>3. F \subseteq Valid(p, C) /\ F \subseteq C /\ F \subseteq DOMAIN p
  BY <1>1 DEF FirstOf, Valid
<1>4. \A i \in F : q[i].outcome = p[i].outcome /\ q[i].outcome # "open"
  BY <1>2, <1>3
<1>5. F \in SUBSET Valid(q, C)
  BY <1>3, <1>4 DEF Valid
<1>6. Valid(q, C) \subseteq Valid(p, C)
  <2> SUFFICES ASSUME NEW i \in C, p[i].outcome = "INVALID" PROVE q[i].outcome = "INVALID"
    BY DEF Valid
  <2> QED
    BY <1>1
<1>7. ASSUME NEW i \in F, NEW j \in Valid(q, C), j <= i PROVE j \in F
  BY <1>1, <1>6, <1>7, SampleIsEarliest
<1>8. Wins(q, F) = Wins(p, F)
  <2>1. {i \in F : q[i].outcome = "WIN"} = {i \in F : p[i].outcome = "WIN"}
    BY <1>4
  <2> QED
    BY <2>1 DEF Wins
<1> HIDE DEF C, F
<1>9. FirstOf(q, C) = F
  BY <1>1, <1>2, <1>5, <1>7, SampleIs
<1> QED
  BY <1>1, <1>2, <1>4, <1>8, <1>9 DEF ProvenBy

\* Predictions are appended and resolved, and nothing that counts is added.
Grown(p, q) ==
  /\ DOMAIN p \subseteq DOMAIN q
  /\ \A i \in DOMAIN p : /\ q[i].counts = p[i].counts
                         /\ p[i].outcome # "open" => q[i].outcome = p[i].outcome
  /\ \A i \in DOMAIN q \ DOMAIN p : ~q[i].counts

\* What a proven artifact issues comes too late to count, and its outcomes are final.
LEMMA PredsGrow ==
  ASSUME TypeOK, JobAtWork, [Next]_vars, NEW a \in Artifacts, reg[a].status = "PROVEN"
  PROVE  Grown(preds[a], preds'[a])
<1>0. preds \in [Artifacts -> Seq(Prediction)] /\ preds[a] \in Seq(Prediction)
  BY DEF TypeOK
<1>1. CASE UNCHANGED preds
  BY <1>1 DEF Grown
<1>2. ASSUME NEW b \in Artifacts, Issue(b) PROVE Grown(preds[a], preds'[a])
  <2> DEFINE p == [counts |-> InWindow(b), outcome |-> "open", row |-> "none", tries |-> 0]
  <2>1. preds' = [preds EXCEPT ![b] = Append(preds[b], p)] /\ preds[b] \in Seq(Prediction)
    BY <1>0, <1>2 DEF Issue
  <2>2. p \in Prediction /\ p.counts = InWindow(b)
    BY ActivationAssumption DEF Prediction, InWindow
  <2> HIDE DEF p
  <2>3. CASE b = a
    <3>1. preds'[a] = Append(preds[a], p)
      BY <1>0, <2>1, <2>3
    <3>2. ~p.counts
      BY <2>2, <2>3 DEF InWindow
    <3> QED
      BY <1>0, <2>2, <3>1, <3>2 DEF Grown
  <2>4. CASE b # a
    BY <1>0, <2>1, <2>4 DEF Grown
  <2> QED
    BY <2>3, <2>4
<1>3. ASSUME NEW b \in Artifacts, NEW i \in DOMAIN preds[b], NEW o \in {"WIN", "LOSS", "INVALID"},
             Resolve(b, i, o)
      PROVE  Grown(preds[a], preds'[a])
  <2>1. preds[b] \in Seq(Prediction) /\ preds[b][i] \in Prediction
    BY <1>0
  <2>2. preds' = [preds EXCEPT ![b] = [preds[b] EXCEPT ![i] =
                    [preds[b][i] EXCEPT !.outcome = o, !.row = "PENDING"]]]
    BY <1>0, <1>3, <2>1 DEF Resolve, Prediction
  <2>3. preds[b][i].outcome = "open"
    BY <1>3 DEF Resolve
  <2> QED
    BY <1>0, <2>1, <2>2, <2>3 DEF Grown, Prediction
<1>4. ASSUME job.step # "idle", NEW row, NEW tries,
             preds' = [preds EXCEPT ![job.by] = [preds[job.by] EXCEPT ![job.row] =
                         [preds[job.by][job.row] EXCEPT !.tries = tries, !.row = row]]]
      PROVE  Grown(preds[a], preds'[a])
  <2>1. job.by \in Artifacts /\ job.row \in DOMAIN preds[job.by]
    BY <1>4 DEF JobAtWork
  <2>2. preds[job.by] \in Seq(Prediction) /\ preds[job.by][job.row] \in Prediction
    BY <1>0, <2>1
  <2> QED
    BY <1>0, <1>4, <2>1, <2>2 DEF Grown, Prediction
<1>5. CASE Mark
  <2>1. job.by \in Artifacts /\ job.row \in DOMAIN preds[job.by] /\ job.step # "idle"
    BY <1>5 DEF Mark, JobAtWork
  <2>2. preds[job.by] \in Seq(Prediction) /\ preds[job.by][job.row] \in Prediction
    BY <1>0, <2>1
  <2>3. preds' = [preds EXCEPT ![job.by] = [preds[job.by] EXCEPT ![job.row] =
                    [preds[job.by][job.row] EXCEPT !.tries = preds[job.by][job.row].tries,
                                                   !.row = "PROCESSED"]]]
    BY <1>0, <1>5, <2>1, <2>2 DEF Mark, Marks, Prediction
  <2> QED
    BY <1>4, <2>1, <2>3
<1>6. CASE JobRaises
  <2> DEFINE tries == preds[job.by][job.row].tries + 1
             row == IF tries >= MaxTries THEN "DEAD" ELSE "PENDING"
  <2>1. job.by \in Artifacts /\ job.row \in DOMAIN preds[job.by] /\ job.step # "idle"
    BY <1>6 DEF JobRaises, JobAtWork
  <2>2. preds[job.by] \in Seq(Prediction) /\ preds[job.by][job.row] \in Prediction
    BY <1>0, <2>1
  <2>3. preds' = [preds EXCEPT ![job.by][job.row].tries = tries, ![job.by][job.row].row = row]
    BY <1>6 DEF JobRaises
  <2> HIDE DEF tries, row
  <2>4. preds' = [preds EXCEPT ![job.by] = [preds[job.by] EXCEPT ![job.row] =
                    [preds[job.by][job.row] EXCEPT !.tries = tries, !.row = row]]]
    BY <1>0, <2>1, <2>2, <2>3 DEF Prediction
  <2> QED
    BY <1>4, <2>1, <2>4
<1>7. "job" \in Writers
  BY DEF Writers
<1> QED
  BY <1>1, <1>2, <1>3, <1>5, <1>6, <1>7
  DEF Next, vars, proofVars, OutboxStep, LoadStep, Tick, Killed, Register, Train, LookToDelete, Delete,
      Evaluate, StartActivation, CommitActivation, RefuseActivation, Review, Flush, LookUp, CheckLog,
      ReadBytes, Put, Served

\* What came of the proofs: nothing before they were complete; the job that is about to activate
\* is the one that found the proof; and what the log says was activated had been attempted.
Noted ==
  /\ \A a \in Artifacts :
       /\ reg[a].status = "PROVEN" <=> attempt[a] # "none" \/ (job.step = "activate" /\ job.by = a)
       /\ Used(a) => attempt[a] = "attempted"
  /\ job.step = "activate" => attempt[job.by] = "none"
  /\ job.step = "commit" => attempt[job.by] = "attempted"

\* An event other than an activation makes nothing used.
LEMMA UsedKept ==
  ASSUME TypeOK, NEW a \in Artifacts,
         log' = log \/ \E e \in Event : log' = Append(log, e) /\ (e.event = "ACTIVATED" => e.by # a),
         Used(a)'
  PROVE  Used(a)
<1>1. PICK k \in DOMAIN log' : log'[k].event = "ACTIVATED" /\ log'[k].by = a
  BY DEF Used
<1>2. ASSUME NEW e \in Event, log' = Append(log, e), e.event = "ACTIVATED" => e.by # a
      PROVE  k \in DOMAIN log /\ log'[k] = log[k]
  <2>1. log \in Seq(Event)
    BY DEF TypeOK
  <2> QED
    BY <1>1, <1>2, <2>1, LogGrows
<1> QED
  BY <1>1, <1>2 DEF Used

\* Steps that leave the proofs, and the job where it is, and activate nothing.
LEMMA NotedUnchanged ==
  ASSUME TypeOK, Noted, UNCHANGED attempt,
         \A a \in Artifacts : reg'[a].status = "PROVEN" <=> reg[a].status = "PROVEN",
         \/ UNCHANGED job
         \/ job.step # "activate" /\ job'.step \notin {"activate", "commit"},
         log' = log \/ \E e \in Event : log' = Append(log, e) /\ e.event # "ACTIVATED"
  PROVE  Noted'
<1>1. \A a \in Artifacts : Used(a)' => Used(a)
  BY UsedKept
<1>2. \A a \in Artifacts : Used(a)' => attempt'[a] = "attempted"
  BY <1>1 DEF Noted
<1> QED
  BY <1>2 DEF Noted

\* The job ends, before or after the activation was attempted.
LEMMA NotedInterrupted ==
  ASSUME TypeOK, JobAtWork, Noted, Interrupted, job' = NoJob, UNCHANGED <<reg, log>>
  PROVE  Noted'
<1>1. \A a \in Artifacts : Used(a)' <=> Used(a)
  BY DEF Used
<1>2. NoJob.step = "idle"
  BY DEF NoJob
<1>3. CASE job.step = "activate"
  <2>1. \A b \in Artifacts : attempt'[b] = IF b = job.by THEN "interrupted" ELSE attempt[b]
    BY <1>3, NotesTyped DEF Interrupted, JobAtWork, Attempt, Noted
  <2> QED
    BY <1>1, <1>2, <1>3, <2>1 DEF Noted
<1>4. CASE job.step # "activate"
  BY <1>1, <1>2, <1>4 DEF Interrupted, Noted
<1> QED
  BY <1>3, <1>4

\* A registration is closed as proven by the job that goes on to activate, or notes that it may
\* not (_research_outbox_job).
LEMMA NotedEvaluate ==
  ASSUME TypeOK, Noted, NEW a \in Artifacts, NEW i \in DOMAIN preds[a], Evaluate(a, i)
  PROVE  Noted'
<1>0. reg \in [Artifacts -> Registration] /\ attempt \in [Artifacts -> Attempt] /\ job.step = "idle"
  BY DEF TypeOK, Evaluate
<1>1. job'.by = a /\ job'.step = IF Activates(a) THEN "activate" ELSE "mark"
  BY DEF Evaluate, NoJob
<1>2. \A b \in Artifacts : Used(b)' <=> Used(b)
  BY DEF Evaluate, laneVars, Used
<1>3. \A b \in Artifacts : b # a => reg'[b] = reg[b]
  BY <1>0 DEF Evaluate
<1>4. CASE Proves(a)
  <2>1. reg'[a].status = "PROVEN" /\ attempt[a] = "none"
    BY <1>0, <1>4 DEF Evaluate, Proves, Noted, Registration
  <2>2. CASE auto
    <3>1. job'.step = "activate" /\ attempt' = attempt
      BY <1>1, <1>4, <2>2 DEF Evaluate, Activates
    <3> QED
      BY <1>0, <1>1, <1>2, <1>3, <2>1, <3>1 DEF Noted
  <2>3. CASE ~auto
    <3>1. job'.step = "mark"
      BY <1>1, <2>3 DEF Activates
    <3>2. \A b \in Artifacts : attempt'[b] = IF b = a THEN "off" ELSE attempt[b]
      BY <1>4, <2>1, <2>3, NotesTyped DEF Evaluate, Attempt
    <3> QED
      BY <1>0, <1>2, <1>3, <2>1, <3>1, <3>2 DEF Noted
  <2> QED
    BY <2>2, <2>3
<1>5. CASE ~Proves(a)
  <2>1. job'.step = "mark" /\ attempt' = attempt
    BY <1>1, <1>5 DEF Evaluate, Activates
  <2>2. reg'[a].status = "PROVEN" <=> reg[a].status = "PROVEN"
    BY <1>0, <1>5 DEF Evaluate, Proves, Registration
  <2> QED
    BY <1>0, <1>2, <1>3, <2>1, <2>2 DEF Noted
<1> QED
  BY <1>4, <1>5

\* What is attempted is what was just proven, and what is activated what was attempted
\* (activate_artifact).
LEMMA NotedActivation ==
  ASSUME TypeOK, JobAtWork, Noted, StartActivation \/ CommitActivation
  PROVE  Noted'
<1>0. job \in Job /\ attempt \in [Artifacts -> Attempt] /\ log \in Seq(Event)
  BY DEF TypeOK
<1>1. CASE StartActivation
  <2>1. job.by \in Artifacts /\ job.step = "activate" /\ attempt[job.by] = "none"
    BY <1>1 DEF StartActivation, JobAtWork, Noted
  <2>2. \A b \in Artifacts : attempt'[b] = IF b = job.by THEN "attempted" ELSE attempt[b]
    BY <1>1, <2>1, NotesTyped DEF StartActivation, Attempt
  <2>3. job'.by = job.by /\ job'.step # "activate"
    BY <1>0, <1>1 DEF StartActivation, Goes, Job
  <2>4. \A b \in Artifacts : reg'[b] = reg[b] /\ (Used(b)' <=> Used(b))
    BY <1>1 DEF StartActivation, laneVars, Used
  <2> QED
    BY <2>1, <2>2, <2>3, <2>4 DEF Noted
<1>2. CASE CommitActivation
  <2> DEFINE e == [event |-> "ACTIVATED", by |-> job.by, at |-> job.now]
  <2>1. job.by \in Artifacts /\ job.step = "commit" /\ attempt[job.by] = "attempted"
    BY <1>2 DEF CommitActivation, JobAtWork, Noted
  <2>2. e \in Event /\ log' = Append(log, e) /\ e.by = job.by
    BY <1>0, <1>2, <2>1 DEF CommitActivation, Logs, Event, Job
  <2> HIDE DEF e
  <2>3. \A b \in Artifacts : b # job.by /\ Used(b)' => Used(b)
    BY <2>2, UsedKept
  <2>4. job'.step \notin {"activate", "commit"}
    BY <1>0, <1>2 DEF CommitActivation, Goes, Job
  <2>5. UNCHANGED <<reg, attempt>>
    BY <1>2 DEF CommitActivation, proofVars
  <2>6. \A b \in Artifacts : Used(b)' => attempt'[b] = "attempted"
    BY <2>1, <2>3, <2>5 DEF Noted
  <2> QED
    BY <2>1, <2>4, <2>5, <2>6 DEF Noted
<1> QED
  BY <1>1, <1>2

LEMMA NotedKept ==
  ASSUME LaneInv, Noted, [Next]_vars
  PROVE  Noted'
<1>0. TypeOK /\ JobAtWork /\ Flushing /\ job \in Job /\ reg \in [Artifacts -> Registration]
  BY DEF LaneInv, TypeOK
<1>1. ASSUME UNCHANGED <<attempt, reg, job>>,
             log' = log \/ \E e \in Event : log' = Append(log, e) /\ e.event # "ACTIVATED"
      PROVE  Noted'
  BY <1>0, <1>1, NotedUnchanged
<1>2. ASSUME UNCHANGED <<attempt, reg, log>>, job.step # "activate", job'.step \notin {"activate", "commit"}
      PROVE  Noted'
  BY <1>0, <1>2, NotedUnchanged
<1>3. ASSUME NEW a \in Artifacts, Register(a) PROVE Noted'
  <2>1. \A b \in Artifacts : reg'[b].status = "PROVEN" <=> reg[b].status = "PROVEN"
    BY <1>0, <1>3 DEF Register
  <2> QED
    BY <1>0, <1>3, <2>1, NotedUnchanged DEF Register, laneVars
<1>4. ASSUME NEW kind \in {"proven", "research"}, Train(kind) PROVE Noted'
  <2>1. CASE kind = "proven" /\ Last.event = "ACTIVATED"
    <3>1. [event |-> "SUPERSEDED", by |-> Last.by, at |-> clock] \in Event
      BY <1>0, <2>1, LastActivated DEF TypeOK, Event
    <3> QED
      BY <1>1, <1>4, <2>1, <3>1 DEF Train, Logs, proofVars
  <2>2. CASE ~(kind = "proven" /\ Last.event = "ACTIVATED")
    BY <1>1, <1>4, <2>2 DEF Train, proofVars
  <2> QED
    BY <2>1, <2>2
<1>5. ASSUME NEW degraded \in BOOLEAN, Review(degraded) PROVE Noted'
  <2>1. [event |-> "ROLLED_BACK", by |-> Last.by, at |-> clock] \in Event
    BY <1>0, <1>5, LastActivated DEF Review, TypeOK, Event
  <2> QED
    BY <1>1, <1>5, <2>1 DEF Review, Logs, proofVars
<1>6. CASE RefuseActivation \/ Mark
  <2>1. job.step # "activate" /\ job'.step \notin {"activate", "commit"}
    BY <1>0, <1>6 DEF RefuseActivation, Mark, Goes, Job, NoJob
  <2> QED
    BY <1>2, <1>6, <2>1 DEF RefuseActivation, Mark, proofVars, laneVars
<1>7. CASE JobRaises
  BY <1>0, <1>7, NotedInterrupted DEF JobRaises, laneVars
<1>8. CASE Killed
  BY <1>0, <1>1, <1>8, NotedInterrupted DEF Killed, JobDies, laneVars
<1>9. ASSUME NEW w \in Writers, Flush(w) PROVE Noted'
  <2>1. CASE w = "job"
    <3>1. job.step = "flush" /\ job'.step = "mark"
      BY <1>0, <1>9, <2>1 DEF Flush, Flushing, Goes, Job
    <3> QED
      BY <1>2, <1>9, <3>1 DEF Flush, proofVars, laneVars
  <2>2. CASE w # "job"
    BY <1>1, <1>9, <2>2 DEF Flush, proofVars, laneVars
  <2> QED
    BY <2>1, <2>2
<1>10. ASSUME NEW a \in Artifacts,
              \/ Issue(a)
              \/ \E i \in DOMAIN preds[a], o \in {"WIN", "LOSS", "INVALID"} : Resolve(a, i, o)
       PROVE  Noted'
  BY <1>1, <1>10 DEF Issue, Resolve, laneVars
<1>11. CASE Tick \/ LookToDelete \/ Delete \/ LoadStep \/ UNCHANGED vars
  BY <1>1, <1>11
  DEF Tick, LookToDelete, Delete, LoadStep, LookUp, CheckLog, ReadBytes, Put, Served, vars, proofVars, laneVars
<1>12. "job" \in Writers
  BY DEF Writers
<1> QED
  BY <1>0, <1>3, <1>4, <1>5, <1>6, <1>7, <1>8, <1>9, <1>10, <1>11, <1>12, NotedEvaluate, NotedActivation
  DEF Next, OutboxStep

\* A registration is proven by an evaluation.
LEMMA NewlyProven ==
  ASSUME TypeOK, [Next]_vars, NEW a \in Artifacts, reg'[a].status = "PROVEN", reg[a].status # "PROVEN"
  PROVE  UNCHANGED preds /\ Status(a) = "PROVEN"
<1>0. reg \in [Artifacts -> Registration]
  BY DEF TypeOK
<1>1. ~UNCHANGED reg
  OBVIOUS
<1>2. ASSUME NEW b \in Artifacts, Register(b) PROVE FALSE
  BY <1>0, <1>2 DEF Register
<1>3. ASSUME NEW b \in Artifacts, NEW i \in DOMAIN preds[b], Evaluate(b, i)
      PROVE  UNCHANGED preds /\ Status(a) = "PROVEN"
  <2>1. reg[b].status = "COLLECTING" /\ reg' = [reg EXCEPT ![b].status = Status(b)]
    BY <1>1, <1>3 DEF Evaluate
  <2>2. a = b
    BY <1>0, <2>1
  <2>3. Status(b) = "PROVEN"
    BY <1>0, <2>1, <2>2 DEF Registration
  <2> QED
    BY <1>3, <2>2, <2>3 DEF Evaluate
<1>4. "job" \in Writers
  BY DEF Writers
<1> QED
  BY <1>1, <1>2, <1>3, <1>4
  DEF Next, vars, proofVars, OutboxStep, LoadStep, Tick, Killed, JobRaises, Issue, Resolve, Train,
      LookToDelete, Delete, StartActivation, CommitActivation, RefuseActivation, Mark, Review, Flush,
      LookUp, CheckLog, ReadBytes, Put, Served

\* What the proofs rest on.
Sampled == \A a \in Artifacts : reg[a].status = "PROVEN" => ProvenBy(preds[a])

LEMMA SampledKept ==
  ASSUME LaneInv, TypeOK', Sampled, [Next]_vars
  PROVE  Sampled'
<1>0. TypeOK /\ JobAtWork
  BY DEF LaneInv
<1> SUFFICES ASSUME NEW a \in Artifacts, reg'[a].status = "PROVEN"
             PROVE  ProvenBy(preds'[a])
  BY DEF Sampled, ProvenBy, FirstOf, Counted, Wins
<1>1. preds[a] \in Seq(Prediction) /\ preds'[a] \in Seq(Prediction)
  BY <1>0 DEF TypeOK
<1>2. PICK p \in Seq(Prediction), q \in Seq(Prediction) : p = preds[a] /\ q = preds'[a]
  BY <1>1
<1>3. CASE reg[a].status = "PROVEN"
  <2>1. ProvenBy(p)
    BY <1>2, <1>3 DEF Sampled
  <2>2. Grown(p, q)
    BY <1>0, <1>2, <1>3, PredsGrow
  <2>3. ProvenBy(q)
    BY <2>1, <2>2, ProofStands DEF Grown
  <2> QED
    BY <1>2, <2>3
<1>4. CASE reg[a].status # "PROVEN"
  <2>1. preds'[a] = preds[a] /\ Status(a) = "PROVEN"
    BY <1>0, <1>4, NewlyProven
  <2>2. ProvenBy(preds[a])
    BY <1>1, <2>1, StatusProves
  <2> QED
    BY <1>2, <2>1, <2>2
<1> QED
  BY <1>3, <1>4

\* In whatever order outcomes arrive and whatever fails, a registration is proven by the first
\* SampleSize valid predictions after it, all resolved, and stays so; a proof is passed over only
\* by a job that finds it with activations turned off, or dies or fails before it comes to activate, and is
\* then never activated, even when the switch is turned on (evaluate_forward_experiment,
\* _research_outbox_job, activate_artifact).
THEOREM ProvenBySample == Spec => []ProofHolds
<1>1. Init => Sampled /\ Noted
  <2> SUFFICES ASSUME Init PROVE Sampled /\ Noted
    OBVIOUS
  <2>1. PICK s \in Starts : reg = s.reg /\ preds = s.preds /\ log = s.log
    BY DEF Init
  <2>2. Sampled
    BY <2>1, StartsAssumption DEF Sampled
  <2>3. \A a \in Artifacts : Used(a) => reg[a].status = "PROVEN"
    BY <2>1, StartsAssumption DEF Used
  <2>4. \A a \in Artifacts : attempt[a] = IF reg[a].status = "PROVEN" THEN "attempted" ELSE "none"
    BY DEF Init
  <2>5. job.step = "idle"
    BY DEF Init, NoJob
  <2> QED
    BY <2>2, <2>3, <2>4, <2>5 DEF Noted
<1>2. LaneInv /\ LaneInv' /\ Sampled /\ Noted /\ [Next]_vars => Sampled' /\ Noted'
  BY SampledKept, NotedKept DEF LaneInv
<1>3. Sampled /\ Noted => ProofHolds
  BY DEF Sampled, Noted, ProofHolds
<1> QED
  BY <1>1, <1>2, <1>3, LaneInvHolds, PTL DEF Spec
=============================================================================
