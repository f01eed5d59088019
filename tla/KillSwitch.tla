----------------------------- MODULE KillSwitch -----------------------------
(***************************************************************************)
(* The engine's kill switch: every prediction cycle judges the recent      *)
(* outcomes and pauses issuance, for a cooldown or latched until a human   *)
(* resumes it.  A pause stops the picks that would be its next evidence.   *)
(*                                                                         *)
(* Cycles of different processes, every reader of the pause (each clears   *)
(* one that is due, in a transaction of its own) and the operator share    *)
(* the keys of ghost_state.  Time is kept as ages and remaining times.     *)
(***************************************************************************)
EXTENDS Integers, Sequences, SequencesExt, FiniteSetsExt

CONSTANTS
  Cycles,      \* prediction cycles, one of each process (_PREDICTION_CYCLE_LOCK)
  Readers,     \* dashboards and other callers of engine_pause_state
  KillWindow,  \* outcomes the latching conditions are judged over
  Floor,       \* losses among them that trip
  Streak,      \* losses in a row that trip the cooldown
  MinSamples,  \* outcomes below which a streak is not judged
  Recency,     \* KILL_RECENCY_DAYS
  KillCooldown, \* KILL_COOLDOWN_MINUTES
  Grace,       \* the grace after a resume
  Unset,       \* no time
  MaxPicks, MaxOpen, MaxFaults   \* bounds

ASSUME KillAssumption ==
  /\ {KillWindow, Floor, Streak, MinSamples, Recency, KillCooldown, Grace, MaxPicks, MaxOpen} \subseteq Nat \ {0}
  /\ MaxFaults \in Nat
  /\ IsFiniteSet(Cycles)
  /\ {Streak, MinSamples} \subseteq 1..KillWindow /\ Unset \notin Int

VARIABLES
  evidence,   \* the resolved picks that count: not too old, no more than are read
  unresolved, \* picks not resolved
  issued,     \* picks ever issued
  pause,      \* engine_paused and the keys with it
  resume,     \* engine_pause_resume_ts and engine_pause_grace_until
  cycle,      \* [Cycles -> where a cycle is and what it has read]
  reader,     \* [Readers -> about to clear a pause that was due]
  redIssues,  \* history: picks issued since the conditions trip
  faults      \* failures of the database, and resumes by the operator

killVars == <<evidence, unresolved, issued, pause, resume, cycle, reader, redIssues, faults>>

Conditions == {"hard", "streak"}
Outcome == [result : {"WIN", "LOSS"}, age : 0..(Recency - 1)]
Pause == [on : BOOLEAN, latched : BOOLEAN, timer : {Unset} \cup 0..KillCooldown]
Resumed == [age : {Unset} \cup 0..Grace, grace : BOOLEAN]
CycleSteps == {"idle", "grace", "prev", "autoclear", "clear", "write", "save"}
CycleRecord == [step : CycleSteps, tripped : SUBSET Conditions, evident : BOOLEAN, paused : BOOLEAN]

NoPause == [on |-> FALSE, latched |-> FALSE, timer |-> Unset]
IdleCycle == [step |-> "idle", tripped |-> {}, evident |-> FALSE, paused |-> FALSE]

KillInit ==
  /\ evidence = <<>> /\ unresolved = 0 /\ issued = 0
  /\ pause = NoPause
  /\ resume = [age |-> Unset, grace |-> FALSE]
  /\ cycle = [c \in Cycles |-> IdleCycle]
  /\ reader = [r \in Readers |-> "idle"]
  /\ redIssues = 0 /\ faults = 0

Fault == faults < MaxFaults /\ faults' = faults + 1
NoFault == UNCHANGED faults

Losses(rows) == Cardinality({i \in DOMAIN rows : rows[i].result = "LOSS"})
Newest(rows, n) == SubSeq(rows, Max({1, Len(rows) - n + 1}), Len(rows))

\* The conditions of evaluate_kill_conditions: those over a window (win rate, Brier,
\* expectancy) are one here, and need the window full.
Trips(rows) ==
  {k \in Conditions :
    \/ k = "hard" /\ Len(rows) >= KillWindow /\ Losses(Newest(rows, KillWindow)) >= Floor
    \/ k = "streak" /\ Len(rows) >= Max({Streak, MinSamples}) /\ Losses(Newest(rows, Streak)) = Streak}

InGrace == resume.grace /\ resume.age < Grace
Red == Trips(evidence) # {} /\ ~InGrace
Due == pause.on /\ pause.timer = 0

\* Every action ends with the count of the picks issued in spite of the outcomes.
Tracks == redIssues' = IF Red' THEN redIssues + (issued' - issued) ELSE 0

\* _clear_engine_pause deletes the grace with the rest.
Cleared == pause' = NoPause /\ resume' = [resume EXCEPT !.grace = FALSE]

-----------------------------------------------------------------------------
(* enforce_kill_conditions, at the start of a cycle.                       *)

\* The resume window counts while the grace lasts; without it the key is deleted.
Forgotten == IF resume.age # Unset /\ ~InGrace THEN [age |-> Unset, grace |-> FALSE] ELSE resume

\* The tighter of the two floors.
Admissible ==
  IF InGrace THEN SelectSeq(evidence, LAMBDA o : o.age <= resume.age) ELSE evidence

Judged == Trips(Admissible)

StepsTo(c, step) == cycle' = [cycle EXCEPT ![c].step = step]
Ends(c, paused) == cycle' = [cycle EXCEPT ![c] = [IdleCycle EXCEPT !.step = "save", !.paused = paused]]

Evaluate(c) ==
  /\ cycle[c].step = "idle"
  /\ resume' = Forgotten
  /\ cycle' = [cycle EXCEPT ![c] = [step |-> IF Judged = {} THEN "prev" ELSE "grace", tripped |-> Judged,
                                    evident |-> Judged = {} /\ Admissible # <<>>, paused |-> FALSE]]
  /\ UNCHANGED <<evidence, unresolved, issued, pause, reader, faults>>
  /\ Tracks

\* The outcomes cannot be read: only the recorded pause counts, if it is not due, and
\* when that cannot be read or cleared the cycle fails closed.
EvaluateFails(c) ==
  /\ cycle[c].step = "idle"
  /\ \/ resume' = Forgotten /\ UNCHANGED pause /\ Ends(c, TRUE)
     \/ ~Due /\ resume' = Forgotten /\ UNCHANGED pause /\ Ends(c, pause.on)
     \/ Due /\ resume' = [Forgotten EXCEPT !.grace = FALSE] /\ pause' = NoPause /\ Ends(c, FALSE)
  /\ Fault
  /\ UNCHANGED <<evidence, unresolved, issued, reader>>
  /\ Tracks

\* A resume is not undone at once.
CheckGrace(c) ==
  /\ cycle[c].step = "grace"
  /\ IF InGrace THEN Ends(c, FALSE) ELSE StepsTo(c, "prev")
  /\ UNCHANGED <<evidence, unresolved, issued, pause, resume, reader, faults>>
  /\ Tracks

\* Mutant: a latch stands until a human lifts it.
Holds_Latched(c, latched) == latched

\* A latch stands while there is any evidence to look at.
Holds(c, latched) == latched /\ cycle[c].evident

\* What follows the read of the pause: it is written, cleared, or left.
After(c, on, latched) ==
  CASE cycle[c].tripped # {} -> StepsTo(c, "write")
    [] cycle[c].tripped = {} /\ on /\ ~Holds(c, latched) -> StepsTo(c, "clear")
    [] cycle[c].tripped = {} /\ on /\ Holds(c, latched) -> Ends(c, TRUE)
    [] OTHER -> Ends(c, FALSE)

ReadPrev(c) ==
  /\ cycle[c].step = "prev"
  /\ IF Due THEN StepsTo(c, "autoclear") ELSE After(c, pause.on, pause.latched)
  /\ UNCHANGED <<evidence, unresolved, issued, pause, resume, reader, faults>>
  /\ Tracks

AutoClear(c) ==
  /\ cycle[c].step = "autoclear"
  /\ Cleared
  /\ After(c, FALSE, FALSE)
  /\ UNCHANGED <<evidence, unresolved, issued, reader, faults>>
  /\ Tracks

Clear(c) ==
  /\ cycle[c].step = "clear"
  /\ \/ Cleared /\ Ends(c, FALSE) /\ NoFault
     \/ UNCHANGED <<pause, resume>> /\ Ends(c, TRUE) /\ Fault
  /\ UNCHANGED <<evidence, unresolved, issued, reader>>
  /\ Tracks

\* Mutant: the timer of an earlier cooldown is left in place.
Written_KeepsTimer(tripped) ==
  [on |-> TRUE, latched |-> tripped # {"streak"}, timer |-> IF tripped = {"streak"} THEN KillCooldown ELSE pause.timer]

\* A streak alone is a cooldown, with a timer and no latch, even over a latch.
Written(tripped) ==
  [on |-> TRUE, latched |-> tripped # {"streak"}, timer |-> IF tripped = {"streak"} THEN KillCooldown ELSE Unset]

\* The write is one transaction; when it fails this cycle stays paused all the same.
WritePause(c) ==
  /\ cycle[c].step = "write"
  /\ \/ pause' = Written(cycle[c].tripped) /\ NoFault
     \/ UNCHANGED pause /\ Fault
  /\ Ends(c, TRUE)
  /\ UNCHANGED <<evidence, unresolved, issued, resume, reader>>
  /\ Tracks

-----------------------------------------------------------------------------
(* The save transaction of the cycle, with strict_issuance_block.          *)

\* strict_issuance_block lets a cooldown that is over go, not a latch; it keeps the grace.
Lapsed == Due /\ ~pause.latched

\* Mutant: only the recorded pause counts.
Suppressed_Recorded(c) == pause.on /\ ~Lapsed

Suppressed(c) == cycle[c].paused \/ (pause.on /\ ~Lapsed)

Save(c) ==
  /\ cycle[c].step = "save"
  /\ pause' = IF Lapsed THEN NoPause ELSE pause
  /\ \/ /\ ~Suppressed(c) /\ issued < MaxPicks /\ unresolved < MaxOpen
        /\ unresolved' = unresolved + 1 /\ issued' = issued + 1
     \/ UNCHANGED <<unresolved, issued>>
  /\ cycle' = [cycle EXCEPT ![c] = IdleCycle]
  /\ UNCHANGED <<evidence, resume, reader, faults>>
  /\ Tracks

-----------------------------------------------------------------------------
(* Readers, the operator, the market and time.                             *)

\* engine_pause_state: a timer that is over, whatever the latch says.
Look(r) ==
  /\ reader[r] = "idle" /\ Due
  /\ reader' = [reader EXCEPT ![r] = "clear"]
  /\ UNCHANGED <<evidence, unresolved, issued, pause, resume, cycle, faults>>
  /\ Tracks

LookClears(r) ==
  /\ reader[r] = "clear"
  /\ Cleared
  /\ reader' = [reader EXCEPT ![r] = "idle"]
  /\ UNCHANGED <<evidence, unresolved, issued, cycle, faults>>
  /\ Tracks

\* resume_engine
Resume ==
  /\ pause' = NoPause
  /\ resume' = [age |-> 0, grace |-> TRUE]
  /\ Fault
  /\ UNCHANGED <<evidence, unresolved, issued, cycle, reader>>
  /\ Tracks

Resolve ==
  /\ unresolved > 0 /\ unresolved' = unresolved - 1
  /\ \E result \in {"WIN", "LOSS"} : evidence' = Newest(Append(evidence, [result |-> result, age |-> 0]), KillWindow)
  /\ UNCHANGED <<issued, pause, resume, cycle, reader, faults>>
  /\ Tracks

\* The oldest outcomes leave the read.
TimeGoes ==
  /\ \E n \in 0..Len(evidence) :
       /\ \A i \in DOMAIN evidence : i <= n <=> evidence[i].age + 1 = Recency
       /\ evidence' = [i \in 1..(Len(evidence) - n) |-> [evidence[n + i] EXCEPT !.age = @ + 1]]
  /\ pause' = IF pause.timer \in {Unset, 0} THEN pause ELSE [pause EXCEPT !.timer = @ - 1]
  /\ resume' = IF resume.age \in {Unset, Grace} THEN resume ELSE [resume EXCEPT !.age = @ + 1]
  /\ <<evidence, pause, resume>>' # <<evidence, pause, resume>>
  /\ UNCHANGED <<unresolved, issued, cycle, reader, faults>>
  /\ Tracks

KillNext ==
  \/ \E c \in Cycles :
       Evaluate(c) \/ EvaluateFails(c) \/ CheckGrace(c) \/ ReadPrev(c) \/ AutoClear(c) \/ Clear(c) \/ WritePause(c) \/ Save(c)
  \/ \E r \in Readers : Look(r) \/ LookClears(r)
  \/ Resume \/ Resolve \/ TimeGoes

KillSpec == KillInit /\ [][KillNext]_killVars

\* The market scan starts cycles again and again, and time goes on.
KillFairSpec ==
  /\ KillSpec
  /\ WF_killVars(TimeGoes)
  /\ \A c \in Cycles :
       /\ WF_killVars(Evaluate(c))
       /\ WF_killVars(CheckGrace(c) \/ ReadPrev(c) \/ AutoClear(c) \/ Clear(c) \/ WritePause(c))
       /\ WF_killVars(Save(c))

-----------------------------------------------------------------------------
(* Properties.                                                             *)

\* Type correctness; without a pause no key of one is left.
KillTypeOK ==
  /\ evidence \in Seq(Outcome) /\ {unresolved, issued} \subseteq 0..MaxPicks
  /\ pause \in Pause /\ (~pause.on => pause = NoPause)
  /\ resume \in Resumed /\ (resume.grace => resume.age # Unset)
  /\ cycle \in [Cycles -> CycleRecord]
  /\ reader \in [Readers -> {"idle", "clear"}]
  /\ redIssues \in 0..MaxPicks /\ faults \in 0..MaxFaults

\* A pause that needs a human never has a timer: the readers of the pause clear one
\* that is due without a look at the latch.
LatchHasNoTimer == pause.latched => pause.timer = Unset

\* Once the outcomes trip a condition, and no grace covers it, each cycle that was
\* already running may still issue its pick, and no other, except when the outcomes
\* could not be read: however the pause is cleared, rewritten, timed out or lost.
RedIssuesBounded == redIssues <= Cardinality(Cycles) + faults

\* The keys of the pause stay one record, though several transactions write and delete
\* them one by one, and what was lost of it does not let picks through.
SwitchHolds == KillTypeOK /\ LatchHasNoTimer /\ RedIssuesBounded

\* The switch never locks itself: a pause suppresses the picks that could change the
\* outcomes it rests on, and yet ends, without a human.
PauseEnds == pause.on ~> ~pause.on
=============================================================================
