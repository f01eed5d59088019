---------------------------- MODULE SwitchProofs ----------------------------
(***************************************************************************)
(* Theorems about the two switches that stop the engine: CircuitBreaker,   *)
(* for every number of threads and every setting of the breaker, and       *)
(* KillSwitch, for every number of processes and dashboards, every window, *)
(* threshold, cooldown and grace.                                          *)
(***************************************************************************)
EXTENDS CircuitBreaker, KillSwitch, SequenceTheorems, FiniteSetTheorems, TLAPS

-----------------------------------------------------------------------------
(* CircuitBreaker.                                                         *)

\* The window of every list moves on with the clock (allow's cutoff).
LEMMA OlderTyped == ASSUME NEW list \in Lists PROVE Older(list) \in Lists
BY BreakerAssumption DEF Lists, Older

\* Putting a new list in place leaves lists and steps behind (allow, reset).
LEMMA ReplacesTyped ==
  ASSUME TypeOK, NEW c, NEW list \in Lists, NEW step \in Steps, Replaces(c, list, step)
  PROVE  /\ stamps' \in Lists /\ old' \in [Callers -> Lists]
         /\ pc' \in [Callers -> Steps]
<1>1. Never \in Lists
  BY DEF Never, Lists
<1>2. pc' \in [Callers -> Steps]
  BY DEF TypeOK, Replaces, Steps
<1>3. old' \in [Callers -> Lists]
  BY <1>1 DEF TypeOK, Replaces
<1> QED
  BY <1>2, <1>3 DEF Replaces

\* The fields of a breaker keep their types under every interleaving of its
\* methods, and only an open circuit has a cooldown (CircuitBreaker).
THEOREM Typed == Spec => []TypeOK
<1>1. Init => TypeOK
  <2>1. Never \in Lists
    BY DEF Never, Lists
  <2> SUFFICES ASSUME Init PROVE TypeOK
    OBVIOUS
  <2>2. open \in BOOLEAN
    BY DEF Init
  <2>3. /\ left \in 0..Cooldown /\ left = 0
        /\ probes \in 0..HalfOpenMax /\ failures \in 0..Threshold
    BY BreakerAssumption DEF Init
  <2>4. stamps \in Lists /\ old \in [Callers -> Lists] /\ pc \in [Callers -> Steps]
    BY <2>1 DEF Init, Steps
  <2> QED
    BY <2>2, <2>3, <2>4 DEF TypeOK
<1>2. TypeOK /\ [Next]_vars => TypeOK'
  <2> SUFFICES ASSUME TypeOK, [Next]_vars PROVE TypeOK'
    OBVIOUS
  <2> USE BreakerAssumption
  <2>1. CASE Tick
    <3>1. /\ left' \in 0..Cooldown /\ (open' = FALSE => left' = 0)
      BY <2>1 DEF Tick, TypeOK
    <3>2. stamps' \in Lists /\ old' \in [Callers -> Lists]
      BY <2>1, OlderTyped DEF Tick, TypeOK
    <3> QED
      BY <2>1, <3>1, <3>2 DEF Tick, TypeOK
  <2>2. CASE Reset
    <3>1. open' \in BOOLEAN
      BY <2>2 DEF Reset
    <3>2. left' \in 0..Cooldown /\ left' = 0
      BY <2>2 DEF Reset
    <3>3. probes' \in 0..HalfOpenMax /\ failures' \in 0..Threshold
      BY <2>2 DEF Reset
    <3>4. stamps' \in Lists /\ old' \in [Callers -> Lists] /\ pc' \in [Callers -> Steps]
      <4>1. Never \in Lists /\ "idle" \in Steps
        BY DEF Never, Lists, Steps
      <4> QED
        BY <2>2, <4>1, ReplacesTyped DEF Reset
    <3> QED
      BY <3>1, <3>2, <3>3, <3>4 DEF TypeOK
  <2>3. ASSUME NEW c \in Callers, Ask(c) PROVE TypeOK'
    <3>1. open' \in BOOLEAN /\ (open' = FALSE => left' = 0)
      BY <2>3 DEF Ask, TypeOK
    <3>2. left' \in 0..Cooldown /\ failures' \in 0..Threshold
      BY <2>3 DEF Ask, TypeOK
    <3>3. probes' \in 0..HalfOpenMax
      BY <2>3 DEF Ask, HalfOpen, TypeOK
    <3>4. stamps' \in Lists /\ old' \in [Callers -> Lists] /\ pc' \in [Callers -> Steps]
      BY <2>3 DEF Ask, Goes, TypeOK, Steps
    <3> QED
      BY <3>1, <3>2, <3>3, <3>4 DEF TypeOK
  <2>4. ASSUME NEW c \in Callers, Count(c) PROVE TypeOK'
    <3> DEFINE list == IF pc[c] = "copying" THEN stamps ELSE old[c]
               step == IF Recent(list) >= RateMax THEN "limiting" ELSE "admitted"
    <3>1. list \in Lists /\ step \in Steps
      BY DEF TypeOK, Steps
    <3>2. Replaces(c, list, step) /\ UNCHANGED <<circuit, failures>>
      BY <2>4 DEF Count
    <3> HIDE DEF list, step
    <3> QED
      BY <3>1, <3>2, ReplacesTyped DEF TypeOK, circuit
  <2>5. ASSUME NEW c \in Callers, Stamp(c) PROVE TypeOK'
    <3>1. stamps' \in Lists
      BY <2>5 DEF Stamp, TypeOK, Lists
    <3> QED
      BY <2>5, <3>1 DEF Stamp, Goes, circuit, TypeOK, Steps
  <2>6. ASSUME NEW c \in Callers, Limit(c) \/ Close(c) \/ Trip(c) PROVE TypeOK'
    <3>1. open' \in BOOLEAN /\ (open' = FALSE => left' = 0)
      BY <2>6 DEF Limit, Close, Trip, OpenAfterTrip
    <3>2. left' \in 0..Cooldown
      BY <2>6 DEF Limit, Close, Trip
    <3>3. probes' \in 0..HalfOpenMax /\ failures' \in 0..Threshold
      BY <2>6 DEF Limit, Close, Trip, FailuresAfterClose, TypeOK
    <3>4. stamps' \in Lists /\ old' \in [Callers -> Lists] /\ pc' \in [Callers -> Steps]
      BY <2>6 DEF Limit, Close, Trip, Goes, TypeOK, Steps
    <3> QED
      BY <3>1, <3>2, <3>3, <3>4 DEF TypeOK
  <2>7. ASSUME NEW c \in Callers, Answer(c) PROVE TypeOK'
    BY <2>7 DEF Answer, Succeeds, Fails, Forgets, Goes, circuit, TypeOK, Steps
  <2>8. CASE UNCHANGED vars
    BY <2>8 DEF vars, TypeOK
  <2> QED
    BY <2>1, <2>2, <2>3, <2>4, <2>5, <2>6, <2>7, <2>8 DEF Next, Work
<1> QED
  BY <1>1, <1>2, PTL DEF Spec

\* The threads that are about to open the circuit.
Tripping == {c \in Callers : pc[c] \in {"tripping", "retripping"}}

\* No interleaving of the methods leaves a circuit closed whose count of
\* consecutive failures has reached the threshold, unless a thread is just about
\* to open it (record_failure, record_success, allow, reset).
THEOREM ThresholdTrips == Spec => []TripsAtThreshold
<1>1. Init => TripsAtThreshold
  BY BreakerAssumption DEF Init, TripsAtThreshold
<1>2. TypeOK /\ TripsAtThreshold /\ [Next]_vars => TripsAtThreshold'
  <2> SUFFICES ASSUME TypeOK, TripsAtThreshold, [Next]_vars, failures' >= Threshold, ~open'
               PROVE  \E c \in Callers : pc'[c] \in {"tripping", "retripping"}
    BY DEF TripsAtThreshold
  <2>1. failures >= Threshold => open \/ Tripping # {}
    BY DEF TripsAtThreshold, Tripping
  <2>2. CASE Tick \/ UNCHANGED vars
    BY <2>1, <2>2 DEF Tick, vars, Tripping
  <2>3. CASE Reset
    BY <2>3, BreakerAssumption DEF Reset
  <2>4. ASSUME NEW c \in Callers, Ask(c)
        PROVE  \E d \in Callers : pc'[d] \in {"tripping", "retripping"}
    BY <2>1, <2>4, BreakerAssumption DEF Ask, Goes, HalfOpen, Blocking, TypeOK, Tripping
  <2>5. ASSUME NEW c \in Callers, Count(c)
        PROVE  \E d \in Callers : pc'[d] \in {"tripping", "retripping"}
    BY <2>1, <2>5 DEF Count, Replaces, circuit, TypeOK, Tripping
  <2>6. ASSUME NEW c \in Callers, Stamp(c) \/ Limit(c)
        PROVE  \E d \in Callers : pc'[d] \in {"tripping", "retripping"}
    BY <2>1, <2>6 DEF Stamp, Limit, Goes, circuit, TypeOK, Tripping
  <2>7. ASSUME NEW c \in Callers, Close(c) \/ Trip(c) PROVE FALSE
    BY <2>7, BreakerAssumption DEF Close, FailuresAfterClose, Trip, OpenAfterTrip
  <2>8. ASSUME NEW c \in Callers, Answer(c)
        PROVE  \E d \in Callers : pc'[d] \in {"tripping", "retripping"}
    BY <2>1, <2>8, BreakerAssumption
    DEF Answer, Succeeds, Fails, Forgets, Goes, circuit, TypeOK, Tripping
  <2> QED
    BY <2>2, <2>3, <2>4, <2>5, <2>6, <2>7, <2>8 DEF Next, Work
<1> QED
  BY <1>1, <1>2, Typed, PTL DEF Spec

\* Through every interleaving of the methods the fields keep their types, only an
\* open circuit has a cooldown, and the threshold opens it (CircuitBreaker).
THEOREM BreakerCorrect == Spec => []BreakerHolds
<1>1. TypeOK /\ TripsAtThreshold => BreakerHolds
  BY DEF BreakerHolds
<1> QED
  BY <1>1, Typed, ThresholdTrips, PTL

-----------------------------------------------------------------------------
(* KillSwitch.                                                             *)

\* A cycle is doomed when its own judgement, or one it still has to record, keeps
\* its pick back (enforce_kill_conditions, run_prediction_cycle).
Doomed(c) ==
  \/ cycle[c].step = "save" /\ cycle[c].paused
  \/ cycle[c].step \in {"grace", "prev", "autoclear", "write"} /\ cycle[c].tripped # {}

\* The cycles that may still issue a pick whatever the outcomes say.
MayIssue == {c \in Cycles : cycle[c].step # "idle" /\ ~Doomed(c)}

\* Once the outcomes trip, what was issued since and what may still be are the
\* cycles that were under way, and one for each failed read.
RedIsPaid ==
  /\ redIssues <= issued /\ unresolved <= issued
  /\ Red => redIssues + Cardinality(MayIssue) <= Cardinality(Cycles) + faults
  /\ ~Red => redIssues = 0

SwitchInv == SwitchHolds /\ RedIsPaid

\* The types of the constants, one by one.
LEMMA KillConstants ==
  /\ KillWindow \in Nat \ {0} /\ Recency \in Nat \ {0} /\ KillCooldown \in Nat \ {0}
  /\ Grace \in Nat \ {0} /\ MaxPicks \in Nat \ {0} /\ MaxOpen \in Nat \ {0}
  /\ MaxFaults \in Nat /\ Unset \notin Int
BY KillAssumption

\* The newest rows are rows (evaluate_kill_conditions, the LIMIT of its query).
LEMMA NewestTyped ==
  ASSUME NEW rows \in Seq(Outcome), NEW n \in Nat
  PROVE  Newest(rows, n) \in Seq(Outcome)
<1> DEFINE first == Max({1, Len(rows) - n + 1})
<1>1. first \in Int /\ first >= 1
  <2>1. PICK x \in {1, Len(rows) - n + 1} : \A y \in {1, Len(rows) - n + 1} : x >= y
    <3>1. CASE 1 >= Len(rows) - n + 1
      BY <3>1
    <3>2. CASE ~(1 >= Len(rows) - n + 1)
      BY <3>2
    <3> QED
      BY <3>1, <3>2
  <2>2. first \in {1, Len(rows) - n + 1} /\ \A y \in {1, Len(rows) - n + 1} : first >= y
    BY <2>1 DEF Max
  <2> QED
    BY <2>2
<1>2. \A i \in first..Len(rows) : rows[i] \in Outcome
  BY <1>1
<1> HIDE DEF first
<1>3. SubSeq(rows, first, Len(rows)) \in Seq(Outcome)
  BY <1>1, <1>2, SubSeqProperties
<1> QED
  BY <1>3 DEF Newest, first

\* A step of a cycle changes its own record only.
LEMMA CycleTyped ==
  ASSUME KillTypeOK, NEW c \in Cycles, NEW rec \in CycleRecord,
         cycle' = [cycle EXCEPT ![c] = rec]
  PROVE  cycle' \in [Cycles -> CycleRecord]
BY DEF KillTypeOK

\* The two ways a step of a cycle leaves it.
LEMMA CycleMoves ==
  ASSUME KillTypeOK, NEW c \in Cycles, NEW step \in CycleSteps, NEW paused \in BOOLEAN,
         StepsTo(c, step) \/ Ends(c, paused)
  PROVE  /\ cycle' \in [Cycles -> CycleRecord]
         /\ \A d \in Cycles \ {c} : cycle'[d] = cycle[d]
<1>1. CASE StepsTo(c, step)
  BY <1>1 DEF KillTypeOK, StepsTo, CycleRecord
<1>2. CASE Ends(c, paused)
  BY <1>2 DEF KillTypeOK, Ends, CycleRecord, IdleCycle, CycleSteps
<1> QED
  BY <1>1, <1>2

\* What follows the read of the pause moves one cycle (enforce_kill_conditions).
LEMMA AfterMoves ==
  ASSUME KillTypeOK, NEW c \in Cycles, NEW on, NEW latched, After(c, on, latched)
  PROVE  /\ cycle' \in [Cycles -> CycleRecord]
         /\ \A d \in Cycles \ {c} : cycle'[d] = cycle[d]
         /\ cycle[c].tripped # {} => cycle'[c] = [cycle[c] EXCEPT !.step = "write"]
<1>1. \/ StepsTo(c, "write") \/ StepsTo(c, "clear") \/ Ends(c, TRUE) \/ Ends(c, FALSE)
  BY DEF After
<1>2. {"write", "clear"} \subseteq CycleSteps
  BY DEF CycleSteps
<1>3. /\ cycle' \in [Cycles -> CycleRecord]
      /\ \A d \in Cycles \ {c} : cycle'[d] = cycle[d]
  BY <1>1, <1>2, CycleMoves, Zenon
<1>4. ASSUME cycle[c].tripped # {} PROVE cycle'[c] = [cycle[c] EXCEPT !.step = "write"]
  <2>1. StepsTo(c, "write")
    BY <1>4 DEF After
  <2> QED
    BY <2>1 DEF StepsTo, KillTypeOK
<1> QED
  BY <1>3, <1>4

\* Deleting the pause (_clear_engine_pause).
LEMMA ClearedTyped ==
  ASSUME KillTypeOK, pause' = NoPause, resume' = [resume EXCEPT !.grace = FALSE]
  PROVE  pause' \in Pause /\ (~pause'.on => pause' = NoPause) /\ LatchHasNoTimer'
         /\ resume' \in Resumed /\ (resume'.grace => resume'.age # Unset)
BY DEF KillTypeOK, NoPause, Pause, Resumed, LatchHasNoTimer

\* The keys a resume leaves behind.
LEMMA ForgottenTyped ==
  ASSUME KillTypeOK
  PROVE  Forgotten \in Resumed /\ (Forgotten.grace => Forgotten.age # Unset)
BY DEF KillTypeOK, Forgotten, Resumed

\* Failures are counted up to their bound.
LEMMA FaultTyped ==
  ASSUME KillTypeOK, Fault \/ NoFault
  PROVE  faults' \in 0..MaxFaults /\ (faults' = faults \/ faults' = faults + 1)
BY KillConstants DEF KillTypeOK, Fault, NoFault

\* Everything but the history keeps its type, and a latch has no timer.
Keys ==
  /\ evidence \in Seq(Outcome) /\ {unresolved, issued} \subseteq 0..MaxPicks
  /\ pause \in Pause /\ (~pause.on => pause = NoPause) /\ LatchHasNoTimer
  /\ resume \in Resumed /\ (resume.grace => resume.age # Unset)
  /\ cycle \in [Cycles -> CycleRecord]
  /\ reader \in [Readers -> {"idle", "clear"}]
  /\ faults \in 0..MaxFaults

\* What a judgement records is typed (enforce_kill_conditions).
LEMMA EvaluateKeys ==
  ASSUME SwitchInv, NEW c \in Cycles, Evaluate(c) PROVE Keys'
<1> DEFINE rec == [step |-> IF Judged = {} THEN "prev" ELSE "grace", tripped |-> Judged,
                   evident |-> Judged = {} /\ Admissible # <<>>, paused |-> FALSE]
<1>1. Judged \in SUBSET Conditions
  BY DEF Judged, Trips
<1>2. rec.evident \in BOOLEAN
  OBVIOUS
<1>3. rec \in CycleRecord
  BY <1>1, <1>2 DEF CycleRecord, CycleSteps
<1> HIDE DEF rec
<1>4. cycle' = [cycle EXCEPT ![c] = rec]
  BY DEF Evaluate, rec
<1>5. cycle' \in [Cycles -> CycleRecord]
  BY <1>3, <1>4, CycleTyped DEF SwitchInv, SwitchHolds
<1>6. resume' \in Resumed /\ (resume'.grace => resume'.age # Unset)
  BY ForgottenTyped DEF SwitchInv, SwitchHolds, Evaluate
<1> QED
  BY <1>5, <1>6 DEF SwitchInv, SwitchHolds, KillTypeOK, Keys, Evaluate, LatchHasNoTimer

\* So is what a failed read of the outcomes leaves (engine_pause_state).
LEMMA EvaluateFailsKeys ==
  ASSUME SwitchInv, NEW c \in Cycles, EvaluateFails(c) PROVE Keys'
<1>1. faults' \in 0..MaxFaults
  BY FaultTyped DEF EvaluateFails, SwitchInv, SwitchHolds
<1>2. pause.on \in BOOLEAN
  BY DEF SwitchInv, SwitchHolds, KillTypeOK, Pause
<1>3. cycle' \in [Cycles -> CycleRecord]
  <2>1. PICK paused \in BOOLEAN : Ends(c, paused)
    BY <1>2 DEF EvaluateFails
  <2> QED
    BY <2>1, CycleMoves DEF SwitchInv, SwitchHolds, CycleSteps
<1>4. pause' = NoPause \/ pause' = pause
  BY DEF EvaluateFails
<1>5. resume' \in Resumed /\ (resume'.grace => resume'.age # Unset)
  <2>1. resume' = Forgotten \/ resume' = [Forgotten EXCEPT !.grace = FALSE]
    BY DEF EvaluateFails
  <2> QED
    BY <2>1, ForgottenTyped DEF SwitchInv, SwitchHolds, Resumed
<1>6. pause' \in Pause /\ (~pause'.on => pause' = NoPause) /\ LatchHasNoTimer'
  <2>1. CASE pause' = NoPause
    BY <2>1 DEF NoPause, Pause, LatchHasNoTimer
  <2>2. CASE pause' = pause
    BY <2>2 DEF LatchHasNoTimer, SwitchInv, SwitchHolds, KillTypeOK
  <2> QED
    BY <1>4, <2>1, <2>2
<1> QED
  BY <1>1, <1>3, <1>5, <1>6 DEF SwitchInv, SwitchHolds, KillTypeOK, Keys, EvaluateFails

\* The look at the grace moves one cycle.
LEMMA CheckGraceKeys ==
  ASSUME SwitchInv, NEW c \in Cycles, CheckGrace(c) PROVE Keys'
<1>1. cycle' \in [Cycles -> CycleRecord]
  BY CycleMoves DEF SwitchInv, SwitchHolds, CheckGrace, CycleSteps
<1> QED
  BY <1>1 DEF SwitchInv, SwitchHolds, KillTypeOK, Keys, CheckGrace, LatchHasNoTimer

\* So does the read of the recorded pause.
LEMMA ReadPrevKeys ==
  ASSUME SwitchInv, NEW c \in Cycles, ReadPrev(c) PROVE Keys'
<1>1. StepsTo(c, "autoclear") \/ After(c, pause.on, pause.latched)
  BY DEF ReadPrev
<1>2. cycle' \in [Cycles -> CycleRecord]
  <2>1. CASE StepsTo(c, "autoclear")
    BY <2>1, CycleMoves DEF SwitchInv, SwitchHolds, CycleSteps
  <2>2. CASE After(c, pause.on, pause.latched)
    BY <2>2, AfterMoves DEF SwitchInv, SwitchHolds
  <2> QED
    BY <1>1, <2>1, <2>2
<1> QED
  BY <1>2 DEF SwitchInv, SwitchHolds, KillTypeOK, Keys, ReadPrev, LatchHasNoTimer

\* A pause that is due is cleared whole (_parse_engine_pause_state).
LEMMA AutoClearKeys ==
  ASSUME SwitchInv, NEW c \in Cycles, AutoClear(c) PROVE Keys'
<1>1. cycle' \in [Cycles -> CycleRecord]
  BY AfterMoves DEF SwitchInv, SwitchHolds, AutoClear
<1>2. pause' \in Pause /\ (~pause'.on => pause' = NoPause) /\ LatchHasNoTimer'
      /\ resume' \in Resumed /\ (resume'.grace => resume'.age # Unset)
  BY ClearedTyped DEF SwitchInv, SwitchHolds, AutoClear, Cleared
<1> QED
  BY <1>1, <1>2 DEF SwitchInv, SwitchHolds, KillTypeOK, Keys, AutoClear

\* A recovered pause is cleared whole, or not at all.
LEMMA ClearKeys ==
  ASSUME SwitchInv, NEW c \in Cycles, Clear(c) PROVE Keys'
<1>1. cycle' \in [Cycles -> CycleRecord]
  BY CycleMoves DEF SwitchInv, SwitchHolds, Clear, CycleSteps
<1>2. pause' \in Pause /\ (~pause'.on => pause' = NoPause) /\ LatchHasNoTimer'
      /\ resume' \in Resumed /\ (resume'.grace => resume'.age # Unset)
  <2>1. CASE Cleared
    BY <2>1, ClearedTyped DEF SwitchInv, SwitchHolds, Cleared
  <2>2. CASE UNCHANGED <<pause, resume>>
    BY <2>2 DEF SwitchInv, SwitchHolds, KillTypeOK, LatchHasNoTimer
  <2> QED
    BY <2>1, <2>2 DEF Clear
<1>3. faults' \in 0..MaxFaults
  <2>1. Fault \/ NoFault
    BY DEF Clear
  <2> QED
    BY <2>1, FaultTyped DEF SwitchInv, SwitchHolds
<1> QED
  BY <1>1, <1>2, <1>3 DEF SwitchInv, SwitchHolds, KillTypeOK, Keys, Clear

\* A written pause has a timer or a latch, never both (enforce_kill_conditions).
LEMMA WritePauseKeys ==
  ASSUME SwitchInv, NEW c \in Cycles, WritePause(c) PROVE Keys'
<1>1. cycle' \in [Cycles -> CycleRecord]
  BY CycleMoves DEF SwitchInv, SwitchHolds, WritePause, CycleSteps
<1>2. pause' \in Pause /\ (~pause'.on => pause' = NoPause) /\ LatchHasNoTimer'
  <2>1. CASE pause' = Written(cycle[c].tripped)
    <3> DEFINE cooldown == cycle[c].tripped = {"streak"}
    <3>1. pause' = [on |-> TRUE, latched |-> ~cooldown, timer |-> IF cooldown THEN KillCooldown ELSE Unset]
      BY <2>1 DEF Written
    <3>2. cooldown \in BOOLEAN
      OBVIOUS
    <3> HIDE DEF cooldown
    <3>3. KillCooldown \in 0..KillCooldown
      BY KillConstants
    <3>4. /\ pause'.on = TRUE /\ pause'.latched \in BOOLEAN
          /\ pause'.timer \in {Unset} \cup 0..KillCooldown
          /\ pause'.latched => pause'.timer = Unset
      BY <3>1, <3>2, <3>3
    <3>5. pause' \in Pause
      BY <3>1, <3>2, <3>3 DEF Pause
    <3> QED
      BY <3>4, <3>5 DEF LatchHasNoTimer
  <2>2. CASE UNCHANGED pause
    BY <2>2 DEF SwitchInv, SwitchHolds, KillTypeOK, LatchHasNoTimer
  <2> QED
    BY <2>1, <2>2 DEF WritePause
<1>3. faults' \in 0..MaxFaults
  <2>1. Fault \/ NoFault
    BY DEF WritePause
  <2> QED
    BY <2>1, FaultTyped DEF SwitchInv, SwitchHolds
<1> QED
  BY <1>1, <1>2, <1>3 DEF SwitchInv, SwitchHolds, KillTypeOK, Keys, WritePause

\* The save lets a cooldown that is over go, and issues within the bounds (strict_issuance_block).
LEMMA SaveKeys ==
  ASSUME SwitchInv, NEW c \in Cycles, Save(c) PROVE Keys'
<1>1. cycle' \in [Cycles -> CycleRecord]
  <2>1. IdleCycle \in CycleRecord
    BY DEF IdleCycle, CycleRecord, CycleSteps
  <2> QED
    BY <2>1, CycleTyped DEF SwitchInv, SwitchHolds, Save
<1>2. pause' \in Pause /\ (~pause'.on => pause' = NoPause) /\ LatchHasNoTimer'
  <2>1. CASE pause' = NoPause
    BY <2>1 DEF NoPause, Pause, LatchHasNoTimer
  <2>2. CASE pause' = pause
    BY <2>2 DEF LatchHasNoTimer, SwitchInv, SwitchHolds, KillTypeOK
  <2> QED
    BY <2>1, <2>2 DEF Save
<1>3. {unresolved', issued'} \subseteq 0..MaxPicks
  <2>1. issued \in 0..MaxPicks /\ unresolved \in 0..MaxPicks
    BY DEF SwitchInv, SwitchHolds, KillTypeOK
  <2>2. unresolved <= issued
    BY DEF SwitchInv, RedIsPaid
  <2> QED
    BY <2>1, <2>2, KillConstants DEF Save
<1> QED
  BY <1>1, <1>2, <1>3 DEF SwitchInv, SwitchHolds, KillTypeOK, Keys, Save

\* A reader clears the pause whole (engine_pause_state).
LEMMA ReaderKeys ==
  ASSUME SwitchInv, NEW r \in Readers, Look(r) \/ LookClears(r) PROVE Keys'
<1>1. CASE Look(r)
  BY <1>1 DEF SwitchInv, SwitchHolds, KillTypeOK, Keys, Look, LatchHasNoTimer
<1>2. CASE LookClears(r)
  <2>1. pause' \in Pause /\ (~pause'.on => pause' = NoPause) /\ LatchHasNoTimer'
        /\ resume' \in Resumed /\ (resume'.grace => resume'.age # Unset)
    BY <1>2, ClearedTyped DEF SwitchInv, SwitchHolds, LookClears, Cleared
  <2> QED
    BY <1>2, <2>1 DEF SwitchInv, SwitchHolds, KillTypeOK, Keys, LookClears
<1> QED
  BY <1>1, <1>2

\* So does the operator, who starts a grace (resume_engine).
LEMMA ResumeKeys ==
  ASSUME SwitchInv, Resume PROVE Keys'
<1>1. faults' \in 0..MaxFaults
  BY FaultTyped DEF Resume, SwitchInv, SwitchHolds
<1>2. pause' \in Pause /\ (~pause'.on => pause' = NoPause) /\ LatchHasNoTimer'
  BY DEF Resume, NoPause, Pause, LatchHasNoTimer
<1>3. resume' \in Resumed /\ (resume'.grace => resume'.age # Unset)
  <2>1. 0 \in 0..Grace /\ 0 # Unset
    BY KillConstants
  <2> QED
    BY <2>1 DEF Resume, Resumed
<1> QED
  BY <1>1, <1>2, <1>3 DEF SwitchInv, SwitchHolds, KillTypeOK, Keys, Resume

\* A resolved pick is a row like the others.
LEMMA ResolveKeys ==
  ASSUME SwitchInv, Resolve PROVE Keys'
<1>1. PICK result \in {"WIN", "LOSS"} :
        evidence' = Newest(Append(evidence, [result |-> result, age |-> 0]), KillWindow)
  BY DEF Resolve
<1>2. [result |-> result, age |-> 0] \in Outcome
  <2>1. 0 \in 0..(Recency - 1)
    BY KillConstants
  <2> QED
    BY <2>1 DEF Outcome
<1>3. Append(evidence, [result |-> result, age |-> 0]) \in Seq(Outcome)
  BY <1>2 DEF SwitchInv, SwitchHolds, KillTypeOK
<1>4. evidence' \in Seq(Outcome)
  BY <1>1, <1>3, NewestTyped, KillConstants
<1>5. unresolved' \in 0..MaxPicks
  BY KillConstants DEF SwitchInv, SwitchHolds, KillTypeOK, Resolve
<1> QED
  BY <1>4, <1>5 DEF SwitchInv, SwitchHolds, KillTypeOK, Keys, Resolve, LatchHasNoTimer

\* Rows age until they leave, timers run down to zero and the grace up to its end.
LEMMA TimeGoesKeys ==
  ASSUME SwitchInv, TimeGoes PROVE Keys'
<1>1. evidence' \in Seq(Outcome)
  <2>1. PICK n \in 0..Len(evidence) :
          /\ \A i \in DOMAIN evidence : i <= n <=> evidence[i].age + 1 = Recency
          /\ evidence' = [i \in 1..(Len(evidence) - n) |-> [evidence[n + i] EXCEPT !.age = @ + 1]]
    BY DEF TimeGoes
  <2>2. evidence \in Seq(Outcome) /\ Len(evidence) \in Nat /\ DOMAIN evidence = 1..Len(evidence)
    BY DEF SwitchInv, SwitchHolds, KillTypeOK
  <2>3. ASSUME NEW i \in 1..(Len(evidence) - n)
        PROVE  [evidence[n + i] EXCEPT !.age = @ + 1] \in Outcome
    <3>1. n + i \in DOMAIN evidence /\ ~(n + i <= n)
      BY <2>2
    <3>2. evidence[n + i] \in Outcome
      BY <2>2, <3>1
    <3>3. evidence[n + i].age \in 0..(Recency - 1) /\ evidence[n + i].age + 1 # Recency
      BY <2>1, <3>1, <3>2 DEF Outcome
    <3>4. evidence[n + i].age + 1 \in 0..(Recency - 1)
      BY <3>3, KillConstants
    <3> QED
      BY <3>2, <3>4 DEF Outcome
  <2>4. evidence' \in [1..(Len(evidence) - n) -> Outcome] /\ Len(evidence) - n \in Nat
    BY <2>1, <2>2, <2>3
  <2> QED
    BY <2>4, SeqDef
<1>2. pause' \in Pause /\ (~pause'.on => pause' = NoPause) /\ LatchHasNoTimer'
  <2>1. CASE pause.timer \in {Unset, 0}
    BY <2>1 DEF TimeGoes, LatchHasNoTimer, SwitchInv, SwitchHolds, KillTypeOK
  <2>2. CASE pause.timer \notin {Unset, 0}
    <3>1. pause.timer \in 0..KillCooldown /\ pause.timer # 0 /\ pause.on
      BY <2>2 DEF SwitchInv, SwitchHolds, KillTypeOK, Pause, NoPause
    <3>2. pause.timer - 1 \in 0..KillCooldown
      BY <3>1, KillConstants
    <3> QED
      BY <2>2, <3>1, <3>2 DEF TimeGoes, LatchHasNoTimer, SwitchInv, SwitchHolds, KillTypeOK, Pause
  <2> QED
    BY <2>1, <2>2
<1>3. resume' \in Resumed /\ (resume'.grace => resume'.age # Unset)
  <2>1. CASE resume.age \in {Unset, Grace}
    BY <2>1 DEF TimeGoes, SwitchInv, SwitchHolds, KillTypeOK
  <2>2. CASE resume.age \notin {Unset, Grace}
    <3>1. resume.age \in 0..Grace /\ resume.age # Grace
      BY <2>2 DEF SwitchInv, SwitchHolds, KillTypeOK, Resumed
    <3>2. resume.age + 1 \in 0..Grace /\ resume.age + 1 # Unset
      BY <3>1, KillConstants
    <3> QED
      BY <2>2, <3>2 DEF TimeGoes, SwitchInv, SwitchHolds, KillTypeOK, Resumed
  <2> QED
    BY <2>1, <2>2
<1> QED
  BY <1>1, <1>2, <1>3 DEF SwitchInv, SwitchHolds, KillTypeOK, Keys, TimeGoes

\* A step that issues nothing keeps the account, if every cycle that it lets issue
\* again is paid for by a failure.
LEMMA QuietPays ==
  ASSUME SwitchInv, Tracks, issued' = issued, unresolved' \in Int, unresolved' <= unresolved,
         faults' \in Nat, faults' >= faults,
         Red /\ Red' => Cardinality(MayIssue') <= Cardinality(MayIssue) + (faults' - faults)
  PROVE  RedIsPaid'
<1>1. /\ IsFiniteSet(Cycles) /\ MayIssue' \subseteq Cycles /\ MayIssue \subseteq Cycles
  BY KillAssumption DEF MayIssue
<1>2. /\ Cardinality(MayIssue') \in Nat /\ Cardinality(MayIssue) \in Nat /\ Cardinality(Cycles) \in Nat
      /\ Cardinality(MayIssue') <= Cardinality(Cycles)
  BY <1>1, FS_Subset, FS_CardinalityType
<1>3. redIssues \in Nat /\ issued \in Nat /\ unresolved \in Nat /\ faults \in Nat
  BY DEF SwitchInv, SwitchHolds, KillTypeOK
<1>4. redIssues' = IF Red' THEN redIssues + 0 ELSE 0
  BY <1>3 DEF Tracks
<1>5. redIssues' <= issued' /\ unresolved' <= issued'
  BY <1>3, <1>4 DEF SwitchInv, RedIsPaid
<1>6. ASSUME Red' PROVE redIssues' + Cardinality(MayIssue') <= Cardinality(Cycles) + faults'
  <2>1. CASE Red
    <3>1. redIssues + Cardinality(MayIssue) <= Cardinality(Cycles) + faults
      BY <2>1 DEF SwitchInv, RedIsPaid
    <3>2. Cardinality(MayIssue') <= Cardinality(MayIssue) + (faults' - faults)
      BY <1>6, <2>1
    <3>3. redIssues' = redIssues
      BY <1>3, <1>4, <1>6
    <3> QED
      BY <1>2, <1>3, <3>1, <3>2, <3>3
  <2>2. CASE ~Red
    <3>1. redIssues' = 0
      BY <1>4, <1>6, <2>2 DEF SwitchInv, RedIsPaid
    <3> QED
      BY <1>2, <3>1
  <2> QED
    BY <2>1, <2>2
<1>7. ~Red' => redIssues' = 0
  BY <1>4
<1> QED
  BY <1>5, <1>6, <1>7 DEF RedIsPaid

\* No cycle is let issue again, and what is not a failure costs none.
LEMMA TamePays ==
  ASSUME SwitchInv, Tracks, issued' = issued, unresolved' \in Int, unresolved' <= unresolved,
         faults' = faults \/ faults' = faults + 1,
         Red /\ Red' => MayIssue' \subseteq MayIssue
  PROVE  RedIsPaid'
<1>1. IsFiniteSet(Cycles) /\ MayIssue \subseteq Cycles
  BY KillAssumption DEF MayIssue
<1>2. IsFiniteSet(MayIssue) /\ Cardinality(MayIssue) \in Nat
  BY <1>1, FS_Subset, FS_CardinalityType
<1>3. faults \in Nat
  BY DEF SwitchInv, SwitchHolds, KillTypeOK
<1>4. faults' \in Nat /\ faults' >= faults
  BY <1>3
<1>5. ASSUME Red, Red' PROVE Cardinality(MayIssue') <= Cardinality(MayIssue) + (faults' - faults)
  <2>1. MayIssue' \subseteq MayIssue
    BY <1>5
  <2>2. Cardinality(MayIssue') \in Nat /\ Cardinality(MayIssue') <= Cardinality(MayIssue)
    BY <1>2, <2>1, FS_Subset, FS_CardinalityType
  <2> QED
    BY <1>2, <1>3, <1>4, <2>2
<1> QED
  BY <1>4, <1>5, QuietPays

\* What a cycle may do depends on its own record only.
LEMMA MayIssueOf ==
  ASSUME NEW c \in Cycles, \A d \in Cycles \ {c} : cycle'[d] = cycle[d]
  PROVE  MayIssue' \subseteq MayIssue \cup {c}
BY DEF MayIssue, Doomed

\* No cycle is let issue again by a step that leaves its own idle, doomed, or as free as it was.
LEMMA MayIssueKept ==
  ASSUME NEW c \in Cycles, \A d \in Cycles \ {c} : cycle'[d] = cycle[d],
         cycle'[c].step = "idle" \/ Doomed(c)' \/ (cycle[c].step # "idle" /\ ~Doomed(c))
  PROVE  MayIssue' \subseteq MayIssue
BY DEF MayIssue, Doomed

\* Under red the judgement of a cycle trips: no grace narrows what it reads.
LEMMA RedTrips ==
  ASSUME Red PROVE Judged # {}
BY DEF Red, Judged, Admissible

\* A judgement under red dooms its cycle.
LEMMA EvaluatePays ==
  ASSUME SwitchInv, NEW c \in Cycles, Evaluate(c) PROVE RedIsPaid'
<1>1. ASSUME Red PROVE MayIssue' \subseteq MayIssue
  <2>1. Judged # {}
    BY <1>1, RedTrips
  <2>2. cycle' = [cycle EXCEPT ![c] = [step |-> "grace", tripped |-> Judged,
                    evident |-> Judged = {} /\ Admissible # <<>>, paused |-> FALSE]]
    BY <2>1 DEF Evaluate
  <2>3. cycle'[c].step = "grace" /\ cycle'[c].tripped # {} /\ \A d \in Cycles \ {c} : cycle'[d] = cycle[d]
    BY <2>1, <2>2 DEF SwitchInv, SwitchHolds, KillTypeOK
  <2>4. Doomed(c)'
    BY <2>3 DEF Doomed
  <2> QED
    BY <2>3, <2>4, MayIssueKept
<1>2. Tracks /\ issued' = issued /\ unresolved' = unresolved /\ faults' = faults
  BY DEF Evaluate
<1>3. unresolved \in Int
  BY DEF SwitchInv, SwitchHolds, KillTypeOK
<1> QED
  BY <1>1, <1>2, <1>3, TamePays

\* A judgement that cannot read lets one cycle issue, and is a failure.
LEMMA EvaluateFailsPays ==
  ASSUME SwitchInv, NEW c \in Cycles, EvaluateFails(c) PROVE RedIsPaid'
<1>1. IsFiniteSet(Cycles) /\ MayIssue \subseteq Cycles
  BY KillAssumption DEF MayIssue
<1>2. IsFiniteSet(MayIssue) /\ Cardinality(MayIssue) \in Nat
  BY <1>1, FS_Subset, FS_CardinalityType
<1>3. \A d \in Cycles \ {c} : cycle'[d] = cycle[d]
  <2>1. pause.on \in BOOLEAN
    BY DEF SwitchInv, SwitchHolds, KillTypeOK, Pause
  <2>2. PICK paused \in BOOLEAN : Ends(c, paused)
    BY <2>1 DEF EvaluateFails
  <2> QED
    BY <2>2, CycleMoves DEF SwitchInv, SwitchHolds, CycleSteps
<1>4. MayIssue' \subseteq MayIssue \cup {c}
  BY <1>3, MayIssueOf
<1>5. IsFiniteSet(MayIssue \cup {c}) /\ Cardinality(MayIssue \cup {c}) <= Cardinality(MayIssue) + 1
  <2>1. /\ IsFiniteSet(MayIssue \cup {c})
        /\ Cardinality(MayIssue \cup {c}) =
             IF c \in MayIssue THEN Cardinality(MayIssue) ELSE Cardinality(MayIssue) + 1
    BY <1>2, FS_AddElement, Zenon
  <2> QED
    BY <1>2, <2>1
<1>6. Cardinality(MayIssue') \in Nat /\ Cardinality(MayIssue') <= Cardinality(MayIssue \cup {c})
  BY <1>4, <1>5, FS_Subset, FS_CardinalityType
<1>7. Cardinality(MayIssue \cup {c}) \in Nat
  BY <1>5, FS_CardinalityType
<1>8. faults \in Nat /\ faults' = faults + 1 /\ unresolved \in Int
  BY DEF SwitchInv, SwitchHolds, KillTypeOK, EvaluateFails, Fault
<1>9. Cardinality(MayIssue') <= Cardinality(MayIssue) + (faults' - faults)
  BY <1>2, <1>5, <1>6, <1>7, <1>8
<1>10. Tracks /\ issued' = issued /\ unresolved' = unresolved
  BY DEF EvaluateFails
<1> QED
  BY <1>8, <1>9, <1>10, QuietPays

\* Under red there is no grace that lets a cycle go.
LEMMA CheckGracePays ==
  ASSUME SwitchInv, NEW c \in Cycles, CheckGrace(c) PROVE RedIsPaid'
<1>1. ASSUME Red PROVE MayIssue' \subseteq MayIssue
  <2>1. StepsTo(c, "prev")
    BY <1>1 DEF CheckGrace, Red
  <2>2. cycle'[c] = [cycle[c] EXCEPT !.step = "prev"] /\ \A d \in Cycles \ {c} : cycle'[d] = cycle[d]
    BY <2>1 DEF StepsTo, SwitchInv, SwitchHolds, KillTypeOK
  <2>3. cycle[c].step = "grace" /\ cycle[c] \in CycleRecord
    BY DEF CheckGrace, SwitchInv, SwitchHolds, KillTypeOK
  <2>4. cycle'[c].step = "prev" /\ cycle'[c].tripped = cycle[c].tripped
    BY <2>2, <2>3 DEF CycleRecord
  <2>5. Doomed(c)' \/ (cycle[c].step # "idle" /\ ~Doomed(c))
    BY <2>3, <2>4 DEF Doomed
  <2> QED
    BY <2>2, <2>5, MayIssueKept
<1>2. Tracks /\ issued' = issued /\ unresolved' = unresolved /\ faults' = faults
  BY DEF CheckGrace
<1>3. unresolved \in Int
  BY DEF SwitchInv, SwitchHolds, KillTypeOK
<1> QED
  BY <1>1, <1>2, <1>3, TamePays

\* A cycle that has tripped goes on to write its pause.
LEMMA AfterKeeps ==
  ASSUME SwitchInv, NEW c \in Cycles, NEW on, NEW latched, After(c, on, latched),
         cycle[c].step \in {"prev", "autoclear"}
  PROVE  MayIssue' \subseteq MayIssue
<1>1. /\ \A d \in Cycles \ {c} : cycle'[d] = cycle[d]
      /\ cycle[c].tripped # {} => cycle'[c] = [cycle[c] EXCEPT !.step = "write"]
  BY AfterMoves DEF SwitchInv, SwitchHolds
<1>2. CASE cycle[c].tripped # {}
  <2>1. cycle[c] \in CycleRecord
    BY DEF SwitchInv, SwitchHolds, KillTypeOK
  <2>2. cycle'[c].step = "write" /\ cycle'[c].tripped = cycle[c].tripped
    BY <1>1, <1>2, <2>1 DEF CycleRecord
  <2>3. Doomed(c)'
    BY <1>2, <2>2 DEF Doomed
  <2> QED
    BY <1>1, <2>3, MayIssueKept
<1>3. CASE cycle[c].tripped = {}
  <2>1. cycle[c].step # "idle" /\ ~Doomed(c)
    BY <1>3 DEF Doomed
  <2> QED
    BY <1>1, <2>1, MayIssueKept
<1> QED
  BY <1>2, <1>3

\* A cycle that has tripped stays doomed while it reads the recorded pause.
LEMMA ReadPrevPays ==
  ASSUME SwitchInv, NEW c \in Cycles, ReadPrev(c) PROVE RedIsPaid'
<1>1. MayIssue' \subseteq MayIssue
  <2>1. CASE StepsTo(c, "autoclear")
    <3>1. cycle'[c] = [cycle[c] EXCEPT !.step = "autoclear"] /\ \A d \in Cycles \ {c} : cycle'[d] = cycle[d]
      BY <2>1 DEF StepsTo, SwitchInv, SwitchHolds, KillTypeOK
    <3>2. cycle[c].step = "prev" /\ cycle[c] \in CycleRecord
      BY DEF ReadPrev, SwitchInv, SwitchHolds, KillTypeOK
    <3>3. cycle'[c].step = "autoclear" /\ cycle'[c].tripped = cycle[c].tripped
      BY <3>1, <3>2 DEF CycleRecord
    <3>4. Doomed(c)' \/ (cycle[c].step # "idle" /\ ~Doomed(c))
      BY <3>2, <3>3 DEF Doomed
    <3> QED
      BY <3>1, <3>4, MayIssueKept
  <2>2. CASE After(c, pause.on, pause.latched)
    BY <2>2, AfterKeeps DEF ReadPrev
  <2> QED
    BY <2>1, <2>2 DEF ReadPrev
<1>2. Tracks /\ issued' = issued /\ unresolved' = unresolved /\ faults' = faults
  BY DEF ReadPrev
<1>3. unresolved \in Int
  BY DEF SwitchInv, SwitchHolds, KillTypeOK
<1> QED
  BY <1>1, <1>2, <1>3, TamePays

\* And while it clears one that is due.
LEMMA AutoClearPays ==
  ASSUME SwitchInv, NEW c \in Cycles, AutoClear(c) PROVE RedIsPaid'
<1>1. MayIssue' \subseteq MayIssue
  BY AfterKeeps DEF AutoClear
<1>2. Tracks /\ issued' = issued /\ unresolved' = unresolved /\ faults' = faults
  BY DEF AutoClear
<1>3. unresolved \in Int
  BY DEF SwitchInv, SwitchHolds, KillTypeOK
<1> QED
  BY <1>1, <1>2, <1>3, TamePays

\* A cycle that clears a pause had not tripped: it might issue before as well.
LEMMA ClearPays ==
  ASSUME SwitchInv, NEW c \in Cycles, Clear(c) PROVE RedIsPaid'
<1>1. MayIssue' \subseteq MayIssue
  <2>1. \A d \in Cycles \ {c} : cycle'[d] = cycle[d]
    BY CycleMoves DEF SwitchInv, SwitchHolds, Clear, CycleSteps
  <2>2. cycle[c].step # "idle" /\ ~Doomed(c)
    BY DEF Clear, Doomed
  <2> QED
    BY <2>1, <2>2, MayIssueKept
<1>2. Tracks /\ issued' = issued /\ unresolved' = unresolved
  BY DEF Clear
<1>3. unresolved \in Int
  BY DEF SwitchInv, SwitchHolds, KillTypeOK
<1>4. faults' = faults \/ faults' = faults + 1
  BY DEF Clear, Fault, NoFault
<1> QED
  BY <1>1, <1>2, <1>3, <1>4, TamePays

\* A cycle that writes its pause, or fails to, keeps its pick back.
LEMMA WritePausePays ==
  ASSUME SwitchInv, NEW c \in Cycles, WritePause(c) PROVE RedIsPaid'
<1>1. MayIssue' \subseteq MayIssue
  <2>1. \A d \in Cycles \ {c} : cycle'[d] = cycle[d]
    BY CycleMoves DEF SwitchInv, SwitchHolds, WritePause, CycleSteps
  <2>2. cycle'[c].step = "save" /\ cycle'[c].paused
    BY DEF WritePause, Ends, IdleCycle, SwitchInv, SwitchHolds, KillTypeOK
  <2>3. Doomed(c)'
    BY <2>2 DEF Doomed
  <2> QED
    BY <2>1, <2>3, MayIssueKept
<1>2. Tracks /\ issued' = issued /\ unresolved' = unresolved
  BY DEF WritePause
<1>3. unresolved \in Int
  BY DEF SwitchInv, SwitchHolds, KillTypeOK
<1>4. faults' = faults \/ faults' = faults + 1
  BY DEF WritePause, Fault, NoFault
<1> QED
  BY <1>1, <1>2, <1>3, <1>4, TamePays

\* A pick that is issued under red was one that might be: its cycle can issue no
\* second one.
LEMMA SavePays ==
  ASSUME SwitchInv, NEW c \in Cycles, Save(c) PROVE RedIsPaid'
<1>1. /\ cycle'[c].step = "idle"
      /\ \A d \in Cycles \ {c} : cycle'[d] = cycle[d]
  BY DEF Save, IdleCycle, SwitchInv, SwitchHolds, KillTypeOK
<1>2. MayIssue' = MayIssue \ {c}
  BY <1>1 DEF MayIssue, Doomed
<1>3. Tracks /\ faults' = faults /\ Red' = Red
  BY DEF Save, Red, InGrace
<1>4. issued \in Nat /\ unresolved \in Nat /\ redIssues \in Nat /\ faults \in Nat
  BY DEF SwitchInv, SwitchHolds, KillTypeOK
<1>5. CASE issued' = issued /\ unresolved' = unresolved
  BY <1>2, <1>3, <1>4, <1>5, TamePays
<1>6. CASE ~Suppressed(c) /\ issued' = issued + 1 /\ unresolved' = unresolved + 1
  <2>1. c \in MayIssue
    BY <1>6 DEF Save, Suppressed, MayIssue, Doomed
  <2>2. IsFiniteSet(MayIssue)
    <3>1. IsFiniteSet(Cycles) /\ MayIssue \subseteq Cycles
      BY KillAssumption DEF MayIssue
    <3> QED
      BY <3>1, FS_Subset
  <2>3. Cardinality(MayIssue') = Cardinality(MayIssue) - 1 /\ Cardinality(MayIssue) \in Nat
    BY <1>2, <2>1, <2>2, FS_RemoveElement, FS_CardinalityType
  <2>4. Cardinality(Cycles) \in Nat
    BY KillAssumption, FS_CardinalityType
  <2>5. redIssues' = IF Red THEN redIssues + 1 ELSE 0
    BY <1>3, <1>4, <1>6 DEF Tracks
  <2>6. redIssues <= issued /\ unresolved <= issued
    BY DEF SwitchInv, RedIsPaid
  <2>7. redIssues' <= issued' /\ unresolved' <= issued'
    BY <1>4, <1>6, <2>5, <2>6
  <2>8. ASSUME Red PROVE redIssues' + Cardinality(MayIssue') <= Cardinality(Cycles) + faults'
    <3>1. redIssues + Cardinality(MayIssue) <= Cardinality(Cycles) + faults
      BY <2>8 DEF SwitchInv, RedIsPaid
    <3>2. redIssues' = redIssues + 1
      BY <2>5, <2>8
    <3> QED
      BY <1>3, <1>4, <2>3, <2>4, <3>1, <3>2
  <2>9. ~Red => redIssues' = 0
    BY <2>5
  <2> QED
    BY <1>3, <2>7, <2>8, <2>9 DEF RedIsPaid
<1> QED
  BY <1>5, <1>6 DEF Save

\* Readers, the operator, the market and time leave the cycles alone.
LEMMA OthersPay ==
  ASSUME SwitchInv,
         (\E r \in Readers : Look(r) \/ LookClears(r)) \/ Resume \/ Resolve \/ TimeGoes
  PROVE  RedIsPaid'
<1>1. cycle' = cycle /\ issued' = issued /\ Tracks
  BY DEF Look, LookClears, Resume, Resolve, TimeGoes
<1>2. faults' = faults \/ faults' = faults + 1
  BY DEF Look, LookClears, Resume, Resolve, TimeGoes, Fault
<1>3. unresolved \in Nat
  BY DEF SwitchInv, SwitchHolds, KillTypeOK
<1>4. unresolved' \in Int /\ unresolved' <= unresolved
  BY <1>3 DEF Look, LookClears, Resume, Resolve, TimeGoes
<1>5. MayIssue' \subseteq MayIssue
  BY <1>1 DEF MayIssue, Doomed
<1> QED
  BY <1>1, <1>2, <1>4, <1>5, TamePays

\* The first state satisfies the invariant.
LEMMA KillStart == KillInit => SwitchInv
<1> SUFFICES ASSUME KillInit PROVE SwitchInv
  OBVIOUS
<1>1. KillTypeOK
  <2>1. evidence \in Seq(Outcome)
    BY DEF KillInit
  <2>2. {unresolved, issued} \subseteq 0..MaxPicks /\ redIssues \in 0..MaxPicks /\ faults \in 0..MaxFaults
    BY KillConstants DEF KillInit
  <2>3. pause \in Pause /\ pause = NoPause
    BY DEF KillInit, Pause, NoPause
  <2>4. resume \in Resumed /\ ~resume.grace
    BY DEF KillInit, Resumed
  <2>5. cycle \in [Cycles -> CycleRecord] /\ reader \in [Readers -> {"idle", "clear"}]
    BY DEF KillInit, CycleRecord, IdleCycle, CycleSteps
  <2> QED
    BY <2>1, <2>2, <2>3, <2>4, <2>5 DEF KillTypeOK
<1>2. MayIssue = {}
  BY DEF KillInit, MayIssue, IdleCycle
<1>3. Cardinality(MayIssue) = 0 /\ Cardinality(Cycles) \in Nat
  BY <1>2, FS_EmptySet, KillAssumption, FS_CardinalityType
<1>4. redIssues = 0 /\ issued = 0 /\ unresolved = 0 /\ faults = 0
  BY DEF KillInit
<1>5. RedIsPaid /\ RedIssuesBounded
  BY <1>3, <1>4 DEF RedIsPaid, RedIssuesBounded
<1>6. LatchHasNoTimer
  BY DEF KillInit, LatchHasNoTimer, NoPause
<1> QED
  BY <1>1, <1>5, <1>6 DEF SwitchInv, SwitchHolds

\* The account gives the bound.
LEMMA KillSummary ==
  ASSUME Keys, RedIsPaid, redIssues \in Nat PROVE SwitchInv
<1>1. IsFiniteSet(Cycles) /\ MayIssue \subseteq Cycles
  BY KillAssumption DEF MayIssue
<1>2. Cardinality(MayIssue) \in Nat /\ Cardinality(Cycles) \in Nat
  BY <1>1, FS_Subset, FS_CardinalityType
<1>3. issued \in 0..MaxPicks /\ faults \in 0..MaxFaults /\ redIssues <= issued
  BY DEF Keys, RedIsPaid
<1>4. redIssues \in 0..MaxPicks
  BY <1>3, KillConstants
<1>5. redIssues <= Cardinality(Cycles) + faults
  BY <1>2, <1>3, KillConstants DEF RedIsPaid
<1> QED
  BY <1>4, <1>5 DEF SwitchInv, SwitchHolds, KillTypeOK, Keys, RedIssuesBounded

\* Every step keeps the invariant.
LEMMA KillStep == SwitchInv /\ [KillNext]_killVars => SwitchInv'
<1> SUFFICES ASSUME SwitchInv, [KillNext]_killVars PROVE SwitchInv'
  OBVIOUS
<1>1. CASE KillNext
  <2>1. Keys'
    BY <1>1, EvaluateKeys, EvaluateFailsKeys, CheckGraceKeys, ReadPrevKeys, AutoClearKeys, ClearKeys,
       WritePauseKeys, SaveKeys, ReaderKeys, ResumeKeys, ResolveKeys, TimeGoesKeys DEF KillNext
  <2>2. RedIsPaid'
    BY <1>1, EvaluatePays, EvaluateFailsPays, CheckGracePays, ReadPrevPays, AutoClearPays, ClearPays,
       WritePausePays, SavePays, OthersPay DEF KillNext
  <2>3. redIssues' \in Nat
    <3>1. Tracks
      BY <1>1 DEF KillNext, Evaluate, EvaluateFails, CheckGrace, ReadPrev, AutoClear, Clear, WritePause, Save,
                  Look, LookClears, Resume, Resolve, TimeGoes
    <3>2. issued' = issued \/ issued' = issued + 1
      BY <1>1 DEF KillNext, Evaluate, EvaluateFails, CheckGrace, ReadPrev, AutoClear, Clear, WritePause, Save,
                  Look, LookClears, Resume, Resolve, TimeGoes
    <3>3. redIssues \in Nat /\ issued \in Nat
      BY DEF SwitchInv, SwitchHolds, KillTypeOK
    <3> QED
      BY <3>1, <3>2, <3>3 DEF Tracks
  <2>4. (Keys /\ RedIsPaid /\ redIssues \in Nat)' => SwitchInv'
    BY KillSummary, PTL
  <2> QED
    BY <2>1, <2>2, <2>3, <2>4
<1>2. CASE UNCHANGED killVars
  BY <1>2 DEF killVars, SwitchInv, SwitchHolds, KillTypeOK, LatchHasNoTimer, RedIssuesBounded, RedIsPaid,
              MayIssue, Doomed, Red, InGrace
<1> QED
  BY <1>1, <1>2

\* Whatever is cleared late, timed out, overwritten or lost: the pause stays one
\* record, a latch has no timer that could lift it, and once the outcomes trip only
\* the cycles under way, and those that could not read, issue (enforce_kill_conditions,
\* engine_pause_state, strict_issuance_block).
THEOREM SwitchIsSafe == KillSpec => []SwitchHolds
<1>1. SwitchInv => SwitchHolds
  BY DEF SwitchInv
<1> QED
  BY <1>1, KillStart, KillStep, PTL DEF KillSpec
=============================================================================
