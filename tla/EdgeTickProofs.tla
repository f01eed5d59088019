--------------------------- MODULE EdgeTickProofs ---------------------------
(***************************************************************************)
(* Theorems about EdgeTick, for every number of runners and symbols, any   *)
(* set of specs and prices, and every bound on faults.                     *)
(***************************************************************************)
EXTENDS EdgeTick, FiniteSetTheorems, TLAPS

\* The variables that the ledger's rows come from.
RowsTyped ==
  /\ experiment \in Specs \cup {None}
  /\ forecasts \in [Names -> ForecastRow \cup {None}]
  /\ outcomes \in [Names -> [Records -> Outcomes \cup {None}]]
  /\ pc \in [Runners -> Steps]
  /\ local \in [Runners -> Locals]

Issuing == {"scanning", "issuing", "recording"}
AtHand == {"check forecast", "put forecast", "check simulated", "put simulated"}

\* What a tick relies on between two calls of the store: it issues under the
\* registered spec, and grades forecasts that are on record.
TickInv(r) ==
  /\ pc[r] \in {"card", "fetching"} \cup Issuing => local[r].spec \in Specs
  /\ pc[r] \in Issuing => local[r].ref \in Refs /\ local[r].spec = experiment
  /\ pc[r] \in Issuing => local[r].todo \subseteq Names
  /\ pc[r] = "recording" => local[r].name \in Names
  /\ pc[r] \in AtHand \cup {"resolving"} => local[r].todo \subseteq Recorded
  /\ pc[r] \in AtHand => local[r].name \in Recorded

IInv == RowsTyped /\ OneSpec /\ \A r \in Runners : TickInv(r)

\* Steps of one tick leave the others what they rely on: rows are never deleted,
\* and the registered spec stands (register, record).
LEMMA OthersUndisturbed ==
  ASSUME IInv, NEW q \in Runners, pc'[q] = pc[q], local'[q] = local[q],
         Recorded \subseteq Recorded', experiment # None => experiment' = experiment
  PROVE  TickInv(q)'
<1>1. TickInv(q)
  BY DEF IInv
<1>2. pc[q] \in Issuing => experiment # None
  BY <1>1, NoneAssumption DEF TickInv
<1> QED
  BY <1>1, <1>2 DEF TickInv

\* A step that writes no row keeps the rows' invariants.
LEMMA RowsKept ==
  ASSUME IInv, UNCHANGED <<experiment, forecasts>>
  PROVE  OneSpec' /\ Recorded' = Recorded
BY DEF IInv, OneSpec, Recorded

\* What a step of a tick must show of the tick itself.
LEMMA StepKeepsInv ==
  ASSUME IInv, NEW r \in Runners, UNCHANGED <<experiment, forecasts, outcomes>>,
         NEW step \in Steps, NEW l \in Locals,
         pc' = [pc EXCEPT ![r] = step], local' = [local EXCEPT ![r] = l],
         TickInv(r)'
  PROVE  IInv'
<1>1. OneSpec' /\ Recorded' = Recorded
  BY RowsKept
<1>2. RowsTyped'
  BY DEF IInv, RowsTyped
<1>3. ASSUME NEW q \in Runners, q # r PROVE TickInv(q)'
  <2>1. pc'[q] = pc[q] /\ local'[q] = local[q]
    BY <1>3 DEF IInv, RowsTyped
  <2> QED
    BY <1>1, <2>1, OthersUndisturbed
<1> QED
  BY <1>1, <1>2, <1>3 DEF IInv

\* The idle and the leaving tick rely on nothing (tick's return).
LEMMA EndKeepsInv ==
  ASSUME IInv, NEW r \in Runners, UNCHANGED <<experiment, forecasts, outcomes>>,
         NEW step \in {"idle", "leaving", "resolve", "abstaining", "writing"}, NEW l \in Locals,
         pc' = [pc EXCEPT ![r] = step], local' = [local EXCEPT ![r] = l]
  PROVE  IInv'
<1>1. step \in Steps /\ pc'[r] = step
  BY DEF Steps, IInv, RowsTyped
<1>2. TickInv(r)'
  BY <1>1 DEF TickInv, Issuing, AtHand
<1> QED
  BY <1>1, <1>2, StepKeepsInv

LEMMA FreshTyped == Fresh \in Locals /\ Unresolved \in [Records -> Outcomes]
BY DEF Fresh, Locals, Unresolved, Records, Outcomes

\* Ends drops the variables of the tick.
LEMMA EndsKeepsInv ==
  ASSUME IInv, NEW r \in Runners, UNCHANGED <<experiment, forecasts, outcomes>>, Ends(r)
  PROVE  IInv'
BY FreshTyped, EndKeepsInv DEF Ends, Goes

\* A step that leaves the local variables as they are.
LEMMA LocalUnchanged ==
  ASSUME IInv, NEW r \in Runners, UNCHANGED local
  PROVE  local[r] \in Locals /\ local' = [local EXCEPT ![r] = local[r]]
BY DEF IInv, RowsTyped

\* The lease and the life of a tick (claim, release, a dead process).
LEMMA LeaseSteps ==
  ASSUME IInv, NEW r \in Runners, Start(r) \/ Leave(r) \/ Crash(r)
  PROVE  IInv'
<1>1. CASE Start(r)
  <2>1. CASE phase = "grade" /\ Goes(r, "resolve") /\ UNCHANGED local
    BY <1>1, <2>1, LocalUnchanged, EndKeepsInv DEF Start, Goes, ledger
  <2>2. ASSUME NEW s \in Specs, Goes(r, "card"),
               local' = [local EXCEPT ![r].spec = s]
        PROVE  IInv'
    <3> DEFINE l == [local[r] EXCEPT !.spec = s]
    <3>1. l \in Locals /\ l.spec = s /\ local' = [local EXCEPT ![r] = l]
      BY <2>2 DEF IInv, RowsTyped, Locals
    <3>2. pc'[r] = "card" /\ local'[r] = l /\ "card" \in Steps
      BY <2>2, <3>1 DEF IInv, RowsTyped, Goes, Steps
    <3>3. TickInv(r)'
      BY <3>1, <3>2 DEF TickInv, Issuing, AtHand
    <3> HIDE DEF l
    <3> QED
      BY <1>1, <2>2, <3>1, <3>2, <3>3, StepKeepsInv DEF Start, Goes, ledger
  <2> QED
    BY <1>1, <2>1, <2>2 DEF Start
<1>2. CASE Leave(r)
  BY <1>2, LocalUnchanged, EndKeepsInv DEF Leave, Goes, ledger
<1>3. CASE Crash(r)
  BY <1>3, FreshTyped, EndKeepsInv DEF Crash, Goes, ledger
<1> QED
  BY <1>1, <1>2, <1>3

\* Registering writes the experiment once, and only from the deployment's spec.
LEMMA RegisterStep == ASSUME IInv, NEW r \in Runners, Register(r) PROVE IInv'
<1>1. CASE card # None
  BY <1>1, EndsKeepsInv DEF Register
<1>2. CASE card = None
  <2>1. /\ experiment' = SpecRegistered(local[r].spec)
        /\ Goes(r, "fetching") /\ UNCHANGED <<local, forecasts, outcomes>>
    BY <1>2 DEF Register
  <2>2. pc[r] = "card" /\ local[r].spec \in Specs
    BY DEF Register, IInv, TickInv
  <2>3. experiment' \in Specs /\ (experiment # None => experiment' = experiment)
    BY <2>1, <2>2 DEF SpecRegistered, IInv, RowsTyped
  <2>4. Recorded' = Recorded
    BY <2>1 DEF Recorded
  <2>5. RowsTyped'
    BY <2>1, <2>3 DEF IInv, RowsTyped, Goes, Steps
  <2>6. OneSpec'
    <3> SUFFICES ASSUME NEW n \in Recorded PROVE forecasts[n].spec = experiment'
      BY <2>1, <2>4 DEF OneSpec
    <3>1. forecasts[n].spec = experiment /\ forecasts[n] \in ForecastRow
      BY DEF IInv, RowsTyped, OneSpec, Recorded
    <3> QED
      BY <2>3, <3>1, NoneAssumption DEF ForecastRow
  <2>7. ASSUME NEW q \in Runners PROVE TickInv(q)'
    <3>1. CASE q = r
      <4>1. pc'[r] = "fetching" /\ local'[r].spec \in Specs
        BY <2>1, <2>2 DEF IInv, RowsTyped, Goes
      <4> QED
        BY <3>1, <4>1 DEF TickInv, Issuing, AtHand
    <3>2. CASE q # r
      <4>1. pc'[q] = pc[q] /\ local'[q] = local[q]
        BY <2>1, <3>2 DEF IInv, RowsTyped, Goes
      <4> QED
        BY <2>3, <2>4, <4>1, OthersUndisturbed
    <3> QED
      BY <3>1, <3>2
  <2> QED
    BY <2>5, <2>6, <2>7 DEF IInv
<1> QED
  BY <1>1, <1>2

\* What was fetched is bound to the registered spec (morning_card).
LEMMA FetchStep == ASSUME IInv, NEW r \in Runners, Fetch(r) PROVE IInv'
<1>1. CASE Ends(r)
  BY <1>1, EndsKeepsInv DEF Fetch, ledger
<1>2. ASSUME NEW rows \in SUBSET Names, Goes(r, "writing"),
             local' = [local EXCEPT ![r].rows = rows]
      PROVE  IInv'
  <2> DEFINE l == [local[r] EXCEPT !.rows = rows]
  <2>1. l \in Locals /\ local' = [local EXCEPT ![r] = l]
    BY <1>2 DEF IInv, RowsTyped, Locals
  <2> HIDE DEF l
  <2> QED
    BY <1>2, <2>1, EndKeepsInv DEF Fetch, Goes, ledger
<1>3. ASSUME NEW rows \in SUBSET Names, NEW top \in SUBSET Names, NEW ref \in Refs,
             ~Refused(r), Goes(r, "scanning"),
             local' = [local EXCEPT ![r].rows = rows, ![r].todo = top, ![r].ref = ref]
      PROVE  IInv'
  <2> DEFINE l == [local[r] EXCEPT !.rows = rows, !.todo = top, !.ref = ref]
  <2>1. local[r] \in Locals /\ local[r].spec \in Specs
    BY DEF IInv, RowsTyped, TickInv, Fetch
  <2>2. l \in Locals /\ l.spec = local[r].spec /\ l.ref = ref /\ l.todo = top
    BY <2>1 DEF Locals
  <2>3. local' = [local EXCEPT ![r] = l]
    BY <1>3 DEF IInv, RowsTyped
  <2> HIDE DEF l
  <2>4. pc'[r] = "scanning" /\ local'[r] = l /\ "scanning" \in Steps
    BY <1>3, <2>3 DEF IInv, RowsTyped, Goes, Steps
  <2>5. UNCHANGED <<experiment, forecasts, outcomes>>
    BY DEF Fetch, ledger
  <2>6. TickInv(r)'
    BY <1>3, <2>1, <2>2, <2>4, <2>5 DEF TickInv, Issuing, AtHand, Refused
  <2> QED
    BY <1>3, <2>2, <2>3, <2>4, <2>5, <2>6, StepKeepsInv DEF Goes
<1>4. ASSUME NEW rows \in SUBSET Names, NEW top \in SUBSET rows PROVE top \in SUBSET Names
  OBVIOUS
<1> QED
  BY <1>1, <1>2, <1>3, <1>4 DEF Fetch

\* Rows of an earlier tick are kept, or the tick goes on to issue (_issue_top).
LEMMA ScanStep == ASSUME IInv, NEW r \in Runners, Scan(r) PROVE IInv'
<1>1. CASE Goes(r, "issuing") /\ UNCHANGED local
  <2>1. pc[r] = "scanning" /\ UNCHANGED <<experiment, forecasts, outcomes>>
    BY DEF Scan, ledger
  <2>2. pc'[r] = "issuing" /\ local'[r] = local[r] /\ "issuing" \in Steps
    BY <1>1 DEF IInv, RowsTyped, Goes, Steps
  <2>3. TickInv(r)'
    BY <2>1, <2>2 DEF IInv, TickInv, Issuing, AtHand
  <2> QED
    BY <1>1, <2>1, <2>2, <2>3, LocalUnchanged, StepKeepsInv DEF Goes
<1>2. ASSUME NEW chosen \in SUBSET Names, NEW todo \in SUBSET Names, Goes(r, "abstaining"),
             local' = [local EXCEPT ![r].chosen = chosen, ![r].todo = todo]
      PROVE  IInv'
  <2> DEFINE l == [local[r] EXCEPT !.chosen = chosen, !.todo = todo]
  <2>1. l \in Locals /\ local' = [local EXCEPT ![r] = l]
    BY <1>2 DEF IInv, RowsTyped, Locals
  <2> HIDE DEF l
  <2> QED
    BY <1>2, <2>1, EndKeepsInv DEF Scan, Goes, ledger
<1>3. CASE Prior # {}
  <2> DEFINE kept == local[r].rows \cap Prior
             rest == local[r].rows \ kept
  <2>1. kept \in SUBSET Names /\ rest \in SUBSET Names
    BY DEF IInv, RowsTyped, Locals
  <2>2. Goes(r, "abstaining") /\ local' = [local EXCEPT ![r].chosen = kept, ![r].todo = rest]
    BY <1>3 DEF Scan
  <2> HIDE DEF kept, rest
  <2> QED
    BY <1>2, <2>1, <2>2
<1> QED
  BY <1>1, <1>3 DEF Scan

\* Stamping a forecast, refusing a late one, or turning to the abstentions
\* (_issue_on_time).
LEMMA StampStep == ASSUME IInv, NEW r \in Runners, Stamp(r) PROVE IInv'
<1>1. /\ pc[r] = "issuing" /\ UNCHANGED <<experiment, forecasts, outcomes>>
      /\ local[r] \in Locals /\ TickInv(r)
  BY DEF Stamp, ledger, IInv, RowsTyped
<1>2. CASE Goes(r, "abstaining") /\ local' = [local EXCEPT ![r].todo = Unanswered(r)]
  <2> DEFINE l == [local[r] EXCEPT !.todo = Unanswered(r)]
  <2>1. l \in Locals /\ local' = [local EXCEPT ![r] = l]
    BY <1>1, <1>2 DEF IInv, RowsTyped, Locals, Unanswered
  <2> HIDE DEF l
  <2> QED
    BY <1>1, <1>2, <2>1, EndKeepsInv DEF Goes
<1>3. ASSUME NEW n \in local[r].todo, Goes(r, "recording"),
             local' = [local EXCEPT ![r].name = n]
      PROVE  IInv'
  <2> DEFINE l == [local[r] EXCEPT !.name = n]
  <2>1. n \in Names
    BY <1>1 DEF Locals
  <2>2. l \in Locals /\ local' = [local EXCEPT ![r] = l]
    BY <1>1, <1>3, <2>1 DEF IInv, RowsTyped, Locals
  <2>3. l.spec = local[r].spec /\ l.ref = local[r].ref /\ l.todo = local[r].todo /\ l.name = n
    BY <1>1 DEF Locals
  <2> HIDE DEF l
  <2>4. pc'[r] = "recording" /\ local'[r] = l /\ "recording" \in Steps
    BY <1>3, <2>2 DEF IInv, RowsTyped, Goes, Steps
  <2>5. TickInv(r)'
    BY <1>1, <2>1, <2>3, <2>4 DEF TickInv, Issuing, AtHand
  <2> QED
    BY <1>1, <1>3, <2>2, <2>4, <2>5, StepKeepsInv DEF Goes
<1>4. ASSUME NEW n \in local[r].todo, UNCHANGED pc,
             local' = [local EXCEPT ![r].name = n, ![r].todo = @ \ {n}]
      PROVE  IInv'
  <2> DEFINE l == [local[r] EXCEPT !.name = n, !.todo = @ \ {n}]
  <2>1. n \in Names
    BY <1>1 DEF Locals
  <2>2. l \in Locals /\ local' = [local EXCEPT ![r] = l]
    BY <1>1, <1>4, <2>1 DEF IInv, RowsTyped, Locals
  <2>3. l.spec = local[r].spec /\ l.ref = local[r].ref /\ l.todo = local[r].todo \ {n}
    BY <1>1 DEF Locals
  <2> HIDE DEF l
  <2>4. pc' = [pc EXCEPT ![r] = "issuing"] /\ local'[r] = l /\ "issuing" \in Steps /\ pc'[r] = "issuing"
    BY <1>1, <1>4, <2>2 DEF IInv, RowsTyped, Goes, Steps
  <2>5. TickInv(r)'
    BY <1>1, <2>1, <2>3, <2>4 DEF TickInv, Issuing, AtHand
  <2> QED
    BY <1>1, <2>2, <2>4, <2>5, StepKeepsInv
<1> QED
  BY <1>2, <1>3, <1>4 DEF Stamp

\* A forecast is stored where there was none, under the registered spec; a row
\* that was there stands (record, put_new).
LEMMA RecordStep ==
  ASSUME IInv, NEW r \in Runners, Record(r)
  PROVE  /\ IInv'
         /\ [Frozen!Next]_<<forecasts, outcomes>>
<1> DEFINE n == local[r].name
           row == [ref |-> local[r].ref, spec |-> local[r].spec]
           stored == ForecastStored(n, row)
<1>1. /\ pc[r] = "recording" /\ UNCHANGED <<experiment, outcomes>>
      /\ forecasts' = [forecasts EXCEPT ![n] = stored]
  BY DEF Record
<1>2. /\ n \in Names /\ local[r] \in Locals /\ local[r].todo \subseteq Names
      /\ local[r].spec \in Specs /\ local[r].spec = experiment /\ local[r].ref \in Refs
  BY <1>1 DEF IInv, TickInv, Issuing, RowsTyped
<1>3. /\ forecasts \in [Names -> ForecastRow \cup {None}]
      /\ row \in ForecastRow /\ row.spec = experiment
  BY <1>2 DEF ForecastRow, IInv, RowsTyped
<1>4. stored \in ForecastRow /\ (stored = row \/ stored = forecasts[n])
  BY <1>2, <1>3 DEF ForecastStored
<1> HIDE DEF row
<1>5. forecasts[n] # None => stored = forecasts[n]
  BY DEF ForecastStored
<1>6. [Frozen!Next]_<<forecasts, outcomes>>
  <2>1. CASE forecasts[n] # None
    BY <1>1, <1>3, <1>5, <2>1
  <2>2. CASE forecasts[n] = None
    <3>1. Frozen!Record(n)
      BY <1>1, <1>4, <2>2 DEF Frozen!Record
    <3> QED
      BY <1>2, <3>1 DEF Frozen!Next
  <2> QED
    BY <2>1, <2>2
<1>7. forecasts' \in [Names -> ForecastRow \cup {None}] /\ forecasts'[n] = stored
  BY <1>1, <1>2, <1>3, <1>4
<1>8. Recorded' = Recorded \cup {n}
  BY <1>1, <1>2, <1>3, <1>4, NoRowAssumption DEF Recorded
<1>9. OneSpec'
  <2> SUFFICES ASSUME NEW m \in Recorded' PROVE forecasts'[m].spec = experiment
    BY <1>1 DEF OneSpec
  <2>1. CASE m = n /\ forecasts[n] = None
    BY <1>3, <1>7, <2>1 DEF ForecastStored
  <2>2. CASE m \in Recorded
    <3>1. forecasts[m].spec = experiment /\ forecasts[m] # None
      BY <2>2 DEF IInv, OneSpec, Recorded
    <3> QED
      BY <1>1, <1>3, <1>5, <3>1, <2>2 DEF Recorded
  <2> QED
    BY <1>2, <1>8, <2>1, <2>2 DEF Recorded
<1>10. PICK l \in Locals, step \in {"issuing", "leaving"} :
         /\ local' = [local EXCEPT ![r] = l] /\ pc' = [pc EXCEPT ![r] = step]
         /\ step = "issuing" => l.spec = experiment /\ l.ref \in Refs /\ l.todo \subseteq Names
  <2>1. CASE stored = row
    <3> DEFINE k == [local[r] EXCEPT !.todo = @ \ {n}, !.chosen = @ \cup {n}]
    <3>1. local' = [local EXCEPT ![r] = k] /\ pc' = [pc EXCEPT ![r] = "issuing"]
      BY <2>1 DEF Record, Goes, IInv, RowsTyped, row
    <3>2. k \in Locals /\ k.spec = local[r].spec /\ k.ref = local[r].ref /\ k.todo \subseteq Names
      BY <1>2 DEF Locals
    <3> HIDE DEF k
    <3> QED
      BY <1>2, <3>1, <3>2
  <2>2. CASE stored # row
    BY <2>2, FreshTyped DEF Record, Ends, Goes, row
  <2> QED
    BY <2>1, <2>2
<1>11. RowsTyped'
  BY <1>1, <1>7, <1>10 DEF IInv, RowsTyped, Steps
<1>12. ASSUME NEW q \in Runners PROVE TickInv(q)'
  <2>1. CASE q = r
    <3>1. pc'[r] \in {"issuing", "leaving"} /\ local'[r] = l /\ (pc'[r] = "issuing" => step = "issuing")
      BY <1>10 DEF IInv, RowsTyped
    <3> QED
      BY <1>1, <1>2, <1>10, <2>1, <3>1 DEF TickInv, Issuing, AtHand
  <2>2. CASE q # r
    <3>1. pc'[q] = pc[q] /\ local'[q] = local[q]
      BY <1>10, <2>2 DEF IInv, RowsTyped
    <3> QED
      BY <1>1, <1>8, <3>1, OthersUndisturbed
  <2> QED
    BY <2>1, <2>2
<1> QED
  BY <1>6, <1>9, <1>11, <1>12 DEF IInv

\* The end of the card step writes neither forecasts nor outcomes (abstain,
\* morning_card).
LEMMA CardSteps == ASSUME IInv, NEW r \in Runners, Abstain(r) \/ WriteCard(r) PROVE IInv'
<1>1. CASE WriteCard(r)
  BY <1>1, EndsKeepsInv DEF WriteCard
<1>2. CASE Abstain(r) /\ Goes(r, "writing") /\ UNCHANGED local
  BY <1>2, LocalUnchanged, EndKeepsInv DEF Abstain, Goes
<1>3. ASSUME NEW n \in local[r].todo, Abstain(r), UNCHANGED pc,
             local' = [local EXCEPT ![r].todo = @ \ {n}]
      PROVE  IInv'
  <2> DEFINE l == [local[r] EXCEPT !.todo = @ \ {n}]
  <2>1. l \in Locals /\ local' = [local EXCEPT ![r] = l]
    BY <1>3 DEF IInv, RowsTyped, Locals
  <2>2. pc' = [pc EXCEPT ![r] = "abstaining"]
    BY <1>3 DEF Abstain, IInv, RowsTyped
  <2> HIDE DEF l
  <2> QED
    BY <1>3, <2>1, <2>2, EndKeepsInv DEF Abstain
<1> QED
  BY <1>1, <1>2, <1>3 DEF Abstain

\* A step of grading that goes on to the forecast at hand.
LEMMA GradingKeepsInv ==
  ASSUME IInv, NEW r \in Runners, UNCHANGED <<experiment, forecasts, outcomes>>,
         NEW step \in AtHand \cup {"resolving"}, NEW l \in Locals,
         pc' = [pc EXCEPT ![r] = step], local' = [local EXCEPT ![r] = l],
         l.todo \subseteq Recorded, step \in AtHand => l.name \in Recorded
  PROVE  IInv'
<1>1. Recorded' = Recorded
  BY DEF Recorded
<1>2. step \in Steps /\ pc'[r] = step /\ local'[r] = l
  BY DEF AtHand, Steps, IInv, RowsTyped
<1>3. step \notin {"card", "fetching"} \cup Issuing /\ step # "recording"
  BY DEF Issuing, AtHand
<1>4. TickInv(r)'
  <2>1. pc'[r] \notin {"card", "fetching"} \cup Issuing /\ pc'[r] # "recording"
    BY <1>2, <1>3
  <2>2. local'[r].todo \subseteq Recorded'
    BY <1>1, <1>2
  <2>3. pc'[r] \in AtHand => local'[r].name \in Recorded'
    BY <1>1, <1>2
  <2> QED
    BY <2>1, <2>2, <2>3 DEF TickInv
<1> QED
  BY <1>2, <1>4, StepKeepsInv

\* The pending forecasts are on record, and each is graded in turn (resolve_day).
LEMMA ResolveSteps == ASSUME IInv, NEW r \in Runners, FindPending(r) \/ Resolve(r) PROVE IInv'
<1>1. local[r] \in Locals /\ Recorded \subseteq Names
  BY DEF IInv, RowsTyped, Recorded
<1>2. CASE FindPending(r)
  <2> DEFINE l == [local[r] EXCEPT !.todo = Pending]
  <2>1. Pending \subseteq Recorded
    BY DEF Pending
  <2>2. l \in Locals /\ l.todo = Pending /\ local' = [local EXCEPT ![r] = l]
    BY <1>1, <1>2, <2>1 DEF FindPending, IInv, RowsTyped, Locals
  <2> HIDE DEF l
  <2> QED
    BY <1>2, <2>1, <2>2, GradingKeepsInv DEF FindPending, Goes, ledger, AtHand
<1>3. CASE Resolve(r) /\ Ends(r)
  BY <1>3, EndsKeepsInv DEF Resolve, ledger
<1>4. ASSUME NEW n \in local[r].todo, NEW v \in Verdicts, Resolve(r), Goes(r, "check forecast"),
             local' = [local EXCEPT ![r].todo = @ \ {n}, ![r].name = n, ![r].verdict = v]
      PROVE  IInv'
  <2> DEFINE l == [local[r] EXCEPT !.todo = @ \ {n}, !.name = n, !.verdict = v]
  <2>1. local[r].todo \subseteq Recorded
    BY <1>4 DEF IInv, TickInv, Resolve
  <2>2. v \in [Records -> Outcomes]
    BY DEF Verdicts
  <2>3. n \in Names /\ n \in Recorded
    BY <1>1, <2>1
  <2>4. l \in Locals /\ l.todo = local[r].todo \ {n} /\ l.name = n
    BY <1>1, <2>2, <2>3 DEF Locals
  <2>5. local' = [local EXCEPT ![r] = l]
    BY <1>4 DEF IInv, RowsTyped
  <2> HIDE DEF l
  <2> QED
    BY <1>4, <2>1, <2>3, <2>4, <2>5, GradingKeepsInv DEF Resolve, Goes, ledger, AtHand
<1> QED
  BY <1>2, <1>3, <1>4 DEF Resolve

\* What a grading tick has at hand between two calls of the store.
LEMMA HandKnown ==
  ASSUME IInv, NEW r \in Runners, pc[r] \in AtHand
  PROVE  /\ local[r] \in Locals /\ local[r].name \in Recorded /\ Recorded \subseteq Names
         /\ local[r].todo \subseteq Recorded
         /\ [Fresh EXCEPT !.todo = local[r].todo] \in Locals
         /\ [Fresh EXCEPT !.todo = local[r].todo].todo \subseteq Recorded
<1>1. /\ local[r] \in Locals /\ local[r].name \in Recorded /\ Recorded \subseteq Names
      /\ local[r].todo \subseteq Recorded
  BY DEF IInv, RowsTyped, TickInv, Recorded
<1> QED
  BY <1>1, FreshTyped DEF Locals, Fresh

\* A record that is final, or whose forecast is excluded, is not touched (settle).
LEMMA CheckStepKept ==
  ASSUME IInv, NEW r \in Runners, NEW rec \in Records, CheckOutcome(r, rec)
  PROVE  IInv'
<1>1. pc[r] \in AtHand /\ UNCHANGED <<experiment, forecasts, outcomes>>
  BY DEF CheckOutcome, CheckStep, AtHand, Records, ledger
<1>2. CASE Ends(r)
  BY <1>1, <1>2, EndsKeepsInv
<1>3. CASE GoesOn(r, rec)
  <2>1. CASE rec = "forecast"
    BY <1>1, <1>3, <2>1, HandKnown, LocalUnchanged, GradingKeepsInv DEF GoesOn, Goes, AtHand
  <2>2. CASE rec = "simulated"
    BY <1>1, <1>3, <2>2, HandKnown, GradingKeepsInv DEF GoesOn, Goes, AtHand
  <2> QED
    BY <2>1, <2>2 DEF Records
<1>4. CASE Goes(r, PutStep[rec]) /\ UNCHANGED local
  <2>1. PutStep[rec] \in AtHand
    BY DEF PutStep, AtHand, Records
  <2> QED
    BY <1>1, <1>4, <2>1, HandKnown, LocalUnchanged, GradingKeepsInv DEF Goes
<1> QED
  BY <1>2, <1>3, <1>4 DEF CheckOutcome

\* An outcome is stored for a forecast on record, and never over a final one
\* (settle, put_unless_final).
LEMMA PutStepKept ==
  ASSUME IInv, NEW r \in Runners, NEW rec \in Records, PutOutcome(r, rec)
  PROVE  /\ IInv'
         /\ [Frozen!Next]_<<forecasts, outcomes>>
<1> DEFINE n == local[r].name
           o == local[r].verdict[rec]
           stored == OutcomeStored(n, rec, o)
<1>1. /\ pc[r] \in AtHand /\ UNCHANGED <<experiment, forecasts>>
      /\ outcomes' = [outcomes EXCEPT ![n][rec] = stored]
  BY DEF PutOutcome, PutStep, AtHand, Records
<1>2. n \in Recorded /\ n \in Names /\ o \in Outcomes
  BY <1>1, HandKnown DEF Locals
<1>3. outcomes[n] \in [Records -> Outcomes \cup {None}] /\ forecasts[n] # None
  BY <1>2 DEF IInv, RowsTyped, Recorded
<1>4. /\ outcomes[n][rec] \in Final => stored = outcomes[n][rec]
      /\ outcomes[n][rec] \notin Final => stored = o
  BY DEF OutcomeStored
<1>5. stored \in Outcomes \cup {None}
  BY <1>2, <1>3, <1>4
<1> HIDE DEF n, o, stored
<1>6. [Frozen!Next]_<<forecasts, outcomes>>
  <2>1. CASE outcomes[n][rec] \in Final
    BY <1>1, <1>2, <1>3, <1>4, <2>1 DEF IInv, RowsTyped
  <2>2. CASE outcomes[n][rec] \notin Final
    <3>1. Frozen!Settle(n, rec)
      BY <1>1, <1>2, <1>3, <1>4, <2>2 DEF Frozen!Settle
    <3> QED
      BY <1>2, <3>1 DEF Frozen!Next
  <2> QED
    BY <2>1, <2>2
<1>7. outcomes' \in [Names -> [Records -> Outcomes \cup {None}]]
  BY <1>1, <1>2, <1>5 DEF IInv, RowsTyped
<1>8. PICK step \in AtHand \cup {"resolving", "leaving"}, l \in Locals :
        /\ pc' = [pc EXCEPT ![r] = step] /\ local' = [local EXCEPT ![r] = l]
        /\ step # "leaving" => l.todo \subseteq Recorded
        /\ step \in AtHand => l.name \in Recorded
  <2>1. CASE Ends(r)
    <3>1. pc' = [pc EXCEPT ![r] = "leaving"] /\ local' = [local EXCEPT ![r] = Fresh]
      BY <2>1 DEF Ends, Goes
    <3>2. "leaving" \notin AtHand
      BY DEF AtHand
    <3> QED
      BY <3>1, <3>2, FreshTyped
  <2>2. CASE GoesOn(r, rec) /\ rec = "forecast"
    BY <1>1, <2>2, HandKnown, LocalUnchanged DEF GoesOn, Goes, AtHand
  <2>3. CASE GoesOn(r, rec) /\ rec = "simulated"
    <3> DEFINE k == [Fresh EXCEPT !.todo = local[r].todo]
    <3>1. pc' = [pc EXCEPT ![r] = "resolving"] /\ local' = [local EXCEPT ![r] = k]
      BY <2>3 DEF GoesOn, Goes
    <3>2. k \in Locals /\ k.todo \subseteq Recorded /\ "resolving" \notin AtHand
      BY <1>1, HandKnown DEF AtHand
    <3> HIDE DEF k
    <3> QED
      BY <3>1, <3>2
  <2> QED
    BY <2>1, <2>2, <2>3 DEF PutOutcome, Records
<1>9. Recorded' = Recorded /\ OneSpec'
  BY <1>1, RowsKept
<1>10. RowsTyped'
  BY <1>1, <1>7, <1>8 DEF IInv, RowsTyped, Steps, AtHand
<1>11. ASSUME NEW q \in Runners PROVE TickInv(q)'
  <2>1. CASE q = r
    <3>1. pc'[r] = step /\ local'[r] = l
      BY <1>8 DEF IInv, RowsTyped
    <3>2. step \notin {"card", "fetching"} \cup Issuing /\ step # "recording"
      BY DEF Issuing, AtHand
    <3>3. step \in AtHand \cup {"resolving"} => step # "leaving"
      BY DEF AtHand
    <3> QED
      BY <1>8, <1>9, <2>1, <3>1, <3>2, <3>3 DEF TickInv
  <2>2. CASE q # r
    <3>1. pc'[q] = pc[q] /\ local'[q] = local[q]
      BY <1>8, <2>2 DEF IInv, RowsTyped
    <3> QED
      BY <1>1, <1>9, <3>1, OthersUndisturbed
  <2> QED
    BY <2>1, <2>2
<1> QED
  BY <1>6, <1>9, <1>10, <1>11 DEF IInv

\* The clock, the lease's end and the exclusions touch no forecast, no outcome
\* and no tick (exclude).
LEMMA OtherSteps ==
  ASSUME IInv, UNCHANGED <<experiment, forecasts, outcomes, pc, local>>
  PROVE  IInv'
BY DEF IInv, RowsTyped, OneSpec, TickInv, Recorded

\* Every step of the system keeps the invariant, and is a step of the frozen
\* ledger or leaves it alone.
LEMMA EveryStep ==
  ASSUME IInv, [Next]_vars
  PROVE  IInv' /\ [Frozen!Next]_<<forecasts, outcomes>>
<1>1. CASE WindowOpens \/ LeaseEnds \/ LeaseOutlived \/ UNCHANGED vars
  BY <1>1, OtherSteps DEF WindowOpens, LeaseEnds, LeaseOutlived, ledger, vars
<1>2. ASSUME NEW n \in Names, CheckExclusion(n) \/ Exclude(n)
      PROVE  IInv' /\ [Frozen!Next]_<<forecasts, outcomes>>
  BY <1>2, OtherSteps DEF CheckExclusion, Exclude, ledger
<1>3. ASSUME NEW r \in Runners, Start(r) \/ Leave(r) \/ Crash(r)
      PROVE  IInv' /\ [Frozen!Next]_<<forecasts, outcomes>>
  BY <1>3, LeaseSteps DEF Start, Leave, Crash, ledger
<1>4. ASSUME NEW r \in Runners, Register(r) \/ Fetch(r) \/ Scan(r) \/ Stamp(r)
      PROVE  IInv' /\ [Frozen!Next]_<<forecasts, outcomes>>
  BY <1>4, RegisterStep, FetchStep, ScanStep, StampStep DEF Register, Fetch, Scan, Stamp, ledger
<1>5. ASSUME NEW r \in Runners, Abstain(r) \/ WriteCard(r) \/ FindPending(r) \/ Resolve(r)
      PROVE  IInv' /\ [Frozen!Next]_<<forecasts, outcomes>>
  BY <1>5, CardSteps, ResolveSteps DEF Abstain, WriteCard, FindPending, Resolve, ledger
<1>6. ASSUME NEW r \in Runners, Record(r)
      PROVE  IInv' /\ [Frozen!Next]_<<forecasts, outcomes>>
  BY <1>6, RecordStep
<1>7. ASSUME NEW r \in Runners, NEW rec \in Records, CheckOutcome(r, rec) \/ PutOutcome(r, rec)
      PROVE  IInv' /\ [Frozen!Next]_<<forecasts, outcomes>>
  <2>1. CASE CheckOutcome(r, rec)
    BY <2>1, CheckStepKept DEF CheckOutcome, ledger
  <2>2. CASE PutOutcome(r, rec)
    BY <2>2, PutStepKept
  <2> QED
    BY <1>7, <2>1, <2>2
<1> QED
  BY <1>1, <1>2, <1>3, <1>4, <1>5, <1>6, <1>7 DEF Next, TickStep

\* The store starts empty, and no tick runs.
LEMMA Starts == Init => IInv /\ Frozen!Init
<1> SUFFICES ASSUME Init PROVE IInv /\ Frozen!Init
  OBVIOUS
<1>1. RowsTyped
  BY FreshTyped DEF Init, RowsTyped, Steps
<1>2. Recorded = {}
  BY DEF Init, Recorded
<1>3. ASSUME NEW r \in Runners PROVE TickInv(r)
  <2>1. pc[r] = "idle"
    BY DEF Init
  <2> QED
    BY <2>1 DEF TickInv, Issuing, AtHand
<1>4. Frozen!Init
  BY DEF Init, Frozen!Init
<1> QED
  BY <1>1, <1>2, <1>3, <1>4 DEF IInv, OneSpec

\* Deployments with different specs may register and record in any order: no
\* forecast is ever built from a spec other than the registered one (register,
\* record).
THEOREM OneSpecHolds == Spec => []OneSpec
<1>1. IInv /\ [Next]_vars => IInv'
  BY EveryStep
<1>2. IInv => OneSpec
  BY DEF IInv
<1> QED
  BY Starts, <1>1, <1>2, PTL DEF Spec

\* Whatever ticks race, die or outlive their lease, the store's rows are a frozen
\* ledger: forecasts are written once, final outcomes stand, and no outcome lacks
\* its forecast (put_new, put_unless_final, settle).
THEOREM TicksImplementLedger == Spec => ImplementsLedger
<1>1. IInv /\ [Next]_vars => IInv' /\ [Frozen!Next]_<<forecasts, outcomes>>
  BY EveryStep
<1> QED
  BY Starts, <1>1, PTL DEF Spec, ImplementsLedger, Frozen!Spec

-----------------------------------------------------------------------------
(* The card.                                                               *)

Preparing == {"scanning", "issuing", "recording", "abstaining", "writing"}

\* What a tick has in hand on the way to the card: it has chosen what is on record, and
\* answers every other candidate before it writes, or its spec was refused, and is still.
CardTick(r) ==
  /\ pc[r] \notin Preparing => local[r].rows = {} /\ local[r].chosen = {}
  /\ pc[r] = "scanning" => local[r].chosen = {} /\ Cardinality(local[r].todo) <= MaxPerDay
  /\ local[r].chosen \subseteq Recorded
  /\ pc[r] = "recording" => local[r].name \in local[r].todo
  /\ pc[r] = "abstaining" => local[r].rows \subseteq local[r].chosen \cup local[r].todo \cup abstained
  /\ pc[r] = "writing" => \/ local[r].rows \subseteq local[r].chosen \cup abstained
                          \/ Refused(r) /\ local[r].chosen = {}
  /\ pc[r] \in {"fetching"} \cup Preparing => experiment # None

\* Until a tick outlives its lease there is one, and what it is yet to record fits in the day.
OneTick ==
  outlived = 0 =>
    \A r \in Runners :
      /\ pc[r] # "idle" => lease = r
      /\ pc[r] \in {"issuing", "recording"} => Cardinality(Recorded \cup local[r].todo) <= MaxPerDay

CardInv == IInv /\ CardHolds /\ OneTick /\ \A r \in Runners : CardTick(r)

\* What a step of a tick leaves alone (every action of pipeline.tick).
LEMMA TickFrame ==
  ASSUME NEW r \in Runners, TickStep(r) \/ Crash(r)
  PROVE  /\ UNCHANGED <<phase, excluded, excluding, outlived>>
         /\ UNCHANGED abstained \/ Abstain(r)
         /\ UNCHANGED card \/ WriteCard(r)
         /\ UNCHANGED experiment \/ Register(r)
         /\ lease' \in {lease, r, None}
         /\ faults' = faults \/ (faults < MaxFaults /\ faults' = faults + 1)
<1>1. CASE Start(r) \/ Leave(r) \/ Crash(r)
  BY <1>1 DEF Start, Leave, Crash, ledger
<1>2. CASE Register(r) \/ Fetch(r) \/ Scan(r) \/ Stamp(r) \/ Record(r) \/ Abstain(r) \/ WriteCard(r)
  BY <1>2 DEF Register, Fetch, Scan, Stamp, Record, Abstain, WriteCard, ledger
<1>3. CASE FindPending(r) \/ Resolve(r)
  BY <1>3 DEF FindPending, Resolve, ledger
<1>4. ASSUME NEW rec \in Records, CheckOutcome(r, rec) \/ PutOutcome(r, rec)
      PROVE  UNCHANGED <<phase, lease, experiment, abstained, card, excluded, excluding, outlived, faults>>
  BY <1>4 DEF CheckOutcome, PutOutcome, ledger
<1> QED
  BY <1>1, <1>2, <1>3, <1>4 DEF TickStep

\* Steps of no tick: time, the leases and the exclusions (exclude).
OtherStep ==
  \/ WindowOpens \/ LeaseEnds \/ LeaseOutlived \/ UNCHANGED vars
  \/ \E n \in Names : CheckExclusion(n) \/ Exclude(n)

LEMMA OtherFrame ==
  ASSUME OtherStep
  PROVE  UNCHANGED <<experiment, forecasts, abstained, card, pc, local>>
BY DEF OtherStep, WindowOpens, LeaseEnds, LeaseOutlived, CheckExclusion, Exclude, vars, ledger

LEMMA TwoKinds == [Next]_vars => OtherStep \/ \E r \in Runners : TickStep(r) \/ Crash(r)
BY DEF Next, OtherStep

\* Forecasts, abstentions and the registration are there for good, and so is a lease that
\* was outlived.
LEMMA RecordStands ==
  ASSUME IInv, TypeOK, [Next]_vars
  PROVE  /\ Recorded \subseteq Recorded' /\ \A n \in Recorded : forecasts'[n] = forecasts[n]
         /\ abstained \subseteq abstained' /\ (outlived' = 0 => outlived = 0)
         /\ experiment # None => experiment' = experiment
<1>1. [Frozen!Next]_<<forecasts, outcomes>>
  BY EveryStep
<1>2. \A n \in Names : forecasts[n] # None => forecasts'[n] = forecasts[n]
  <2>1. ASSUME NEW n \in Names, Frozen!Record(n)
        PROVE  \A m \in Names : forecasts[m] # None => forecasts'[m] = forecasts[m]
    BY <2>1 DEF Frozen!Record, IInv, RowsTyped
  <2>2. ASSUME NEW n \in Names, NEW rec \in Records, Frozen!Settle(n, rec) PROVE UNCHANGED forecasts
    BY <2>2 DEF Frozen!Settle
  <2> QED
    BY <1>1, <2>1, <2>2 DEF Frozen!Next
<1>3. CASE OtherStep
  <2>1. outlived' = 0 => outlived = 0
    BY <1>3 DEF OtherStep, WindowOpens, LeaseEnds, LeaseOutlived, CheckExclusion, Exclude, vars, TypeOK
  <2> QED
    BY <1>2, <1>3, <2>1, OtherFrame DEF Recorded
<1>4. ASSUME NEW r \in Runners, TickStep(r) \/ Crash(r)
      PROVE  /\ abstained \subseteq abstained' /\ UNCHANGED outlived
             /\ experiment # None => experiment' = experiment
  BY <1>4, TickFrame DEF Abstain, Register, SpecRegistered
<1> QED
  BY <1>2, <1>3, <1>4, TwoKinds DEF Recorded

\* The rest of the types: the lease, the card and the bounds.
LEMMA TypesKept ==
  ASSUME IInv, IInv', TypeOK, [Next]_vars
  PROVE  TypeOK'
<1> SUFFICES /\ phase' \in {"card", "grade"} /\ lease' \in Runners \cup {None}
             /\ abstained' \subseteq Names /\ card' \in CardRow \cup {None}
             /\ excluded' \subseteq Names /\ excluding' \subseteq Names
             /\ outlived' \in 0 .. MaxOutlived /\ faults' \in 0 .. MaxFaults
  BY DEF IInv, RowsTyped, TypeOK
<1>1. MaxOutlived \in Nat /\ MaxFaults \in Nat
  BY BoundsAssumption
<1>2. CASE OtherStep
  <2>1. UNCHANGED <<abstained, card>>
    BY <1>2, OtherFrame
  <2> QED
    BY <1>1, <1>2, <2>1
    DEF TypeOK, OtherStep, WindowOpens, LeaseEnds, LeaseOutlived, CheckExclusion, Exclude, vars, ledger
<1>3. ASSUME NEW r \in Runners, TickStep(r) \/ Crash(r)
      PROVE  /\ abstained' \subseteq Names /\ card' \in CardRow \cup {None}
             /\ UNCHANGED <<phase, excluded, excluding, outlived>>
             /\ lease' \in Runners \cup {None} /\ faults' \in 0 .. MaxFaults
  <2>1. ASSUME Abstain(r) PROVE abstained' \subseteq Names
    BY <2>1 DEF Abstain, TypeOK, Locals
  <2>2. ASSUME WriteCard(r) PROVE card' \in CardRow
    <3>1. local[r] \in Locals
      BY DEF TypeOK
    <3>2. \A n \in Names : forecasts[n] # None => forecasts[n].ref \in Refs
      BY DEF TypeOK, ForecastRow
    <3> DEFINE levels == [n \in Names |-> IF n \in local[r].chosen /\ forecasts[n] # None
                                          THEN forecasts[n].ref ELSE None]
    <3>3. levels \in [Names -> Refs \cup {None}]
      BY <3>2
    <3>4. card' = [names |-> local[r].chosen, rows |-> local[r].rows, levels |-> levels,
                     refused |-> Refused(r)]
      BY <2>2 DEF WriteCard
    <3>5. Refused(r) \in BOOLEAN
      BY DEF Refused
    <3> HIDE DEF levels
    <3> QED
      BY <3>1, <3>3, <3>4, <3>5 DEF CardRow, Locals
  <2>3. /\ UNCHANGED abstained \/ Abstain(r)
        /\ UNCHANGED card \/ WriteCard(r)
        /\ UNCHANGED <<phase, excluded, excluding, outlived>>
        /\ lease' \in {lease, r, None}
        /\ faults' = faults \/ (faults < MaxFaults /\ faults' = faults + 1)
    BY <1>3, TickFrame
  <2>4. lease' \in Runners \cup {None} /\ faults' \in 0 .. MaxFaults
    BY <1>1, <2>3 DEF TypeOK
  <2> QED
    BY <2>1, <2>2, <2>3, <2>4 DEF TypeOK
<1> QED
  BY <1>2, <1>3, TwoKinds DEF TypeOK

\* A step of one runner is none of another.
LEMMA OneActs ==
  ASSUME IInv, NEW r \in Runners, TickStep(r) \/ Crash(r), NEW q \in Runners, q # r
  PROVE  pc'[q] = pc[q] /\ local'[q] = local[q]
<1>0. pc \in [Runners -> Steps] /\ local \in [Runners -> Locals]
  BY DEF IInv, RowsTyped
<1>1. CASE Start(r) \/ Leave(r) \/ Crash(r)
  BY <1>0, <1>1 DEF Start, Leave, Crash, Goes
<1>2. CASE Register(r) \/ Fetch(r) \/ Scan(r) \/ WriteCard(r)
  BY <1>0, <1>2 DEF Register, Fetch, Scan, WriteCard, Goes, Ends
<1>3. CASE Stamp(r) \/ Record(r) \/ Abstain(r)
  BY <1>0, <1>3 DEF Stamp, Record, Abstain, Goes, Ends
<1>4. CASE FindPending(r) \/ Resolve(r)
  BY <1>0, <1>4 DEF FindPending, Resolve, Goes, Ends
<1>5. ASSUME NEW rec \in Records, CheckOutcome(r, rec) \/ PutOutcome(r, rec)
      PROVE  pc'[q] = pc[q] /\ local'[q] = local[q]
  BY <1>0, <1>5 DEF CheckOutcome, PutOutcome, Goes, GoesOn, Ends
<1> QED
  BY <1>1, <1>2, <1>3, <1>4, <1>5 DEF TickStep

LEMMA OthersKeepCard ==
  ASSUME NEW q \in Runners, CardTick(q), pc'[q] = pc[q], local'[q] = local[q],
         Recorded \subseteq Recorded', abstained \subseteq abstained',
         experiment # None => experiment' = experiment
  PROVE  CardTick(q)'
BY DEF CardTick, Preparing, Refused

\* A tick that is through has nothing in hand.
LEMMA EndsCardless ==
  ASSUME IInv, NEW r \in Runners, Ends(r)
  PROVE  CardTick(r)' /\ pc'[r] = "leaving"
<1>1. pc'[r] = "leaving" /\ local'[r] = Fresh
  BY DEF IInv, RowsTyped, Ends, Goes
<1> QED
  BY <1>1 DEF CardTick, Preparing, Fresh

\* A step of a tick that leaves what it chose and the rows as they were, outside the steps
\* to the card.
LEMMA CardlessStep ==
  ASSUME IInv, NEW r \in Runners, CardTick(r), pc[r] \notin Preparing,
         NEW step \in Steps \ Preparing, NEW l \in Locals,
         l.rows \in {local[r].rows, {}}, l.chosen \in {local[r].chosen, {}},
         step = "fetching" => experiment' # None,
         pc' = [pc EXCEPT ![r] = step], local' = [local EXCEPT ![r] = l]
  PROVE  CardTick(r)'
<1>1. pc'[r] = step /\ local'[r] = l
  BY DEF IInv, RowsTyped
<1> QED
  BY <1>1 DEF CardTick, Preparing

\* The lease of a tick, its register and its grading have no card in hand.
LEMMA CardlessSteps ==
  ASSUME IInv, NEW r \in Runners, CardTick(r),
         \/ Start(r) \/ Leave(r) \/ Crash(r) \/ Register(r) \/ FindPending(r) \/ Resolve(r)
         \/ \E rec \in Records : CheckOutcome(r, rec) \/ PutOutcome(r, rec)
  PROVE  CardTick(r)'
<1>0. local[r] \in Locals /\ pc[r] \in Steps /\ Fresh \in Locals
      /\ local \in [Runners -> Locals] /\ pc \in [Runners -> Steps] /\ Recorded \subseteq Names
  BY FreshTyped DEF IInv, RowsTyped, Recorded
<1>1. CASE Ends(r)
  BY <1>1, EndsCardless
<1>2. CASE Start(r)
  <2>1. pc[r] = "idle"
    BY <1>2 DEF Start
  <2>2. CASE Goes(r, "resolve") /\ UNCHANGED local
    BY <1>0, <2>1, <2>2, LocalUnchanged, CardlessStep DEF Goes, Steps, Preparing
  <2>3. ASSUME NEW s \in Specs, Goes(r, "card"), local' = [local EXCEPT ![r].spec = s]
        PROVE  CardTick(r)'
    <3> DEFINE l == [local[r] EXCEPT !.spec = s]
    <3>1. l \in Locals /\ l.rows = local[r].rows /\ l.chosen = local[r].chosen /\ local' = [local EXCEPT ![r] = l]
      BY <1>0, <2>3 DEF Locals
    <3> HIDE DEF l
    <3> QED
      BY <2>1, <2>3, <3>1, CardlessStep DEF Goes, Steps, Preparing
  <2> QED
    BY <1>2, <2>2, <2>3 DEF Start
<1>3. CASE Leave(r)
  BY <1>0, <1>3, LocalUnchanged, CardlessStep DEF Leave, Goes, Steps, Preparing
<1>4. CASE Crash(r)
  <2>1. pc'[r] = "idle" /\ local'[r] = Fresh
    BY <1>0, <1>4 DEF Crash, Goes
  <2> QED
    BY <2>1 DEF CardTick, Preparing, Fresh
<1>5. CASE Register(r)
  <2>1. pc[r] = "card" /\ local[r].spec # None
    BY <1>5, NoneAssumption DEF Register, IInv, TickInv
  <2>2. CASE Goes(r, "fetching") /\ UNCHANGED local /\ experiment' = SpecRegistered(local[r].spec)
    <3>1. experiment' # None
      BY <2>1, <2>2 DEF SpecRegistered
    <3> QED
      BY <1>0, <2>1, <2>2, <3>1, LocalUnchanged, CardlessStep DEF Goes, Steps, Preparing
  <2> QED
    BY <1>1, <1>5, <2>2 DEF Register
<1>6. CASE FindPending(r)
  <2> DEFINE l == [local[r] EXCEPT !.todo = Pending]
  <2>1. Pending \subseteq Names
    BY <1>0 DEF Pending
  <2>2. l \in Locals /\ l.rows = local[r].rows /\ l.chosen = local[r].chosen /\ local' = [local EXCEPT ![r] = l]
    BY <1>0, <1>6, <2>1 DEF FindPending, Locals
  <2> HIDE DEF l
  <2> QED
    BY <1>6, <2>2, CardlessStep DEF FindPending, Goes, Steps, Preparing
<1>7. CASE Resolve(r)
  <2>1. pc[r] = "resolving"
    BY <1>7 DEF Resolve
  <2>2. ASSUME NEW n \in local[r].todo, NEW v \in Verdicts, Goes(r, "check forecast"),
               local' = [local EXCEPT ![r].todo = @ \ {n}, ![r].name = n, ![r].verdict = v]
        PROVE  CardTick(r)'
    <3> DEFINE l == [local[r] EXCEPT !.todo = @ \ {n}, !.name = n, !.verdict = v]
    <3>1. n \in Names /\ v \in [Records -> Outcomes]
      BY <1>0 DEF Locals, Verdicts
    <3>2. l \in Locals /\ l.rows = local[r].rows /\ l.chosen = local[r].chosen /\ local' = [local EXCEPT ![r] = l]
      BY <1>0, <2>2, <3>1 DEF Locals
    <3> HIDE DEF l
    <3> QED
      BY <2>1, <2>2, <3>2, CardlessStep DEF Goes, Steps, Preparing
  <2> QED
    BY <1>1, <1>7, <2>2 DEF Resolve
<1>8. ASSUME NEW rec \in Records, CheckOutcome(r, rec) \/ PutOutcome(r, rec) PROVE CardTick(r)'
  <2>1. pc[r] \in AtHand /\ pc[r] \notin Preparing
    BY <1>8 DEF CheckOutcome, PutOutcome, CheckStep, PutStep, AtHand, Preparing, Records
  <2>2. CASE GoesOn(r, rec)
    <3>1. CASE rec = "forecast"
      BY <1>0, <2>1, <2>2, <3>1, LocalUnchanged, CardlessStep DEF GoesOn, Goes, Steps, Preparing
    <3>2. CASE rec # "forecast"
      <4> DEFINE l == [Fresh EXCEPT !.todo = local[r].todo]
      <4>1. l \in Locals /\ l.rows = {} /\ l.chosen = {}
        BY <2>1, HandKnown DEF Fresh
      <4>2. local' = [local EXCEPT ![r] = l] /\ Goes(r, "resolving")
        BY <2>2, <3>2 DEF GoesOn
      <4> HIDE DEF l
      <4> QED
        BY <2>1, <4>1, <4>2, CardlessStep DEF Goes, Steps, Preparing
    <3> QED
      BY <3>1, <3>2
  <2>3. CASE Goes(r, PutStep[rec]) /\ UNCHANGED local
    <3>1. PutStep[rec] \in Steps \ Preparing /\ PutStep[rec] # "fetching"
      BY DEF PutStep, Steps, Preparing, Records
    <3> QED
      BY <1>0, <2>1, <2>3, <3>1, LocalUnchanged, CardlessStep DEF Goes
  <2> QED
    BY <1>1, <1>8, <2>2, <2>3 DEF CheckOutcome, PutOutcome
<1> QED
  BY <1>2, <1>3, <1>4, <1>5, <1>6, <1>7, <1>8

\* What was stored is on record.
LEMMA RecordedByRecord ==
  ASSUME IInv, NEW r \in Runners, Record(r)
  PROVE  local[r].name \in Names /\ Recorded' = Recorded \cup {local[r].name}
<1> DEFINE n == local[r].name
           row == [ref |-> local[r].ref, spec |-> local[r].spec]
<1>1. pc[r] = "recording" /\ forecasts' = [forecasts EXCEPT ![n] = ForecastStored(n, row)]
  BY DEF Record
<1>2. /\ n \in Names /\ local[r].spec \in Specs /\ local[r].ref \in Refs
      /\ forecasts \in [Names -> ForecastRow \cup {None}]
  BY <1>1 DEF IInv, TickInv, Issuing, RowsTyped
<1>3. row \in ForecastRow /\ row # None
  BY <1>2, NoRowAssumption DEF ForecastRow
<1>4. ForecastStored(n, row) # None
  BY <1>3 DEF ForecastStored
<1> HIDE DEF row
<1> QED
  BY <1>1, <1>2, <1>4 DEF Recorded

\* The steps to the card: what is chosen is recorded, and what is not is answered.
LEMMA CardfulSteps ==
  ASSUME IInv, NEW r \in Runners, CardTick(r), Recorded \subseteq Recorded', abstained \subseteq abstained',
         experiment # None => experiment' = experiment,
         Fetch(r) \/ Scan(r) \/ Stamp(r) \/ Record(r) \/ Abstain(r) \/ WriteCard(r)
  PROVE  CardTick(r)'
<1>0. local[r] \in Locals /\ local \in [Runners -> Locals] /\ pc \in [Runners -> Steps]
  BY DEF IInv, RowsTyped
<1>1. experiment' # None
  BY DEF Fetch, Scan, Stamp, Record, Abstain, WriteCard, CardTick, Preparing
<1>2. CASE Ends(r)
  BY <1>2, EndsCardless
<1>3. CASE Fetch(r)
  <2>1. /\ pc[r] = "fetching" /\ local[r].rows = {} /\ local[r].chosen = {}
        /\ experiment # None /\ experiment' = experiment
    BY <1>3 DEF Fetch, CardTick, Preparing
  <2>2. ASSUME NEW rows \in SUBSET Names, Refused(r), Goes(r, "writing"),
               local' = [local EXCEPT ![r].rows = rows]
        PROVE  CardTick(r)'
    <3>1. pc'[r] = "writing" /\ local'[r].chosen = {} /\ local'[r].spec = local[r].spec
      BY <1>0, <2>1, <2>2 DEF Goes, Locals
    <3> QED
      BY <2>1, <2>2, <3>1 DEF CardTick, Preparing, Refused
  <2>3. ASSUME NEW rows \in SUBSET Names, NEW top \in SUBSET Names, NEW ref \in Refs,
               Cardinality(top) <= MaxPerDay, Goes(r, "scanning"),
               local' = [local EXCEPT ![r].rows = rows, ![r].todo = top, ![r].ref = ref]
        PROVE  CardTick(r)'
    <3>1. pc'[r] = "scanning" /\ local'[r].chosen = {} /\ local'[r].todo = top
      BY <1>0, <2>1, <2>3 DEF Goes, Locals
    <3> QED
      BY <2>1, <2>3, <3>1 DEF CardTick, Preparing
  <2>4. ASSUME NEW rows \in SUBSET Names, NEW top \in SUBSET rows PROVE top \in SUBSET Names
    OBVIOUS
  <2> QED
    BY <1>2, <1>3, <2>2, <2>3, <2>4 DEF Fetch
<1>4. CASE Scan(r)
  <2>1. CASE Prior = {}
    <3>1. pc'[r] = "issuing" /\ local'[r] = local[r]
      BY <1>0, <1>4, <2>1 DEF Scan, Goes
    <3> QED
      BY <1>1, <3>1 DEF CardTick, Preparing
  <2>2. CASE Prior # {}
    <3> DEFINE kept == local[r].rows \cap Prior
    <3>1. local' = [local EXCEPT ![r].chosen = kept, ![r].todo = local[r].rows \ kept] /\ Goes(r, "abstaining")
      BY <1>4, <2>2 DEF Scan
    <3>2. /\ pc'[r] = "abstaining" /\ local'[r].chosen = kept /\ local'[r].todo = local[r].rows \ kept
          /\ local'[r].rows = local[r].rows
      BY <1>0, <3>1 DEF Goes, Locals
    <3> QED
      BY <1>1, <3>2 DEF CardTick, Preparing, Prior
  <2> QED
    BY <2>1, <2>2
<1>5. CASE Stamp(r)
  <2>1. pc[r] = "issuing"
    BY <1>5 DEF Stamp
  <2>2. CASE local' = [local EXCEPT ![r].todo = Unanswered(r)] /\ Goes(r, "abstaining")
    <3>1. /\ pc'[r] = "abstaining" /\ local'[r].chosen = local[r].chosen
          /\ local'[r].todo = local[r].rows \ local[r].chosen /\ local'[r].rows = local[r].rows
      BY <1>0, <2>2 DEF Goes, Locals, Unanswered
    <3> QED
      BY <1>1, <3>1 DEF CardTick, Preparing
  <2>3. ASSUME NEW n \in local[r].todo, local' = [local EXCEPT ![r].name = n], Goes(r, "recording")
        PROVE  CardTick(r)'
    <3>1. /\ pc'[r] = "recording" /\ local'[r].chosen = local[r].chosen /\ local'[r].name = n
          /\ local'[r].todo = local[r].todo
      BY <1>0, <2>3 DEF Goes, Locals
    <3> QED
      BY <1>1, <3>1 DEF CardTick, Preparing
  <2>4. ASSUME NEW n \in local[r].todo, local' = [local EXCEPT ![r].name = n, ![r].todo = @ \ {n}],
               UNCHANGED pc
        PROVE  CardTick(r)'
    <3>1. pc'[r] = "issuing" /\ local'[r].chosen = local[r].chosen
      BY <1>0, <2>1, <2>4 DEF Locals
    <3> QED
      BY <1>1, <3>1 DEF CardTick, Preparing
  <2> QED
    BY <1>5, <2>2, <2>3, <2>4 DEF Stamp
<1>6. CASE Record(r)
  <2> DEFINE n == local[r].name
  <2>1. pc[r] = "recording" /\ n \in Names
    BY <1>6 DEF Record, IInv, TickInv
  <2>2. CASE local' = [local EXCEPT ![r].todo = @ \ {n}, ![r].chosen = @ \cup {n}] /\ Goes(r, "issuing")
    <3>1. pc'[r] = "issuing" /\ local'[r].chosen = local[r].chosen \cup {n}
      BY <1>0, <2>2 DEF Goes, Locals
    <3>2. n \in Recorded'
      BY <1>6, <2>1, RecordedByRecord
    <3> QED
      BY <1>1, <3>1, <3>2 DEF CardTick, Preparing
  <2> QED
    BY <1>2, <1>6, <2>2 DEF Record
<1>7. CASE Abstain(r)
  <2>1. pc[r] = "abstaining" /\ UNCHANGED experiment
    BY <1>7 DEF Abstain
  <2>2. CASE local[r].todo = {} /\ Goes(r, "writing") /\ UNCHANGED <<abstained, local>>
    <3>1. pc'[r] = "writing" /\ local'[r] = local[r]
      BY <1>0, <2>2 DEF Goes
    <3> QED
      BY <2>1, <2>2, <3>1 DEF CardTick, Preparing
  <2>3. ASSUME NEW n \in local[r].todo, abstained' = abstained \cup {n}, UNCHANGED pc,
               local' = [local EXCEPT ![r].todo = @ \ {n}]
        PROVE  CardTick(r)'
    <3>1. /\ pc'[r] = "abstaining" /\ local'[r].chosen = local[r].chosen /\ local'[r].rows = local[r].rows
          /\ local'[r].todo = local[r].todo \ {n}
      BY <1>0, <2>1, <2>3 DEF Locals
    <3> QED
      BY <2>1, <2>3, <3>1 DEF CardTick, Preparing
  <2> QED
    BY <1>7, <2>2, <2>3 DEF Abstain
<1>8. CASE WriteCard(r)
  BY <1>2, <1>8 DEF WriteCard
<1> QED
  BY <1>3, <1>4, <1>5, <1>6, <1>7, <1>8

LEMMA CardTicksKept ==
  ASSUME CardInv, [Next]_vars, NEW q \in Runners
  PROVE  CardTick(q)'
<1>1. IInv /\ TypeOK /\ CardTick(q)
  BY DEF CardInv, CardHolds
<1>2. /\ Recorded \subseteq Recorded' /\ abstained \subseteq abstained'
      /\ experiment # None => experiment' = experiment
  BY <1>1, RecordStands
<1>3. CASE OtherStep
  BY <1>1, <1>2, <1>3, OtherFrame, OthersKeepCard
<1>4. ASSUME NEW r \in Runners, TickStep(r) \/ Crash(r) PROVE CardTick(q)'
  <2>1. CASE q = r
    BY <1>1, <1>2, <1>4, <2>1, CardlessSteps, CardfulSteps DEF TickStep
  <2>2. CASE q # r
    <3>1. pc'[q] = pc[q] /\ local'[q] = local[q]
      BY <1>1, <1>4, <2>2, OneActs
    <3> QED
      BY <1>1, <1>2, <3>1, OthersKeepCard
  <2> QED
    BY <2>1, <2>2
<1> QED
  BY <1>3, <1>4, TwoKinds

\* The card that is written names what is on record, and it stays so.
LEMMA CardKept ==
  ASSUME CardInv, [Next]_vars
  PROVE  EveryCandidateAnswered' /\ LevelsOnCard'
<1>1. IInv /\ TypeOK /\ EveryCandidateAnswered /\ LevelsOnCard
  BY DEF CardInv, CardHolds
<1>2. /\ Recorded \subseteq Recorded' /\ \A n \in Recorded : forecasts'[n] = forecasts[n]
      /\ abstained \subseteq abstained'
  BY <1>1, RecordStands
<1>3. CASE UNCHANGED card
  <2>1. EveryCandidateAnswered'
    BY <1>1, <1>2, <1>3 DEF EveryCandidateAnswered
  <2>2. LevelsOnCard'
    BY <1>1, <1>2, <1>3 DEF LevelsOnCard
  <2> QED
    BY <2>1, <2>2
<1>4. ASSUME NEW r \in Runners, WriteCard(r) PROVE EveryCandidateAnswered' /\ LevelsOnCard'
  <2>1. /\ local[r].chosen \subseteq Recorded /\ local[r].chosen \subseteq Names
        /\ \/ local[r].rows \subseteq local[r].chosen \cup abstained
           \/ Refused(r) /\ local[r].chosen = {}
    BY <1>1, <1>4 DEF CardInv, CardTick, WriteCard, TypeOK, Locals
  <2>2. /\ card'.rows = local[r].rows /\ card'.names = local[r].chosen /\ card'.refused = Refused(r)
        /\ \A n \in local[r].chosen : forecasts[n] # None => card'.levels[n] = forecasts[n].ref
    BY <1>4, <2>1 DEF WriteCard
  <2>3. EveryCandidateAnswered'
    BY <1>2, <2>1, <2>2 DEF EveryCandidateAnswered
  <2>4. LevelsOnCard'
    BY <1>2, <2>1, <2>2 DEF LevelsOnCard, Recorded
  <2> QED
    BY <2>3, <2>4
<1> QED
  BY <1>3, <1>4, TwoKinds, OtherFrame, TickFrame

\* A tick that has not ended its life holds on to its lease.
LEMMA LeaseKept ==
  ASSUME IInv, NEW r \in Runners, TickStep(r) \/ Crash(r)
  PROVE  \/ Start(r)
         \/ pc[r] # "idle" /\ (pc'[r] = "idle" \/ lease' = lease)
<1>0. pc \in [Runners -> Steps]
  BY DEF IInv, RowsTyped
<1>1. CASE Leave(r) \/ Crash(r)
  BY <1>0, <1>1 DEF Leave, Crash, Goes
<1>2. CASE Register(r) \/ Fetch(r) \/ Scan(r) \/ Stamp(r) \/ Record(r) \/ Abstain(r) \/ WriteCard(r)
  BY <1>2 DEF Register, Fetch, Scan, Stamp, Record, Abstain, WriteCard
<1>3. CASE FindPending(r) \/ Resolve(r)
  BY <1>3 DEF FindPending, Resolve
<1>4. ASSUME NEW rec \in Records, CheckOutcome(r, rec) \/ PutOutcome(r, rec)
      PROVE  pc[r] # "idle" /\ lease' = lease
  BY <1>4 DEF CheckOutcome, PutOutcome, CheckStep, PutStep, Records
<1> QED
  BY <1>1, <1>2, <1>3, <1>4 DEF TickStep

\* Only these steps leave a tick about to record.
LEMMA IssuingSteps ==
  ASSUME IInv, NEW r \in Runners, TickStep(r) \/ Crash(r), pc'[r] \in {"issuing", "recording"}
  PROVE  Scan(r) \/ Stamp(r) \/ Record(r)
<1>0. pc \in [Runners -> Steps]
  BY DEF IInv, RowsTyped
<1>1. CASE Start(r) \/ Leave(r) \/ Crash(r)
  BY <1>0, <1>1 DEF Start, Leave, Crash, Goes
<1>2. CASE Register(r) \/ Fetch(r) \/ Abstain(r) \/ WriteCard(r)
  BY <1>0, <1>2 DEF Register, Fetch, Abstain, WriteCard, Goes, Ends
<1>3. CASE FindPending(r) \/ Resolve(r)
  BY <1>0, <1>3 DEF FindPending, Resolve, Goes, Ends
<1>4. ASSUME NEW rec \in Records, CheckOutcome(r, rec) \/ PutOutcome(r, rec)
      PROVE  FALSE
  BY <1>0, <1>4 DEF CheckOutcome, PutOutcome, CheckStep, PutStep, Records, Goes, GoesOn, Ends
<1> QED
  BY <1>1, <1>2, <1>3, <1>4 DEF TickStep

\* What a tick is yet to record does not grow (_issue_top, record).
LEMMA IssuingKept ==
  ASSUME IInv, OneTick, outlived = 0, NEW r \in Runners, CardTick(r),
         Scan(r) \/ Stamp(r) \/ Record(r), pc'[r] \in {"issuing", "recording"}
  PROVE  Cardinality(Recorded' \cup local'[r].todo) <= MaxPerDay
<1>0. /\ local[r] \in Locals /\ local \in [Runners -> Locals] /\ pc \in [Runners -> Steps]
      /\ Recorded \subseteq Names /\ local[r].todo \subseteq Names
  BY DEF IInv, RowsTyped, Recorded, Locals
<1>1. CASE Scan(r)
  <2>1. Prior = {} /\ UNCHANGED local /\ pc[r] = "scanning" /\ UNCHANGED forecasts
    BY <1>0, <1>1 DEF Scan, Goes, ledger
  <2>2. Recorded' = {} /\ Cardinality(local'[r].todo) <= MaxPerDay
    BY <2>1 DEF Prior, Recorded, CardTick
  <2>3. Recorded' \cup local'[r].todo = local'[r].todo
    BY <2>2
  <2> QED
    BY <2>2, <2>3
<1>2. ASSUME pc[r] \in {"issuing", "recording"},
             Recorded' \cup local'[r].todo \subseteq Recorded \cup local[r].todo
      PROVE  Cardinality(Recorded' \cup local'[r].todo) <= MaxPerDay
  <2> DEFINE S == Recorded \cup local[r].todo
             T == Recorded' \cup local'[r].todo
  <2>1. IsFiniteSet(S) /\ Cardinality(S) <= MaxPerDay
    BY <1>0, <1>2, NamesAssumption, FS_Subset DEF OneTick
  <2>2. T \subseteq S
    BY <1>2
  <2> HIDE DEF S, T
  <2>3. Cardinality(T) <= Cardinality(S) /\ Cardinality(T) \in Nat /\ Cardinality(S) \in Nat
    BY <2>1, <2>2, FS_Subset, FS_CardinalityType
  <2>4. Cardinality(T) <= MaxPerDay
    BY <2>1, <2>3, BoundsAssumption
  <2> QED
    BY <2>4 DEF T
<1>3. CASE Stamp(r)
  <2>1. pc[r] = "issuing" /\ Recorded' = Recorded
    BY <1>3 DEF Stamp, ledger, Recorded
  <2>2. local'[r].todo \subseteq local[r].todo
    <3>1. ~Goes(r, "abstaining")
      BY <1>0 DEF Goes
    <3>2. PICK n \in local[r].todo : \/ local' = [local EXCEPT ![r].name = n]
                                     \/ local' = [local EXCEPT ![r].name = n, ![r].todo = @ \ {n}]
      BY <1>3, <3>1 DEF Stamp
    <3> QED
      BY <1>0, <3>2 DEF Locals
  <2> QED
    BY <1>2, <2>1, <2>2
<1>4. CASE Record(r)
  <2>1. pc[r] = "recording" /\ Recorded' = Recorded \cup {local[r].name} /\ local[r].name \in local[r].todo
    BY <1>4, RecordedByRecord DEF Record, CardTick
  <2>2. local'[r].todo \subseteq local[r].todo
    <3>1. pc'[r] # "leaving"
      OBVIOUS
    <3> QED
      BY <1>0, <1>4, <3>1 DEF Record, Goes, Ends, Locals
  <2> QED
    BY <1>2, <2>1, <2>2
<1> QED
  BY <1>1, <1>3, <1>4

LEMMA OneTickKept ==
  ASSUME CardInv, [Next]_vars
  PROVE  OneTick'
<1>0. IInv /\ TypeOK /\ OneTick
  BY DEF CardInv, CardHolds
<1> SUFFICES ASSUME outlived' = 0, NEW q \in Runners
             PROVE  /\ pc'[q] # "idle" => lease' = q
                    /\ pc'[q] \in {"issuing", "recording"} =>
                         Cardinality(Recorded' \cup local'[q].todo) <= MaxPerDay
  BY DEF OneTick
<1>1. outlived = 0
  BY <1>0, RecordStands
<1>2. CASE OtherStep
  <2>1. UNCHANGED <<forecasts, pc, local>> /\ Recorded' = Recorded
    BY <1>2, OtherFrame DEF Recorded
  <2>2. pc[q] # "idle" => lease' = q
    <3> SUFFICES ASSUME pc[q] # "idle" PROVE lease' = q
      OBVIOUS
    <3>1. lease = q
      BY <1>0, <1>1 DEF OneTick
    <3>2. ~LeaseEnds /\ ~LeaseOutlived
      BY <1>1, <3>1 DEF LeaseEnds, LeaseOutlived
    <3>3. UNCHANGED lease
      BY <1>2, <3>2 DEF OtherStep, WindowOpens, CheckExclusion, Exclude, vars
    <3> QED
      BY <3>1, <3>3
  <2> QED
    BY <1>0, <1>1, <2>1, <2>2 DEF OneTick
<1>3. ASSUME NEW r \in Runners, TickStep(r) \/ Crash(r)
      PROVE  /\ pc'[q] # "idle" => lease' = q
             /\ pc'[q] \in {"issuing", "recording"} =>
                  Cardinality(Recorded' \cup local'[q].todo) <= MaxPerDay
  <2>0. Start(r) \/ (pc[r] # "idle" /\ (pc'[r] = "idle" \/ lease' = lease))
    BY <1>0, <1>3, LeaseKept
  <2>1. CASE q = r
    <3>1. pc'[r] # "idle" => lease' = r
      BY <1>0, <1>1, <2>0 DEF OneTick, Start
    <3>2. pc'[r] \in {"issuing", "recording"} =>
            Cardinality(Recorded' \cup local'[r].todo) <= MaxPerDay
      BY <1>0, <1>1, <1>3, IssuingSteps, IssuingKept DEF CardInv
    <3> QED
      BY <2>1, <3>1, <3>2
  <2>2. CASE q # r
    <3>1. pc'[q] = pc[q]
      BY <1>0, <1>3, <2>2, OneActs
    <3>2. pc[q] = "idle"
      <4> SUFFICES ASSUME pc[q] # "idle" PROVE FALSE
        OBVIOUS
      <4>1. lease = q
        BY <1>0, <1>1 DEF OneTick
      <4> QED
        BY <1>0, <1>1, <2>0, <2>2, <4>1, NoneAssumption DEF OneTick, Start
    <3> QED
      BY <3>1, <3>2
  <2> QED
    BY <2>1, <2>2
<1> QED
  BY <1>2, <1>3, TwoKinds

\* Only a tick records, and what it records it was about to.
LEMMA OneSetKept ==
  ASSUME CardInv, [Next]_vars
  PROVE  OneSet'
<1>0. IInv /\ TypeOK /\ OneTick /\ OneSet
  BY DEF CardInv, CardHolds
<1> SUFFICES ASSUME outlived' = 0 PROVE Cardinality(Recorded') <= MaxPerDay
  BY DEF OneSet
<1>1. outlived = 0
  BY <1>0, RecordStands
<1>2. CASE UNCHANGED forecasts
  <2>1. Recorded' = Recorded
    BY <1>2 DEF Recorded
  <2> QED
    BY <1>0, <1>1, <2>1 DEF OneSet
<1>3. ASSUME NEW r \in Runners, Record(r) PROVE Cardinality(Recorded') <= MaxPerDay
  <2> DEFINE S == Recorded \cup local[r].todo
             T == Recorded \cup {local[r].name}
  <2>1. Recorded' = T /\ pc[r] = "recording" /\ local[r].name \in local[r].todo
    BY <1>0, <1>3, RecordedByRecord DEF Record, CardInv, CardTick
  <2>2. Cardinality(S) <= MaxPerDay /\ T \subseteq S
    BY <1>0, <1>1, <2>1 DEF OneTick
  <2>3. S \subseteq Names
    BY <1>0 DEF IInv, RowsTyped, Recorded, Locals
  <2> HIDE DEF S, T
  <2>4. Cardinality(T) <= Cardinality(S) /\ Cardinality(T) \in Nat /\ Cardinality(S) \in Nat
    BY <2>2, <2>3, NamesAssumption, FS_Subset, FS_CardinalityType
  <2> QED
    BY <2>1, <2>2, <2>4, BoundsAssumption
<1>4. UNCHANGED forecasts \/ \E r \in Runners : Record(r)
  <2>1. ASSUME NEW r \in Runners, TickStep(r) \/ Crash(r) PROVE UNCHANGED forecasts \/ Record(r)
    <3>1. CASE Start(r) \/ Leave(r) \/ Crash(r) \/ Register(r) \/ Fetch(r) \/ Scan(r) \/ Stamp(r)
      BY <3>1 DEF Start, Leave, Crash, Register, Fetch, Scan, Stamp, ledger
    <3>2. CASE Abstain(r) \/ WriteCard(r) \/ FindPending(r) \/ Resolve(r)
      BY <3>2 DEF Abstain, WriteCard, FindPending, Resolve, ledger
    <3>3. ASSUME NEW rec \in Records, CheckOutcome(r, rec) \/ PutOutcome(r, rec)
          PROVE  UNCHANGED forecasts
      BY <3>3 DEF CheckOutcome, PutOutcome, ledger
    <3> QED
      BY <2>1, <3>1, <3>2, <3>3 DEF TickStep
  <2> QED
    BY <2>1, TwoKinds, OtherFrame
<1> QED
  BY <1>2, <1>3, <1>4

\* Whatever ticks race, die or come too late, the card of the day leaves no candidate behind it
\* unanswered, unless it says that its spec was refused and names none, and names recorded forecasts at the levels that are graded; and until a tick
\* outlives its lease, re-runs add none beyond max_per_day (morning_card, _issue_top).
THEOREM CardIsTheRecord == Spec => []CardHolds
<1>1. Init => CardInv
  <2> SUFFICES ASSUME Init PROVE CardInv
    OBVIOUS
  <2>1. IInv
    BY Starts
  <2>2. Recorded = {}
    BY DEF Init, Recorded
  <2>3. TypeOK
    BY <2>1, BoundsAssumption DEF Init, IInv, RowsTyped, TypeOK
  <2>4. EveryCandidateAnswered /\ LevelsOnCard
    BY DEF Init, EveryCandidateAnswered, LevelsOnCard
  <2>5. OneSet
    BY <2>2, FS_EmptySet, BoundsAssumption DEF OneSet
  <2>6. OneTick
    BY DEF Init, OneTick
  <2>7. \A r \in Runners : CardTick(r)
    BY <2>2 DEF Init, CardTick, Preparing, Fresh
  <2> QED
    BY <2>1, <2>3, <2>4, <2>5, <2>6, <2>7 DEF CardInv, CardHolds
<1>2. CardInv /\ [Next]_vars => CardInv'
  <2> SUFFICES ASSUME CardInv, [Next]_vars PROVE CardInv'
    OBVIOUS
  <2>1. IInv /\ TypeOK
    BY DEF CardInv, CardHolds
  <2>2. IInv'
    BY <2>1, EveryStep
  <2>3. TypeOK'
    BY <2>1, <2>2, TypesKept
  <2>4. EveryCandidateAnswered' /\ LevelsOnCard' /\ OneTick' /\ OneSet'
    BY CardKept, OneTickKept, OneSetKept
  <2>5. \A r \in Runners : CardTick(r)'
    BY CardTicksKept
  <2> QED
    BY <2>2, <2>3, <2>4, <2>5 DEF CardInv, CardHolds
<1>3. CardInv => CardHolds
  BY DEF CardInv
<1> QED
  BY <1>1, <1>2, <1>3, PTL DEF Spec
=============================================================================
