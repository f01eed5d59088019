------------------------------ MODULE EdgeTick ------------------------------
(***************************************************************************)
(* One experiment and one session of the edge shadow: the tick that runs   *)
(* under a lease (edge/pipeline.py, wolf_app.py), and the forward ledger   *)
(* it writes (edge/ledger.py over edge/store_pg.py).                       *)
(*                                                                         *)
(* Every call of the store is a transaction of its own, so a tick is many  *)
(* steps.  It may die between any two, and it may outlive its lease, so    *)
(* that the tick of another process runs beside it.                        *)
(***************************************************************************)
EXTENDS Naturals, FiniteSets

CONSTANTS
  Runners,        \* processes whose scheduler runs the job
  Names,          \* symbols
  Refs,           \* what a fetch may bring: the reference price, data_as_of
  Specs,          \* spec hashes of the deployed versions
  MaxPerDay,      \* max_per_day of the spec
  MaxOutlived,    \* bound on ticks that outlive their lease
  MaxFaults,      \* bound on crashes and on incomplete answers of the provider
  MaxExclusions,  \* bound on forecasts that are excluded
  None            \* no row, no holder

ASSUME BoundsAssumption == {MaxPerDay, MaxOutlived, MaxFaults, MaxExclusions} \subseteq Nat
ASSUME NamesAssumption == IsFiniteSet(Names)
ASSUME NoneAssumption == None \notin Runners \cup Names \cup Refs \cup Specs

Records == {"forecast", "simulated"}
\* TERMINAL; WIN stands for LOSS and TIME_EXIT too, the ends of an open trade.
Final == {"WIN", "NO_FILL"}
Outcomes == Final \cup {"UNRESOLVED"}
ForecastRow == [ref: Refs, spec: Specs]
CardRow == [names: SUBSET Names, rows: SUBSET Names, levels: [Names -> Refs \cup {None}],
            refused: BOOLEAN]

ASSUME NoRowAssumption == None \notin ForecastRow \cup CardRow \cup Outcomes

VARIABLES
  phase,       \* "card" until the window opens, then "grade"
  lease,       \* the holder of edge_lease, or None once released or over
  experiment,  \* spec_hash of the registered experiment, or None
  forecasts,   \* [Names -> ForecastRow \cup {None}]
  abstained,   \* names with a row in abstentions
  card,        \* the row of edge_cards, or None
  outcomes,    \* [Names -> [Records -> Outcomes \cup {None}]]
  excluded,    \* names with a row in exclusions
  excluding,   \* names that exclude has checked and not yet written
  pc,          \* [Runners -> Steps]
  local,       \* [Runners -> Locals]: the variables of the tick
  outlived,    \* ticks that have outlived their lease
  faults

ledger == <<experiment, forecasts, abstained, card, outcomes, excluded>>
vars == <<phase, lease, experiment, forecasts, abstained, card, outcomes, excluded,
          excluding, pc, local, outlived, faults>>

\* Where a tick is: in morning_card and _issue_top, in resolve_day and settle.
Steps == {"idle", "leaving",
          "card", "fetching", "scanning", "issuing", "recording", "abstaining", "writing",
          "resolve", "resolving", "check forecast", "put forecast",
          "check simulated", "put simulated"}

\* rows, todo and chosen are symbols; ref is what was fetched; name and verdict
\* belong to the forecast at hand.
Locals == [rows: SUBSET Names, todo: SUBSET Names, chosen: SUBSET Names,
           ref: Refs \cup {None}, spec: Specs \cup {None}, name: Names \cup {None},
           verdict: [Records -> Outcomes]]

Unresolved == [rec \in Records |-> "UNRESOLVED"]

Fresh == [rows |-> {}, todo |-> {}, chosen |-> {}, ref |-> None, spec |-> None,
          name |-> None, verdict |-> Unresolved]

Init ==
  /\ phase = "card"
  /\ lease = None
  /\ experiment = None
  /\ forecasts = [n \in Names |-> None]
  /\ abstained = {}
  /\ card = None
  /\ outcomes = [n \in Names |-> [rec \in Records |-> None]]
  /\ excluded = {} /\ excluding = {}
  /\ pc = [r \in Runners |-> "idle"]
  /\ local = [r \in Runners |-> Fresh]
  /\ outlived = 0 /\ faults = 0

Goes(r, step) == pc' = [pc EXCEPT ![r] = step]

\* The end of the step that the tick came for: it drops its variables.
Ends(r) == Goes(r, "leaving") /\ local' = [local EXCEPT ![r] = Fresh]

Recorded == {n \in Names : forecasts[n] # None}

-----------------------------------------------------------------------------
(* The lease of the tick.                                                  *)

\* The scheduler runs the job; claim wants the lease free, its own, or over.  A
\* redeploy may have brought another spec.
Start(r) ==
  /\ pc[r] = "idle"
  /\ lease \in {None, r}
  /\ lease' = r
  /\ \/ /\ phase = "card"
        /\ Goes(r, "card")
        /\ \E s \in Specs : local' = [local EXCEPT ![r].spec = s]
     \/ phase = "grade" /\ Goes(r, "resolve") /\ UNCHANGED local
  /\ UNCHANGED <<phase, ledger, excluding, outlived, faults>>

\* release, which leaves the lease of another holder alone.
Leave(r) ==
  /\ pc[r] = "leaving"
  /\ lease' = IF lease = r THEN None ELSE lease
  /\ Goes(r, "idle")
  /\ UNCHANGED <<phase, ledger, excluding, local, outlived, faults>>

\* The process dies; its rows and its lease stay.
Crash(r) ==
  /\ pc[r] # "idle"
  /\ faults < MaxFaults
  /\ faults' = faults + 1
  /\ Goes(r, "idle")
  /\ local' = [local EXCEPT ![r] = Fresh]
  /\ UNCHANGED <<phase, lease, ledger, excluding, outlived>>

\* The ttl_s of a dead holder pass.
LeaseEnds ==
  /\ lease # None /\ pc[lease] = "idle"
  /\ lease' = None
  /\ UNCHANGED <<phase, ledger, excluding, pc, local, outlived, faults>>

\* They pass while the holder's tick still runs.
LeaseOutlived ==
  /\ lease # None /\ pc[lease] # "idle"
  /\ outlived < MaxOutlived
  /\ outlived' = outlived + 1
  /\ lease' = None
  /\ UNCHANGED <<phase, ledger, excluding, pc, local, faults>>

\* The window of the forecasts opens, and later the grading.
WindowOpens ==
  /\ phase = "card"
  /\ phase' = "grade"
  /\ UNCHANGED <<lease, ledger, excluding, pc, local, outlived, faults>>

-----------------------------------------------------------------------------
(* morning_card.                                                           *)

\* Mutant: the newest deployment's spec replaces the frozen one.
SpecRegistered_Replaced(s) == s

\* What register leaves: the first spec stands.
SpecRegistered(s) == IF experiment = None THEN s ELSE experiment

\* register, unless the day has its card.
Register(r) ==
  /\ pc[r] = "card"
  /\ \/ /\ card # None
        /\ Ends(r)
        /\ UNCHANGED experiment
     \/ /\ card = None
        /\ experiment' = SpecRegistered(local[r].spec)
        /\ Goes(r, "fetching")
        /\ UNCHANGED local
  /\ UNCHANGED <<phase, lease, forecasts, abstained, card, outcomes, excluded, excluding, outlived, faults>>

\* refused_specs: the spec of this tick differs from the frozen one.
Refused(r) == experiment # local[r].spec

\* The slow fetches: the candidates, the best of them, and their price; or an
\* error, and the next tick tries again.  A spec that was refused issues nothing and
\* abstains from nothing, and its card shows the candidates all the same.
Fetch(r) ==
  /\ pc[r] = "fetching"
  /\ \/ Ends(r)
     \/ \E rows \in SUBSET Names :
          IF Refused(r)
          THEN local' = [local EXCEPT ![r].rows = rows] /\ Goes(r, "writing")
          ELSE \E top \in SUBSET rows, ref \in Refs :
                 /\ Cardinality(top) <= MaxPerDay
                 /\ local' = [local EXCEPT ![r].rows = rows, ![r].todo = top, ![r].ref = ref]
                 /\ Goes(r, "scanning")
  /\ UNCHANGED <<phase, lease, ledger, excluding, outlived, faults>>

\* Mutant: only the forecasts of a written card count.
Prior_OnCard == IF card = None THEN {} ELSE card.names

\* The forecasts of the day that are on record.
Prior == Recorded

\* A tick that finds forecasts of an earlier one keeps those of its rows.
Scan(r) ==
  /\ pc[r] = "scanning"
  /\ IF Prior = {}
     THEN Goes(r, "issuing") /\ UNCHANGED local
     ELSE LET kept == local[r].rows \cap Prior
          IN  /\ local' = [local EXCEPT ![r].chosen = kept, ![r].todo = local[r].rows \ kept]
              /\ Goes(r, "abstaining")
  /\ UNCHANGED <<phase, lease, ledger, excluding, outlived, faults>>

\* Mutant: only names that were never in the top are answered.
Unanswered_NotTop(r) == local[r].rows \ (local[r].chosen \cup Recorded \cup {local[r].name})

\* The rows that get an abstention.
Unanswered(r) == local[r].rows \ local[r].chosen

\* _issue_on_time up to the store: the trusted clock is read after the fetches, and
\* a name that comes too late is refused.
Stamp(r) ==
  /\ pc[r] = "issuing"
  /\ \/ /\ local[r].todo = {}
        /\ local' = [local EXCEPT ![r].todo = Unanswered(r)]
        /\ Goes(r, "abstaining")
     \/ \E n \in local[r].todo :
          \/ /\ phase = "card"
             /\ local' = [local EXCEPT ![r].name = n]
             /\ Goes(r, "recording")
          \/ /\ phase = "grade"
             /\ local' = [local EXCEPT ![r].name = n, ![r].todo = @ \ {n}]
             /\ UNCHANGED pc
  /\ UNCHANGED <<phase, lease, ledger, excluding, outlived, faults>>

\* Mutant: put instead of put_new.
ForecastStored_Put(n, row) == row

\* put_new: the first row stands.
ForecastStored(n, row) == IF forecasts[n] = None THEN row ELSE forecasts[n]

\* record: its own row, the same row of another runner, or a refusal that ends
\* the card step of this tick.
Record(r) ==
  /\ pc[r] = "recording"
  /\ LET n   == local[r].name
         row == [ref |-> local[r].ref, spec |-> local[r].spec]
     IN  /\ forecasts' = [forecasts EXCEPT ![n] = ForecastStored(n, row)]
         /\ IF ForecastStored(n, row) = row
            THEN /\ local' = [local EXCEPT ![r].todo = @ \ {n}, ![r].chosen = @ \cup {n}]
                 /\ Goes(r, "issuing")
            ELSE Ends(r)
  /\ UNCHANGED <<phase, lease, experiment, abstained, card, outcomes, excluded, excluding, outlived, faults>>

\* abstain, for each name that was not chosen.
Abstain(r) ==
  /\ pc[r] = "abstaining"
  /\ \/ /\ local[r].todo = {}
        /\ Goes(r, "writing")
        /\ UNCHANGED <<abstained, local>>
     \/ \E n \in local[r].todo :
          /\ abstained' = abstained \cup {n}
          /\ local' = [local EXCEPT ![r].todo = @ \ {n}]
          /\ UNCHANGED pc
  /\ UNCHANGED <<phase, lease, experiment, forecasts, card, outcomes, excluded, excluding, outlived, faults>>

\* The card, with the levels of the recorded forecasts, and whether the spec was refused.
WriteCard(r) ==
  /\ pc[r] = "writing"
  /\ card' = [names |-> local[r].chosen, rows |-> local[r].rows,
              levels |-> [n \in Names |-> IF n \in local[r].chosen /\ forecasts[n] # None
                                          THEN forecasts[n].ref ELSE None],
              refused |-> Refused(r)]
  /\ Ends(r)
  /\ UNCHANGED <<phase, lease, experiment, forecasts, abstained, outcomes, excluded, excluding, outlived, faults>>

-----------------------------------------------------------------------------
(* resolve_day and settle.                                                 *)

\* The forecasts of the day without a final simulated outcome.
Pending == {n \in Recorded : outcomes[n]["simulated"] \notin Final}

FindPending(r) ==
  /\ pc[r] = "resolve"
  /\ local' = [local EXCEPT ![r].todo = Pending]
  /\ Goes(r, "resolving")
  /\ UNCHANGED <<phase, lease, ledger, excluding, outlived, faults>>

\* resolve_market and resolve_execution over the same bars: the order as written
\* fills only where the loose one does, which ends no later.
Verdicts ==
  {v \in [Records -> Outcomes] :
     /\ v["simulated"] = "WIN" => v["forecast"] = "WIN"
     /\ v["forecast"] = "NO_FILL" => v["simulated"] = "NO_FILL"}

\* The grading of one forecast.  Bars that end too early leave either record, or
\* both, unresolved.
Resolve(r) ==
  /\ pc[r] = "resolving"
  /\ \/ /\ local[r].todo = {}
        /\ Ends(r)
        /\ UNCHANGED faults
     \/ \E n \in local[r].todo, v \in Verdicts :
          /\ \/ (\A rec \in Records : v[rec] \in Final) /\ UNCHANGED faults
             \/ /\ \E rec \in Records : v[rec] \notin Final
                /\ faults < MaxFaults /\ faults' = faults + 1
          /\ local' = [local EXCEPT ![r].todo = @ \ {n}, ![r].name = n, ![r].verdict = v]
          /\ Goes(r, "check forecast")
  /\ UNCHANGED <<phase, lease, ledger, excluding, outlived>>

CheckStep == [rec \in Records |-> IF rec = "forecast" THEN "check forecast" ELSE "check simulated"]
PutStep == [rec \in Records |-> IF rec = "forecast" THEN "put forecast" ELSE "put simulated"]

\* After the forecast record comes the simulated one, then the next forecast.
GoesOn(r, rec) ==
  IF rec = "forecast"
  THEN Goes(r, "check simulated") /\ UNCHANGED local
  ELSE Goes(r, "resolving") /\ local' = [local EXCEPT ![r] = [Fresh EXCEPT !.todo = local[r].todo]]

\* A final record is passed over; an excluded forecast takes no outcome, and the
\* refusal ends the grading step of this tick.
CheckOutcome(r, rec) ==
  LET n == local[r].name
  IN  /\ pc[r] = CheckStep[rec]
      /\ \/ outcomes[n][rec] \in Final /\ GoesOn(r, rec)
         \/ outcomes[n][rec] \notin Final /\ n \in excluded /\ Ends(r)
         \/ /\ outcomes[n][rec] \notin Final /\ n \notin excluded
            /\ Goes(r, PutStep[rec])
            /\ UNCHANGED local
      /\ UNCHANGED <<phase, lease, ledger, excluding, outlived, faults>>

\* Mutant: put instead of put_unless_final.
OutcomeStored_Put(n, rec, o) == o

\* put_unless_final
OutcomeStored(n, rec, o) == IF outcomes[n][rec] \in Final THEN outcomes[n][rec] ELSE o

\* The write of settle; another final outcome that came first stands, and ends
\* the grading step of this tick.
PutOutcome(r, rec) ==
  LET n == local[r].name
      o == local[r].verdict[rec]
  IN  /\ pc[r] = PutStep[rec]
      /\ outcomes' = [outcomes EXCEPT ![n][rec] = OutcomeStored(n, rec, o)]
      /\ IF OutcomeStored(n, rec, o) = o THEN GoesOn(r, rec) ELSE Ends(r)
      /\ UNCHANGED <<phase, lease, experiment, forecasts, abstained, card, excluded, excluding, outlived, faults>>

\* exclude, up to its write: a forecast with a final outcome is refused.
CheckExclusion(n) ==
  /\ Cardinality(excluded \cup excluding) < MaxExclusions
  /\ n \in Recorded \ (excluded \cup excluding)
  /\ \A rec \in Records : outcomes[n][rec] \notin Final
  /\ excluding' = excluding \cup {n}
  /\ UNCHANGED <<phase, lease, ledger, pc, local, outlived, faults>>

\* exclude, the write.
Exclude(n) ==
  /\ n \in excluding
  /\ excluding' = excluding \ {n}
  /\ excluded' = excluded \cup {n}
  /\ UNCHANGED <<phase, lease, experiment, forecasts, abstained, card, outcomes, pc, local, outlived, faults>>

TickStep(r) ==
  \/ Start(r) \/ Leave(r)
  \/ Register(r) \/ Fetch(r) \/ Scan(r) \/ Stamp(r) \/ Record(r) \/ Abstain(r) \/ WriteCard(r)
  \/ FindPending(r) \/ Resolve(r)
  \/ \E rec \in Records : CheckOutcome(r, rec) \/ PutOutcome(r, rec)

Next ==
  \/ WindowOpens \/ LeaseEnds \/ LeaseOutlived
  \/ \E r \in Runners : TickStep(r) \/ Crash(r)
  \/ \E n \in Names : CheckExclusion(n) \/ Exclude(n)

Spec == Init /\ [][Next]_vars

-----------------------------------------------------------------------------
(* Properties.                                                             *)

\* Every variable keeps its type: the rows of the store and the variables of a
\* tick (edge/ledger.py, edge/pipeline.py).
TypeOK ==
  /\ phase \in {"card", "grade"} /\ lease \in Runners \cup {None}
  /\ experiment \in Specs \cup {None}
  /\ forecasts \in [Names -> ForecastRow \cup {None}]
  /\ abstained \subseteq Names
  /\ card \in CardRow \cup {None}
  /\ outcomes \in [Names -> [Records -> Outcomes \cup {None}]]
  /\ excluded \subseteq Names /\ excluding \subseteq Names
  /\ pc \in [Runners -> Steps]
  /\ local \in [Runners -> Locals]
  /\ outlived \in 0 .. MaxOutlived /\ faults \in 0 .. MaxFaults

\* Two deployments may run different specs beside each other: whichever registers
\* first, no forecast of the experiment is ever built from another one.
OneSpec == \A n \in Recorded : forecasts[n].spec = experiment

\* Crashes, late names and a second runner notwithstanding, every candidate behind
\* the card of the day has a forecast or an abstention on the record; or the card says
\* that its spec was refused, and calls for no trade.
EveryCandidateAnswered ==
  card # None => \/ card.rows \subseteq Recorded \cup abstained
                 \/ card.refused /\ card.names = {}

\* The operator trades from the card: each name on it has its recorded forecast, and
\* the levels printed are those that will be graded.
LevelsOnCard ==
  card # None => \A n \in card.names : n \in Recorded /\ card.levels[n] = forecasts[n].ref

\* As long as no tick outlives its lease, crashes and re-runs do not add forecasts:
\* the day keeps to max_per_day of them.
OneSet == outlived = 0 => Cardinality(Recorded) <= MaxPerDay

\* The card is the record: it names nothing that was not recorded, at no other level,
\* leaves no candidate behind it unanswered unless it says that its spec was refused,
\* and is not long from many small ticks.
CardHolds == TypeOK /\ EveryCandidateAnswered /\ LevelsOnCard /\ OneSet

Frozen == INSTANCE FrozenLedger WITH
  Rows <- ForecastRow, forecast <- forecasts, outcome <- outcomes

\* Through every race of two ticks the store's rows are a frozen ledger: no
\* forecast and no final outcome is rewritten, and no outcome is an orphan.
ImplementsLedger == Frozen!Spec
=============================================================================
