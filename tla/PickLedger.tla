----------------------------- MODULE PickLedger -----------------------------
(***************************************************************************)
(* The predictions table of one symbol: picks are issued, resolved against *)
(* the market, withdrawn or closed by an operator, and each ending is told *)
(* to the performance log and to Telegram.                                 *)
(*                                                                         *)
(* Resolvers (core/watchdog.py, reconcile_outcomes of core/prediction.py)  *)
(* read the open pick, fetch bars and a price, and write where the outcome *)
(* is still null; the save transaction of run_prediction_cycle withdraws   *)
(* and issues under an advisory lock; they run in threads and processes of *)
(* their own.  (The /api/watchdog endpoint acts as a watchdog that got no  *)
(* bars and does not log.)                                                 *)
(*                                                                         *)
(* Time: 2d is the session of day d, 2d + 1 the time after its close, when *)
(* the bar of the day counts as available.  In a session the price moves   *)
(* once.  Bars come through a cache of 900 s: just after the close the bar *)
(* of the day may still be the one fetched before the last move.           *)
(***************************************************************************)
EXTENDS Integers, Sequences, FiniteSetsExt

CONSTANTS
  Resolvers,   \* resolver jobs
  Kind,        \* [Resolvers -> {"watchdog", "reconcile"}]
  Cycles,      \* prediction cycles of different processes
  Prices,      \* prices of the market
  Entry,       \* the price at which picks are issued
  Directions,  \* lanes: a subset of {"UP", "DOWN"}
  Hold,        \* label_hold_bars()
  None,
  Days, MaxPicks, MaxFaults   \* bounds

Outcomes == {"WIN", "LOSS", "EXPIRED", "WITHDRAWN", "ADMIN_VOID"}

ASSUME PickAssumption ==
  /\ Kind \in [Resolvers -> {"watchdog", "reconcile"}]
  /\ Prices \subseteq Int /\ Entry \in Prices
  /\ Directions \subseteq {"UP", "DOWN"}
  /\ {Hold, Days, MaxPicks} \subseteq Nat \ {0} /\ MaxFaults \in Nat
  /\ None \notin Int /\ None \notin Outcomes

VARIABLES
  clock,
  bars,     \* the daily bars, the last one that of the current day
  picks,    \* rows of predictions, in the order of their ids
  events,   \* [pick -> resolutions in the performance log]
  alerts,   \* [pick -> messages sent about its ending]
  job,      \* [Resolvers -> what a resolver is about to write or tell]
  cycle,    \* [Cycles -> what a cycle is about to save or notify]
  seen,     \* history: [pick -> lowest and highest price while it was open]
  judged,   \* history: [pick -> when its outcome was decided with bars, or 0]
  faults

vars == <<clock, bars, picks, events, alerts, job, cycle, seen, judged, faults>>
ledger == <<picks, events, alerts, judged>>

Ids == 1..MaxPicks
Bar == [open : Prices, close : Prices]
Low(b) == Min({b.open, b.close})
High(b) == Max({b.open, b.close})
Day == clock \div 2
Price == bars[Day].close

Levels == Prices \cup {Entry - 1, Entry + 1, None}
Pick == [dir : Directions, day : Nat, outcome : Outcomes \cup {None}, exit : Levels, at : Nat]
Told == [outcome : Outcomes, exit : Levels]
Verdict == [outcome : Outcomes, exit : Levels, at : Nat]
JobRecord == [step : {"idle", "write", "tell"}, pick : 0..MaxPicks, verdict : Verdict \cup {None}, judged : Nat]
CycleRecord == [step : {"idle", "save", "notify"}, pick : 0..MaxPicks, mark : Levels, fire : Directions \cup {None}, now : Nat]

IdleJob == [step |-> "idle", pick |-> 0, verdict |-> None, judged |-> 0]
IdleCycle == [step |-> "idle", pick |-> 0, mark |-> None, fire |-> None, now |-> 0]

Init ==
  /\ clock = 2
  /\ bars = <<[open |-> Entry, close |-> Entry]>>
  /\ picks = <<>> /\ events = <<>> /\ alerts = <<>> /\ seen = <<>> /\ judged = <<>>
  /\ job = [j \in Resolvers |-> IdleJob]
  /\ cycle = [c \in Cycles |-> IdleCycle]
  /\ faults = 0

Fault == faults < MaxFaults /\ faults' = faults + 1
NoFault == UNCHANGED faults

\* A now that was read before the clock moved on.
CapturedNow(p) == {now \in {clock - 1, clock} : now >= 2 * picks[p].day}

Open(p) == p \in DOMAIN picks /\ picks[p].outcome = None

\* expires_at_nth_trading_close
ExpiresAt(row) == 2 * (row.day + Hold) + 1
Unexpired(p, now) == Open(p) /\ ExpiresAt(picks[p]) > now

-----------------------------------------------------------------------------
(* Resolution (core/tp_sl_resolve.py, core/pnl.py).                        *)

Target(dir) == IF dir = "UP" THEN Entry + 1 ELSE Entry - 1
Stop(dir) == IF dir = "UP" THEN Entry - 1 ELSE Entry + 1
HitsTarget(dir, low, high) == IF dir = "UP" THEN high >= Target(dir) ELSE low <= Target(dir)
HitsStop(dir, low, high) == IF dir = "UP" THEN low <= Stop(dir) ELSE high >= Stop(dir)

\* stop_fill: the worse of the stop and the price observed.
StopFill(dir, observed) == IF dir = "UP" THEN Min({Stop(dir), observed}) ELSE Max({Stop(dir), observed})

AvailableAt(d) == 2 * d + 1

\* Mutant: the bar of the entry day counts.
ForwardDays_Entry(row, now) == {d \in row.day..(row.day + Hold - 1) : AvailableAt(d) <= now}

\* Mutant: the bar of a day that is still trading counts.
ForwardDays_Partial(row, now) == {d \in (row.day + 1)..(row.day + Hold) : d <= Len(bars)}

\* forward_bars_after_entry
ForwardDays(row, now) == {d \in (row.day + 1)..(row.day + Hold) : AvailableAt(d) <= now}

\* Mutant: a bar that touched both levels is a win.
BarOutcome_TargetFirst(dir, b) ==
  IF HitsTarget(dir, Low(b), High(b)) THEN "WIN" ELSE IF HitsStop(dir, Low(b), High(b)) THEN "LOSS" ELSE None

\* resolve_tp_sl_bar_path_detail: a bar that touched both levels is a loss.
BarOutcome(dir, b) ==
  IF HitsStop(dir, Low(b), High(b)) THEN "LOSS" ELSE IF HitsTarget(dir, Low(b), High(b)) THEN "WIN" ELSE None

SnapshotOutcome(dir, price) ==
  IF HitsTarget(dir, price, price) THEN "WIN" ELSE IF HitsStop(dir, price, price) THEN "LOSS" ELSE None

ExitOf(dir, outcome, observed) == IF outcome = "WIN" THEN Target(dir) ELSE StopFill(dir, observed)

\* A quote alone; price is None when there is none.
FromSnapshot(row, price, now) ==
  LET outcome == IF price = None THEN None ELSE SnapshotOutcome(row.dir, price)
  IN  IF outcome = None THEN None
      ELSE [outcome |-> outcome, exit |-> ExitOf(row.dir, outcome, price), at |-> now]

\* Mutant: one bar of the horizon is enough.
FullHorizon_Any(days) == days # {}

FullHorizon(days) == Cardinality(days) = Hold

\* _fetch_ohlcv: the bars, out of the cache when the bar of the day is not final, or
\* nothing.
Cached == [bars EXCEPT ![Day].close = bars[Day].open]
Fetched == {bars, Cached, <<>>}

\* resolve_open_prediction_detail: completed bars first, then the full horizon, then
\* the quote.
Resolve(row, fetched, price, now) ==
  LET days  == IF fetched = <<>> THEN {} ELSE ForwardDays(row, now)
      hits  == {d \in days : BarOutcome(row.dir, fetched[d]) # None}
      first == Min(hits)
      last  == Max(days)
  IN  IF hits # {}
      THEN LET outcome == BarOutcome(row.dir, fetched[first])
           IN  [outcome |-> outcome, exit |-> ExitOf(row.dir, outcome, fetched[first].open), at |-> AvailableAt(first)]
      ELSE IF FullHorizon(days)
      THEN [outcome |-> "EXPIRED", exit |-> fetched[last].close, at |-> AvailableAt(last)]
      ELSE FromSnapshot(row, price, now)

\* Mutant: the reconciler too leaves expired picks alone.
Writes_HitsOnly(kind, outcome) == outcome \in {"WIN", "LOSS"}

\* The watchdog leaves expired picks alone.
Writes(kind, outcome) == kind = "reconcile" \/ outcome \in {"WIN", "LOSS"}

\* The read of the open pick, its bars and its quote, as of a now captured before.
Judge(j, now, fetched, price) ==
  \E p \in DOMAIN picks :
    LET verdict == Resolve(picks[p], fetched, price, now)
    IN  /\ job[j].step = "idle" /\ Open(p) /\ now \in CapturedNow(p)
        /\ verdict # None
        /\ Writes(Kind[j], verdict.outcome)
        /\ job' = [job EXCEPT ![j] = [step |-> "write", pick |-> p, verdict |-> verdict,
                                      judged |-> IF fetched = <<>> THEN 0 ELSE clock]]
        /\ IF fetched = <<>> \/ price = None THEN Fault ELSE NoFault
        /\ UNCHANGED <<clock, bars, ledger, cycle, seen>>

JudgeAny(j) == \E now \in {clock - 1, clock}, fetched \in Fetched, price \in {Price, None} : Judge(j, now, fetched, price)

\* Mutant: the UPDATE names the id only.
Writable_ById(p) == TRUE

\* ... WHERE id=%s AND outcome IS NULL
Writable(p) == Open(p)

\* Mutant: what was not updated is told all the same.
Updated_Always(p) == TRUE

\* rowcount of the UPDATE
Updated(p) == Writable(p)

Write(j) ==
  LET p == job[j].pick
      v == job[j].verdict
  IN  /\ job[j].step = "write"
      /\ IF Writable(p)
         THEN /\ picks' = [picks EXCEPT ![p].outcome = v.outcome, ![p].exit = v.exit, ![p].at = v.at]
              /\ judged' = [judged EXCEPT ![p] = job[j].judged]
         ELSE UNCHANGED <<picks, judged>>
      /\ job' = [job EXCEPT ![j] = IF Updated(p) THEN [@ EXCEPT !.step = "tell"] ELSE IdleJob]
      /\ UNCHANGED <<clock, bars, events, alerts, cycle, seen, faults>>

\* record_pick_resolution and the alert.  Each may fail, which is logged only, and the
\* process may be killed before either.
Tell(j) ==
  LET p       == job[j].pick
      message == [outcome |-> job[j].verdict.outcome, exit |-> job[j].verdict.exit]
      sends   == message.outcome \in {"WIN", "LOSS"}
  IN  /\ job[j].step = "tell"
      /\ \E logged, sent \in BOOLEAN :
           /\ sent => sends
           /\ events' = IF logged THEN [events EXCEPT ![p] = Append(@, message)] ELSE events
           /\ alerts' = IF sent THEN [alerts EXCEPT ![p] = Append(@, message)] ELSE alerts
           /\ IF logged /\ sent = sends THEN NoFault ELSE Fault
      /\ job' = [job EXCEPT ![j] = IdleJob]
      /\ UNCHANGED <<clock, bars, picks, cycle, seen, judged>>

\* Killed before the write.
Killed(j) ==
  /\ job[j].step = "write" /\ Fault
  /\ job' = [job EXCEPT ![j] = IdleJob]
  /\ UNCHANGED <<clock, bars, ledger, cycle, seen>>

-----------------------------------------------------------------------------
(* The end of run_prediction_cycle.                                        *)

\* The scan has its candidates; plan_open_pick_reviews and resolve_review_prices.
PlanReviews(c) ==
  /\ cycle[c].step = "idle"
  /\ \E p \in {0} \cup {i \in DOMAIN picks : Unexpired(i, clock)},
        fire \in (IF Price = Entry /\ Len(picks) < MaxPicks THEN Directions ELSE {}) \cup {None} :
       /\ p # 0 \/ fire # None
       /\ \E mark \in (IF p = 0 THEN {None} ELSE {Price, None}) :
            /\ cycle' = [cycle EXCEPT ![c] = [step |-> "save", pick |-> p, mark |-> mark, fire |-> fire, now |-> clock]]
            /\ IF p # 0 /\ mark = None THEN Fault ELSE NoFault
  /\ UNCHANGED <<clock, bars, ledger, job, seen>>

Withdrawn(rows, p, mark, now) ==
  [rows EXCEPT ![p].outcome = "WITHDRAWN", ![p].exit = IF mark = None THEN Entry ELSE mark, ![p].at = now]

\* _symbol_has_open_pick, and idx_predictions_one_open_symbol for the expired ones.
Blocked(rows) == \E i \in DOMAIN rows : rows[i].outcome = None

\* _apply_withdraw: the row is still open.
Applies(p) == p # 0 /\ Open(p)

\* The withdrawals that took effect.
Announced(p) == IF Applies(p) THEN p ELSE 0

\* The save transaction under pg_advisory_xact_lock.  The log of a withdrawal is
\* written in it, behind a savepoint.
Save(c) ==
  LET r     == cycle[c]
      p     == r.pick
      rows  == IF Applies(p) THEN Withdrawn(picks, p, r.mark, r.now) ELSE picks
      issue == r.fire # None /\ ~Blocked(rows) /\ Len(picks) < MaxPicks
      told  == [outcome |-> "WITHDRAWN", exit |-> IF r.mark = None THEN Entry ELSE r.mark]
  IN  /\ r.step = "save"
      /\ picks' = IF issue
                  THEN Append(rows, [dir |-> r.fire, day |-> r.now \div 2, outcome |-> None, exit |-> None, at |-> 0])
                  ELSE rows
      /\ \E logged \in BOOLEAN :
           /\ logged => Applies(p)
           /\ events' = LET e == IF logged THEN [events EXCEPT ![p] = Append(@, told)] ELSE events
                        IN  IF issue THEN Append(e, <<>>) ELSE e
           /\ IF logged = Applies(p) THEN NoFault ELSE Fault
      /\ judged' = LET d == IF Applies(p) THEN [judged EXCEPT ![p] = 0] ELSE judged
                   IN  IF issue THEN Append(d, 0) ELSE d
      /\ alerts' = IF issue THEN Append(alerts, <<>>) ELSE alerts
      /\ seen' = IF issue THEN Append(seen, [low |-> Min({Entry, Price}), high |-> Max({Entry, Price})]) ELSE seen
      /\ cycle' = [cycle EXCEPT ![c] = IF Announced(p) # 0 THEN [@ EXCEPT !.step = "notify", !.fire = None] ELSE IdleCycle]
      /\ UNCHANGED <<clock, bars, job>>

\* strict_issuance_block refuses, or the transaction is rolled back as a whole.
SaveNothing(c) ==
  /\ cycle[c].step = "save"
  /\ cycle' = [cycle EXCEPT ![c] = IdleCycle]
  /\ UNCHANGED <<clock, bars, ledger, job, seen, faults>>

\* notify_withdrawals, after the commit.
Notify(c) ==
  LET p       == cycle[c].pick
      message == [outcome |-> "WITHDRAWN", exit |-> IF cycle[c].mark = None THEN Entry ELSE cycle[c].mark]
  IN  /\ cycle[c].step = "notify"
      /\ \/ alerts' = [alerts EXCEPT ![p] = Append(@, message)] /\ NoFault
         \/ UNCHANGED alerts /\ Fault
      /\ cycle' = [cycle EXCEPT ![c] = IdleCycle]
      /\ UNCHANGED <<clock, bars, picks, events, job, seen, judged>>

-----------------------------------------------------------------------------
(* Administrative endings: no price, no message.                           *)

Closes(p, outcome) ==
  /\ picks' = [picks EXCEPT ![p].outcome = outcome, ![p].at = clock]
  /\ judged' = [judged EXCEPT ![p] = 0]
  /\ Fault
  /\ UNCHANGED <<clock, bars, events, alerts, job, cycle, seen>>

\* _expire_open_picks_without_v3_model, when a leader starts.
VoidOrphans == \E p \in DOMAIN picks : Unexpired(p, clock) /\ Closes(p, "ADMIN_VOID")

\* force_expire_picks; the health check does the same to picks older than 50 hours.
ForceExpire == \E p \in DOMAIN picks : Open(p) /\ Closes(p, "EXPIRED")

-----------------------------------------------------------------------------
(* The market.                                                             *)

Widened(price) ==
  [p \in DOMAIN seen |->
    IF Open(p) THEN [low |-> Min({seen[p].low, price}), high |-> Max({seen[p].high, price})] ELSE seen[p]]

Move ==
  /\ clock % 2 = 0
  /\ bars[Day].open = bars[Day].close
  /\ \E price \in Prices \ {Price} :
       /\ bars' = [bars EXCEPT ![Day].close = price]
       /\ seen' = Widened(price)
  /\ UNCHANGED <<clock, ledger, job, cycle, faults>>

\* Cycles and resolvers take less than a night: what they planned or judged is written
\* before the next session.
Tick ==
  /\ clock < 2 * Days + 1
  /\ clock % 2 = 1 => (\A c \in Cycles : cycle[c].step = "idle") /\ (\A j \in Resolvers : job[j].step = "idle")
  /\ clock' = clock + 1
  /\ IF clock % 2 = 0
     THEN UNCHANGED <<bars, seen>>
     ELSE \E price \in Prices : bars' = Append(bars, [open |-> price, close |-> price]) /\ seen' = Widened(price)
  /\ UNCHANGED <<ledger, job, cycle, faults>>

Next ==
  \/ Move \/ Tick
  \/ \E j \in Resolvers : JudgeAny(j) \/ Write(j) \/ Tell(j) \/ Killed(j)
  \/ \E c \in Cycles : PlanReviews(c) \/ Save(c) \/ SaveNothing(c) \/ Notify(c)
  \/ VoidOrphans \/ ForceExpire

Spec == Init /\ [][Next]_vars

\* The reconciler is a job of the scheduler, and when nothing fails it finds bars.
FairSpec ==
  /\ Spec
  /\ SF_vars(Tick)
  /\ \A j \in Resolvers : Kind[j] = "reconcile" =>
       WF_vars(Judge(j, clock, bars, Price)) /\ WF_vars(Write(j)) /\ WF_vars(Tell(j))
  /\ \A c \in Cycles : WF_vars(Save(c) \/ SaveNothing(c)) /\ WF_vars(Notify(c))

-----------------------------------------------------------------------------
(* Properties.                                                             *)

\* Type correctness; nothing is resolved in the future.
TypeOK ==
  /\ clock \in 2..(2 * Days + 1) /\ faults \in 0..MaxFaults
  /\ bars \in Seq(Bar) /\ Len(bars) = Day
  /\ picks \in Seq(Pick) /\ Len(picks) <= MaxPicks /\ \A p \in DOMAIN picks : picks[p].at <= clock
  /\ \A f \in {events, alerts} : Len(f) = Len(picks) /\ \A p \in DOMAIN f : f[p] \in Seq(Told)
  /\ job \in [Resolvers -> JobRecord] /\ cycle \in [Cycles -> CycleRecord]
  /\ seen \in Seq([low : Prices, high : Prices]) /\ judged \in Seq(Nat)
  /\ Len(seen) = Len(picks) /\ Len(judged) = Len(picks)

\* However resolvers, cycles and operators overlap, the first ending of a pick is its
\* only one: outcome, exit and time are never rewritten, no row vanishes.
OutcomeFinal ==
  [][\A p \in DOMAIN picks : p \in DOMAIN picks' /\ (~Open(p) => picks'[p] = picks[p])]_vars

\* Each ending is told at most once to the log and once to the phone, and what is told
\* is what the row says.
ToldTrue ==
  \A p \in DOMAIN picks : \A told \in {events[p], alerts[p]} :
    told # <<>> => Len(told) = 1 /\ told[1] = [outcome |-> picks[p].outcome, exit |-> picks[p].exit]

\* A win was reached after the issue and is never priced better than the target; a loss
\* was reached and is never priced better than the stop, nor worse than the market went.
OutcomesAreEarned ==
  \A p \in DOMAIN picks :
    LET row == picks[p]
    IN  /\ row.outcome = "WIN" => HitsTarget(row.dir, seen[p].low, seen[p].high) /\ row.exit = Target(row.dir)
        /\ row.outcome = "LOSS" =>
             /\ HitsStop(row.dir, seen[p].low, seen[p].high) /\ HitsStop(row.dir, row.exit, row.exit)
             /\ row.exit # Stop(row.dir) => row.exit \in seen[p].low..seen[p].high

\* A win decided with bars that were final is no flattered one: no bar up to the one
\* that decided, or up to the quote, touched the stop.
NoFlatteredWin ==
  \A p \in DOMAIN picks :
    picks[p].outcome = "WIN" =>
      \A d \in ForwardDays(picks[p], picks[p].at) :
        AvailableAt(d) < judged[p] => ~HitsStop(picks[p].dir, Low(bars[d]), High(bars[d]))

\* An expiry that has a price comes after every bar of the horizon, and no bar before
\* the last one touched a level.
ExpiredInFull ==
  \A p \in DOMAIN picks :
    picks[p].outcome = "EXPIRED" /\ picks[p].exit # None =>
      /\ Cardinality(ForwardDays(picks[p], clock)) = Hold
      /\ \A d \in ForwardDays(picks[p], clock) : AvailableAt(d) < judged[p] => BarOutcome(picks[p].dir, bars[d]) = None

\* An outcome is what the market did between issue and horizon, by bars and quotes that
\* are cached, missing or not final; nothing is resolved in the future, and what is told
\* of it is the outcome.
OutcomesHold == TypeOK /\ OutcomesAreEarned /\ NoFlatteredWin /\ ExpiredInFull /\ ToldTrue

\* No pick stays open past its horizon for good: the reconciler ends it.
Maturing(p) == Open(p) /\ ExpiresAt(picks[p]) <= 2 * Days + 1
PickEnds == \A p \in Ids : Maturing(p) ~> ~Open(p)
=============================================================================
