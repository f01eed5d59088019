-------------------------- MODULE PickLedgerProofs --------------------------
(***************************************************************************)
(* Theorems about PickLedger, for every number of resolvers and cycles,    *)
(* both directions, every horizon and every set of prices.                 *)
(***************************************************************************)
EXTENDS PickLedger, FiniteSetTheorems, SequenceTheorems, TLAPS

Typed ==
  /\ clock \in Nat /\ 2 <= clock /\ clock <= 2 * Days + 1 /\ faults \in 0..MaxFaults
  /\ bars \in Seq(Bar) /\ Len(bars) = Day
  /\ picks \in Seq(Pick) /\ Len(picks) <= MaxPicks
  /\ events \in Seq(Seq(Told)) /\ Len(events) = Len(picks)
  /\ alerts \in Seq(Seq(Told)) /\ Len(alerts) = Len(picks)
  /\ seen \in Seq([low : Prices, high : Prices]) /\ Len(seen) = Len(picks)
  /\ judged \in Seq(Nat) /\ Len(judged) = Len(picks)
  /\ job \in [Resolvers -> JobRecord] /\ cycle \in [Cycles -> CycleRecord]

\* The price now, and every bar since the day after the issue, are within what was seen of
\* the pick.
Covered(p) ==
  /\ seen[p].low <= Price /\ Price <= seen[p].high
  /\ \A d \in (picks[p].day + 1)..Day :
       /\ seen[p].low <= bars[d].open /\ bars[d].open <= seen[p].high
       /\ seen[p].low <= bars[d].close /\ bars[d].close <= seen[p].high

\* The ending v of pick p, decided at time by, is what the market did.
Earned(p, v, by) ==
  /\ v.at <= clock
  /\ v.outcome = "WIN" =>
       /\ HitsTarget(picks[p].dir, seen[p].low, seen[p].high) /\ v.exit = Target(picks[p].dir)
       /\ \A d \in ForwardDays(picks[p], v.at) :
            AvailableAt(d) < by => ~HitsStop(picks[p].dir, Low(bars[d]), High(bars[d]))
  /\ v.outcome = "LOSS" =>
       /\ HitsStop(picks[p].dir, seen[p].low, seen[p].high) /\ HitsStop(picks[p].dir, v.exit, v.exit)
       /\ v.exit # Stop(picks[p].dir) => v.exit \in seen[p].low..seen[p].high
  /\ v.outcome = "EXPIRED" /\ v.exit # None =>
       /\ AvailableAt(picks[p].day + Hold) <= clock
       /\ \A d \in (picks[p].day + 1)..(picks[p].day + Hold) :
            AvailableAt(d) < by => BarOutcome(picks[p].dir, bars[d]) = None

\* Nothing was told of the ending of p.
Silent(p) == events[p] = <<>> /\ alerts[p] = <<>>

RowHolds(p) ==
  /\ 1 <= picks[p].day /\ picks[p].day <= Day /\ picks[p].at <= clock /\ judged[p] <= clock
  /\ Open(p) => picks[p].exit = None /\ Silent(p) /\ Covered(p)
  /\ ~Open(p) => Earned(p, picks[p], judged[p])

\* What a resolver is about to write is earned as long as the pick is open; what it is about
\* to tell is what the row says, and nobody told it.
JobHolds(j) ==
  /\ job[j].judged <= clock
  /\ job[j].step # "idle" =>
       /\ job[j].pick \in DOMAIN picks /\ job[j].verdict \in Verdict
       /\ job[j].verdict.outcome \in {"WIN", "LOSS", "EXPIRED"}
  /\ job[j].step = "write" /\ Open(job[j].pick) => Earned(job[j].pick, job[j].verdict, job[j].judged)
  /\ job[j].step = "tell" =>
       /\ picks[job[j].pick].outcome = job[j].verdict.outcome
       /\ picks[job[j].pick].exit = job[j].verdict.exit
       /\ Silent(job[j].pick)

CycleHolds(c) ==
  /\ cycle[c].now <= clock
  /\ cycle[c].step = "save" => cycle[c].now \div 2 = Day
  /\ cycle[c].step = "notify" =>
       /\ cycle[c].pick \in DOMAIN picks /\ picks[cycle[c].pick].outcome = "WITHDRAWN"
       /\ picks[cycle[c].pick].exit = IF cycle[c].mark = None THEN Entry ELSE cycle[c].mark
       /\ alerts[cycle[c].pick] = <<>>

\* Two that are about to tell of an ending tell of different picks.
ToldByOne ==
  /\ \A j, k \in Resolvers : job[j].step = "tell" /\ job[k].step = "tell" /\ job[j].pick = job[k].pick => j = k
  /\ \A c, e \in Cycles : cycle[c].step = "notify" /\ cycle[e].step = "notify" /\ cycle[c].pick = cycle[e].pick => c = e

TellsTrue(p) ==
  \A told \in {events[p], alerts[p]} :
    told # <<>> => Len(told) = 1 /\ told[1] = [outcome |-> picks[p].outcome, exit |-> picks[p].exit]

PickInv ==
  /\ Typed
  /\ \A p \in DOMAIN picks : RowHolds(p) /\ TellsTrue(p)
  /\ \A j \in Resolvers : JobHolds(j)
  /\ \A c \in Cycles : CycleHolds(c)
  /\ ToldByOne

-----------------------------------------------------------------------------
(* Days, prices and bars.                                                  *)

LEMMA ConstantsTyped ==
  /\ Hold \in Nat /\ Hold >= 1 /\ Days \in Nat /\ MaxPicks \in Nat
  /\ Entry \in Int /\ Entry \in Prices /\ \A x \in Prices : x \in Int
  /\ None \notin Int /\ None \notin Outcomes
  /\ \A dir \in Directions : dir = "UP" \/ dir = "DOWN"
BY PickAssumption

LEMMA DayOf ==
  ASSUME Typed
  PROVE  /\ Day \in Nat /\ 1 <= Day /\ 2 * Day <= clock /\ clock <= 2 * Day + 1
         /\ clock % 2 = 0 => clock = 2 * Day
         /\ clock % 2 = 1 => clock = 2 * Day + 1
BY DEF Typed, Day

\* A day whose bar was available before now is over.
LEMMA DayOver ==
  ASSUME Typed, NEW d \in Int, AvailableAt(d) < clock
  PROVE  d < Day
BY DayOf DEF AvailableAt, Typed

LEMMA DayStarted ==
  ASSUME Typed, NEW d \in Int, AvailableAt(d) <= clock
  PROVE  d <= Day
BY DayOf DEF AvailableAt, Typed

LEMMA MinOfTwo ==
  ASSUME NEW x \in Int, NEW y \in Int
  PROVE  Min({x, y}) \in {x, y} /\ Min({x, y}) <= x /\ Min({x, y}) <= y
<1>1. \E m \in {x, y} : \A z \in {x, y} : m <= z
  <2>1. CASE x <= y
    BY <2>1
  <2>2. CASE ~(x <= y)
    BY <2>2
  <2> QED
    BY <2>1, <2>2
<1> QED
  BY <1>1 DEF Min

LEMMA MaxOfTwo ==
  ASSUME NEW x \in Int, NEW y \in Int
  PROVE  Max({x, y}) \in {x, y} /\ Max({x, y}) >= x /\ Max({x, y}) >= y
<1>1. \E m \in {x, y} : \A z \in {x, y} : m >= z
  <2>1. CASE x >= y
    BY <2>1
  <2>2. CASE ~(x >= y)
    BY <2>2
  <2> QED
    BY <2>1, <2>2
<1> QED
  BY <1>1 DEF Max

\* A set of days has a first one.
LEMMA FirstOf ==
  ASSUME NEW T, T \subseteq Nat, T # {}
  PROVE  Min(T) \in T /\ \A x \in T : Min(T) <= x
<1> DEFINE below == {0..x : x \in T}
<1>1. below \subseteq FiniteSubsetsOf(Nat)
  <2>1. ASSUME NEW x \in T
        PROVE  0..x \in FiniteSubsetsOf(Nat)
    <3>1. x \in Int /\ 0 \in Int /\ 0..x \subseteq Nat
      OBVIOUS
    <3>2. IsFiniteSet(0..x)
      BY <3>1, FS_Interval
    <3> QED
      BY <3>1, <3>2 DEF FiniteSubsetsOf
  <2> QED
    BY <2>1
<1>2. below # {}
  OBVIOUS
<1>3. IsWellFoundedOn(StrictSubsetOrdering(Nat), FiniteSubsetsOf(Nat))
  BY FS_StrictSubsetOrderingWellFounded
<1> HIDE DEF below
<1>4. \E s \in below : \A r \in below : ~(<<r, s>> \in StrictSubsetOrdering(Nat))
  BY <1>1, <1>2, <1>3, WFMin
<1>5. PICK m \in T : \A x \in T : ~(<<0..x, 0..m>> \in StrictSubsetOrdering(Nat))
  BY <1>4 DEF below
<1>6. ASSUME NEW x \in T
      PROVE  m <= x
  <2>1. SUFFICES ASSUME x < m PROVE FALSE
    OBVIOUS
  <2>2. x \in Nat /\ m \in Nat
    OBVIOUS
  <2>3. 0..x \subseteq 0..m /\ m \in 0..m /\ m \notin 0..x
    BY <2>1, <2>2
  <2>4. 0..x \in SUBSET Nat /\ 0..m \in SUBSET Nat
    BY <2>2
  <2>5. <<0..x, 0..m>> \in StrictSubsetOrdering(Nat)
    BY <2>3, <2>4, Zenon DEF StrictSubsetOrdering
  <2> QED
    BY <1>5, <2>5
<1>7. m \in T /\ \A x \in T : m <= x
  BY <1>6
<1> QED
  BY <1>7 DEF Min

\* The bar of a day is within any range that its open and its close are in.
LEMMA BarRange ==
  ASSUME NEW b \in Bar
  PROVE  /\ b.open \in Int /\ b.close \in Int /\ Low(b) \in Int /\ High(b) \in Int
         /\ Low(b) \in {b.open, b.close} /\ High(b) \in {b.open, b.close}
         /\ Low(b) <= b.open /\ b.open <= High(b)
<1>1. b.open \in Int /\ b.close \in Int
  BY ConstantsTyped DEF Bar
<1> QED
  BY <1>1, MinOfTwo, MaxOfTwo DEF Low, High

\* A wider range is hit by all that hit the narrower one.
LEMMA TargetWiden ==
  ASSUME NEW dir \in Directions, NEW l \in Int, NEW h \in Int, NEW low \in Int, NEW high \in Int,
         low <= l, h <= high, HitsTarget(dir, l, h)
  PROVE  HitsTarget(dir, low, high)
BY ConstantsTyped DEF HitsTarget, Target

LEMMA StopWiden ==
  ASSUME NEW dir \in Directions, NEW l \in Int, NEW h \in Int, NEW low \in Int, NEW high \in Int,
         low <= l, h <= high, HitsStop(dir, l, h)
  PROVE  HitsStop(dir, low, high)
BY ConstantsTyped DEF HitsStop, Stop

LEMMA SeenTyped ==
  ASSUME Typed, NEW p \in DOMAIN picks
  PROVE  /\ p \in DOMAIN seen /\ p \in DOMAIN judged /\ p \in DOMAIN events /\ p \in DOMAIN alerts
         /\ seen[p].low \in Int /\ seen[p].high \in Int
         /\ picks[p] \in Pick /\ picks[p].dir \in Directions /\ picks[p].day \in Nat /\ picks[p].at \in Nat
         /\ picks[p].outcome \in Outcomes \cup {None} /\ picks[p].exit \in Levels
         /\ judged[p] \in Nat
<1>1. DOMAIN picks = 1..Len(picks) /\ p \in 1..Len(picks)
  BY LenProperties DEF Typed
<1>2. DOMAIN seen = 1..Len(picks) /\ DOMAIN judged = 1..Len(picks) /\ DOMAIN events = 1..Len(picks) /\ DOMAIN alerts = 1..Len(picks)
  BY LenProperties DEF Typed
<1>3. picks[p] \in Pick /\ seen[p] \in [low : Prices, high : Prices] /\ judged[p] \in Nat
  BY <1>1, ElementOfSeq DEF Typed
<1> QED
  BY <1>1, <1>2, <1>3, ConstantsTyped DEF Pick

LEMMA BarsTyped ==
  ASSUME Typed, NEW d \in 1..Day
  PROVE  /\ d \in DOMAIN bars /\ bars[d] \in Bar /\ bars[d].open \in Prices /\ bars[d].close \in Prices
         /\ bars[d].open \in Int /\ bars[d].close \in Int
<1>1. DOMAIN bars = 1..Day /\ bars[d] \in Bar
  BY LenProperties, ElementOfSeq DEF Typed
<1> QED
  BY <1>1, ConstantsTyped DEF Bar

\* What a cached or final set of bars says of a day.
LEMMA FetchedBar ==
  ASSUME Typed, NEW fetched \in {bars, Cached}, NEW d \in 1..Day
  PROVE  /\ fetched # <<>> /\ fetched[d] \in Bar /\ fetched[d].open = bars[d].open
         /\ fetched[d].close \in {bars[d].open, bars[d].close}
         /\ d < Day => fetched[d] = bars[d]
<1>1. Day \in Nat /\ 1 <= Day /\ DOMAIN bars = 1..Day
  BY DayOf, LenProperties DEF Typed
<1>2. bars[d] \in Bar /\ bars[Day] \in Bar /\ Day \in 1..Day
  BY <1>1, BarsTyped
<1>3. CASE fetched = bars
  BY <1>1, <1>2, <1>3, EmptySeq DEF Typed
<1>4. CASE fetched = Cached
  <2>1. DOMAIN Cached = DOMAIN bars /\ Cached[Day] = [bars[Day] EXCEPT !.close = bars[Day].open]
    BY <1>1, <1>2 DEF Cached
  <2>2. d # Day => Cached[d] = bars[d]
    BY <1>1, <1>2 DEF Cached
  <2>3. Cached[Day] \in Bar /\ Cached[Day].open = bars[Day].open /\ Cached[Day].close = bars[Day].open
    BY <1>2, <2>1 DEF Bar
  <2>4. Cached # <<>>
    BY <1>1, <2>1
  <2> QED
    BY <1>1, <1>2, <1>4, <2>2, <2>3, <2>4
<1> QED
  BY <1>3, <1>4

LEMMA ForwardTyped ==
  ASSUME Typed, NEW p \in DOMAIN picks, NEW now \in Nat, now <= clock
  PROVE  /\ ForwardDays(picks[p], now) \subseteq (picks[p].day + 1)..Day
         /\ ForwardDays(picks[p], now) \subseteq (picks[p].day + 1)..(picks[p].day + Hold)
         /\ \A d \in ForwardDays(picks[p], now) : AvailableAt(d) <= now
<1>1. picks[p].day \in Nat /\ Hold \in Nat /\ clock \in Nat
  BY SeenTyped, ConstantsTyped DEF Typed
<1>2. ASSUME NEW d \in ForwardDays(picks[p], now)
      PROVE  d \in (picks[p].day + 1)..Day
  <2>1. d \in (picks[p].day + 1)..(picks[p].day + Hold) /\ AvailableAt(d) <= now
    BY DEF ForwardDays
  <2>2. d \in Int /\ AvailableAt(d) <= clock
    BY <1>1, <2>1 DEF AvailableAt
  <2> QED
    BY <1>1, <2>1, <2>2, DayStarted, DayOf
<1> QED
  BY <1>2 DEF ForwardDays

\* The horizon is full when its last day is over.
LEMMA HorizonFull ==
  ASSUME Typed, NEW p \in DOMAIN picks, NEW now \in Nat, now <= clock
  PROVE  /\ FullHorizon(ForwardDays(picks[p], now)) <=> AvailableAt(picks[p].day + Hold) <= now
         /\ FullHorizon(ForwardDays(picks[p], now)) =>
              /\ ForwardDays(picks[p], now) = (picks[p].day + 1)..(picks[p].day + Hold)
              /\ Max(ForwardDays(picks[p], now)) = picks[p].day + Hold
<1> DEFINE all == (picks[p].day + 1)..(picks[p].day + Hold)
           days == ForwardDays(picks[p], now)
           end == picks[p].day + Hold
<1>1. picks[p].day \in Nat /\ Hold \in Nat /\ Hold >= 1 /\ picks[p].day + 1 \in Int /\ end \in Int
  BY SeenTyped, ConstantsTyped
<1>2. IsFiniteSet(all) /\ Cardinality(all) = IF picks[p].day + 1 > end THEN 0 ELSE end - (picks[p].day + 1) + 1
  BY <1>1, FS_Interval
<1>3. Cardinality(all) = Hold /\ end \in all
  <2>1. ~(picks[p].day + 1 > end) /\ end - (picks[p].day + 1) + 1 = Hold /\ end \in all
    BY <1>1
  <2> HIDE DEF all, end
  <2> QED
    BY <1>2, <2>1
<1>4. days \in SUBSET all
  BY DEF ForwardDays
<1>5. Cardinality(days) = Hold => days = all
  BY <1>2, <1>3, <1>4, FS_Subset
<1>6. AvailableAt(end) <= now => days = all
  BY <1>1 DEF ForwardDays, AvailableAt
<1>7. days = all => AvailableAt(end) <= now
  BY <1>3 DEF ForwardDays
<1>8. Max(all) = end
  BY <1>1, <1>3 DEF Max
<1> QED
  BY <1>3, <1>5, <1>6, <1>7, <1>8 DEF FullHorizon

-----------------------------------------------------------------------------
(* What a resolver decides.                                                *)

LEMMA OutcomeOfBar ==
  ASSUME NEW dir, NEW b
  PROVE  /\ BarOutcome(dir, b) \in {"WIN", "LOSS", None}
         /\ BarOutcome(dir, b) = "LOSS" => HitsStop(dir, Low(b), High(b))
         /\ BarOutcome(dir, b) = "WIN" => HitsTarget(dir, Low(b), High(b)) /\ ~HitsStop(dir, Low(b), High(b))
         /\ BarOutcome(dir, b) = None => ~HitsStop(dir, Low(b), High(b))
BY ConstantsTyped DEF BarOutcome, Outcomes

LEMMA OutcomeOfQuote ==
  ASSUME NEW dir, NEW price
  PROVE  /\ SnapshotOutcome(dir, price) \in {"WIN", "LOSS", None}
         /\ SnapshotOutcome(dir, price) = "LOSS" => HitsStop(dir, price, price)
         /\ SnapshotOutcome(dir, price) = "WIN" => HitsTarget(dir, price, price)
BY ConstantsTyped DEF SnapshotOutcome, Outcomes

\* A stop is filled at the stop or worse.
LEMMA FilledAt ==
  ASSUME NEW dir \in Directions, NEW observed \in Prices
  PROVE  /\ Target(dir) \in Levels
         /\ StopFill(dir, observed) \in Levels /\ StopFill(dir, observed) \in {Stop(dir), observed}
         /\ HitsStop(dir, StopFill(dir, observed), StopFill(dir, observed))
<1>1. Stop(dir) \in Int /\ observed \in Int /\ Stop(dir) \in {Entry - 1, Entry + 1} /\ Target(dir) \in {Entry - 1, Entry + 1}
  BY ConstantsTyped DEF Stop, Target
<1>2. CASE dir = "UP"
  BY <1>1, <1>2, MinOfTwo DEF StopFill, HitsStop, Levels
<1>3. CASE dir = "DOWN"
  BY <1>1, <1>3, MaxOfTwo DEF StopFill, HitsStop, Levels
<1> QED
  BY <1>2, <1>3, ConstantsTyped

\* What was seen of an open pick covers the bar of each forward day, cached or final.
LEMMA FetchedCovered ==
  ASSUME Typed, NEW p \in DOMAIN picks, Covered(p), 1 <= picks[p].day,
         NEW fetched \in {bars, Cached}, NEW d \in (picks[p].day + 1)..Day
  PROVE  /\ d \in 1..Day
         /\ fetched[d] \in Bar /\ fetched[d].open \in Prices /\ fetched[d].close \in Prices
         /\ seen[p].low <= Low(fetched[d]) /\ High(fetched[d]) <= seen[p].high
         /\ seen[p].low <= fetched[d].open /\ fetched[d].open <= seen[p].high
<1>1. d \in 1..Day
  BY SeenTyped, DayOf
<1>2. /\ fetched[d] \in Bar /\ fetched[d].open = bars[d].open
      /\ fetched[d].close = bars[d].open \/ fetched[d].close = bars[d].close
  BY <1>1, FetchedBar
<1>3. /\ Low(fetched[d]) \in {fetched[d].open, fetched[d].close}
      /\ High(fetched[d]) \in {fetched[d].open, fetched[d].close}
  BY <1>2, BarRange
<1>4. /\ seen[p].low <= bars[d].open /\ bars[d].open <= seen[p].high
      /\ seen[p].low <= bars[d].close /\ bars[d].close <= seen[p].high
  BY DEF Covered
<1>5. fetched[d].open \in Prices /\ fetched[d].close \in Prices
  BY <1>2 DEF Bar
<1> QED
  BY <1>1, <1>2, <1>3, <1>4, <1>5

\* A verdict that rests on a bar.
LEMMA BarVerdict ==
  ASSUME Typed, NEW p \in DOMAIN picks, Covered(p), 1 <= picks[p].day,
         NEW fetched \in {bars, Cached}, NEW now \in Nat, now <= clock,
         NEW hits, hits = {d \in ForwardDays(picks[p], now) : BarOutcome(picks[p].dir, fetched[d]) # None},
         hits # {},
         NEW v,
         v = [outcome |-> BarOutcome(picks[p].dir, fetched[Min(hits)]),
              exit |-> ExitOf(picks[p].dir, BarOutcome(picks[p].dir, fetched[Min(hits)]), fetched[Min(hits)].open),
              at |-> AvailableAt(Min(hits))]
  PROVE  v \in Verdict /\ v.outcome \in {"WIN", "LOSS"} /\ Earned(p, v, clock)
<1> DEFINE first == Min(hits)
           dir == picks[p].dir
           b == fetched[first]
<1>1. /\ dir \in Directions /\ picks[p].day \in Nat /\ Hold \in Nat
      /\ seen[p].low \in Int /\ seen[p].high \in Int
  BY SeenTyped, ConstantsTyped
<1>2. hits \subseteq (picks[p].day + 1)..Day
  BY ForwardTyped
<1>3. hits \subseteq Nat
  BY <1>1, <1>2, DayOf
<1>4. first \in hits /\ \A d \in hits : first <= d
  BY <1>3, FirstOf
<1>5. first \in (picks[p].day + 1)..Day /\ first \in Nat /\ AvailableAt(first) <= now
  BY <1>2, <1>3, <1>4, ForwardTyped
<1>6. /\ b \in Bar /\ b.open \in Prices
      /\ seen[p].low <= Low(b) /\ High(b) <= seen[p].high
      /\ seen[p].low <= b.open /\ b.open <= seen[p].high
  BY <1>5, FetchedCovered
<1>7. BarOutcome(dir, b) \in {"WIN", "LOSS"}
  BY <1>4, OutcomeOfBar
<1>8. Low(b) \in Int /\ High(b) \in Int
  BY <1>6, BarRange
<1>9. AvailableAt(first) \in Nat /\ AvailableAt(first) <= clock
  <2>1. clock \in Nat
    BY DEF Typed
  <2> HIDE DEF b, first
  <2> QED
    BY <1>5, <2>1 DEF AvailableAt
<1>10. /\ v.outcome = BarOutcome(dir, b) /\ v.at = AvailableAt(first)
       /\ v.exit = ExitOf(dir, BarOutcome(dir, b), b.open)
  OBVIOUS
<1> HIDE DEF b, first
<1>11. v \in Verdict
  <2>1. ExitOf(dir, BarOutcome(dir, b), b.open) \in Levels
    BY <1>1, <1>6, FilledAt DEF ExitOf
  <2>2. BarOutcome(dir, b) \in Outcomes
    BY <1>7 DEF Outcomes
  <2> QED
    BY <1>9, <2>1, <2>2 DEF Verdict, b, first
<1>12. ASSUME v.outcome = "WIN"
       PROVE  /\ HitsTarget(dir, seen[p].low, seen[p].high) /\ v.exit = Target(dir)
              /\ \A d \in ForwardDays(picks[p], v.at) :
                   AvailableAt(d) < clock => ~HitsStop(dir, Low(bars[d]), High(bars[d]))
  <2>1. HitsTarget(dir, Low(b), High(b)) /\ ~HitsStop(dir, Low(b), High(b))
    BY <1>10, <1>12, OutcomeOfBar
  <2>2. HitsTarget(dir, seen[p].low, seen[p].high)
    BY <1>1, <1>6, <1>8, <2>1, TargetWiden
  <2>3. v.exit = Target(dir)
    BY <1>10, <1>12 DEF ExitOf
  <2>4. ASSUME NEW d \in ForwardDays(picks[p], v.at), AvailableAt(d) < clock
        PROVE  ~HitsStop(dir, Low(bars[d]), High(bars[d]))
    <3>1. /\ d \in (picks[p].day + 1)..(picks[p].day + Hold) /\ AvailableAt(d) <= AvailableAt(first) /\ d \in Int
      BY <1>1, <1>10 DEF ForwardDays
    <3>2. d <= first /\ AvailableAt(d) <= now
      BY <1>5, <1>9, <3>1 DEF AvailableAt
    <3>3. d < Day /\ d \in 1..Day
      BY <1>1, <2>4, <3>1, DayOver, DayOf
    <3>4. fetched[d] = bars[d]
      BY <3>3, FetchedBar
    <3>5. d \in ForwardDays(picks[p], now)
      BY <3>1, <3>2 DEF ForwardDays
    <3>6. CASE d = first
      BY <2>1, <3>4, <3>6 DEF b
    <3>7. CASE d # first
      <4>1. d \notin hits
        BY <1>4, <1>5, <3>1, <3>2, <3>7
      <4>2. BarOutcome(dir, fetched[d]) = None
        BY <3>5, <4>1
      <4> QED
        BY <3>4, <4>2, OutcomeOfBar
    <3> QED
      BY <3>6, <3>7
  <2> QED
    BY <2>2, <2>3, <2>4
<1>13. ASSUME v.outcome = "LOSS"
       PROVE  /\ HitsStop(dir, seen[p].low, seen[p].high) /\ HitsStop(dir, v.exit, v.exit)
              /\ v.exit # Stop(dir) => v.exit \in seen[p].low..seen[p].high
  <2>1. HitsStop(dir, Low(b), High(b))
    BY <1>10, <1>13, OutcomeOfBar
  <2>2. HitsStop(dir, seen[p].low, seen[p].high)
    BY <1>1, <1>6, <1>8, <2>1, StopWiden
  <2>3. v.exit = StopFill(dir, b.open)
    BY <1>10, <1>13 DEF ExitOf
  <2>4. HitsStop(dir, v.exit, v.exit) /\ v.exit \in {Stop(dir), b.open}
    BY <1>1, <1>6, <2>3, FilledAt
  <2>5. b.open \in Int
    BY <1>6, BarRange
  <2> QED
    BY <1>1, <1>6, <2>2, <2>4, <2>5
<1> QED
  BY <1>7, <1>9, <1>10, <1>11, <1>12, <1>13 DEF Earned

\* A verdict that rests on a quote, when the bars at hand decided nothing.
LEMMA QuoteVerdict ==
  ASSUME Typed, NEW p \in DOMAIN picks, Covered(p), NEW by, NEW now \in Nat, now <= clock,
         \A d \in ForwardDays(picks[p], now) : AvailableAt(d) < by => ~HitsStop(picks[p].dir, Low(bars[d]), High(bars[d])),
         NEW price \in {Price, None},
         NEW v, v = FromSnapshot(picks[p], price, now), v # None
  PROVE  v \in Verdict /\ v.outcome \in {"WIN", "LOSS"} /\ Earned(p, v, by)
<1> DEFINE dir == picks[p].dir
           o == SnapshotOutcome(dir, price)
<1>1. price # None /\ o # None /\ v = [outcome |-> o, exit |-> ExitOf(dir, o, price), at |-> now]
  BY DEF FromSnapshot
<1>2. price = Price
  BY <1>1
<1>3. dir \in Directions /\ seen[p].low \in Int /\ seen[p].high \in Int
  BY SeenTyped
<1>4. price \in Prices /\ price \in Int /\ seen[p].low <= price /\ price <= seen[p].high
  <2>1. Day \in 1..Day
    BY DayOf
  <2> QED
    BY <1>2, <2>1, BarsTyped DEF Price, Covered
<1>5. o \in {"WIN", "LOSS"}
  BY <1>1, OutcomeOfQuote
<1>6. ExitOf(dir, o, price) \in Levels
  BY <1>3, <1>4, FilledAt DEF ExitOf
<1>7. v.outcome = o /\ v.exit = ExitOf(dir, o, price) /\ v.at = now
  BY <1>1
<1>8. v \in Verdict
  <2>1. o \in Outcomes
    BY <1>5 DEF Outcomes
  <2> HIDE DEF o, dir
  <2> QED
    BY <1>1, <1>6, <2>1 DEF Verdict
<1>9. ASSUME o = "WIN"
      PROVE  HitsTarget(dir, seen[p].low, seen[p].high) /\ v.exit = Target(dir)
  BY <1>3, <1>4, <1>7, <1>9, OutcomeOfQuote, TargetWiden DEF ExitOf
<1>10. ASSUME o = "LOSS"
       PROVE  /\ HitsStop(dir, seen[p].low, seen[p].high) /\ HitsStop(dir, v.exit, v.exit)
              /\ v.exit # Stop(dir) => v.exit \in seen[p].low..seen[p].high
  <2>1. HitsStop(dir, seen[p].low, seen[p].high)
    BY <1>3, <1>4, <1>10, OutcomeOfQuote, StopWiden
  <2>2. v.exit = StopFill(dir, price)
    BY <1>7, <1>10 DEF ExitOf
  <2>3. HitsStop(dir, v.exit, v.exit) /\ v.exit \in {Stop(dir), price}
    BY <1>3, <1>4, <2>2, FilledAt
  <2> QED
    BY <1>3, <1>4, <2>1, <2>3
<1> HIDE DEF o
<1> QED
  BY <1>5, <1>7, <1>8, <1>9, <1>10 DEF Earned

\* An expiry: the last bar of a full horizon.
LEMMA ExpiryVerdict ==
  ASSUME Typed, NEW p \in DOMAIN picks, 1 <= picks[p].day,
         NEW fetched \in {bars, Cached}, NEW now \in Nat, now <= clock,
         FullHorizon(ForwardDays(picks[p], now)),
         \A d \in ForwardDays(picks[p], now) : BarOutcome(picks[p].dir, fetched[d]) = None,
         NEW v,
         v = [outcome |-> "EXPIRED", exit |-> fetched[Max(ForwardDays(picks[p], now))].close,
              at |-> AvailableAt(Max(ForwardDays(picks[p], now)))]
  PROVE  v \in Verdict /\ v.outcome = "EXPIRED" /\ Earned(p, v, clock)
<1> DEFINE last == picks[p].day + Hold
<1>1. picks[p].day \in Nat /\ Hold \in Nat /\ Hold >= 1 /\ last \in Nat /\ clock \in Nat
  <2>1. picks[p].day \in Nat /\ Hold \in Nat /\ Hold >= 1
    BY SeenTyped, ConstantsTyped
  <2>2. clock \in Nat
    BY DEF Typed
  <2> QED
    BY <2>1, <2>2
<1>2. /\ ForwardDays(picks[p], now) = (picks[p].day + 1)..last /\ Max(ForwardDays(picks[p], now)) = last
      /\ AvailableAt(last) <= now
  BY HorizonFull
<1>3. AvailableAt(last) <= clock /\ AvailableAt(last) \in Nat /\ last \in 1..Day
  <2>1. AvailableAt(last) <= clock /\ AvailableAt(last) \in Nat
    BY <1>1, <1>2 DEF AvailableAt
  <2>2. last <= Day
    BY <1>1, <2>1, DayStarted
  <2> QED
    BY <1>1, <2>1, <2>2, DayOf
<1>4. fetched[last].close \in Prices
  BY <1>3, FetchedBar DEF Bar
<1> HIDE DEF last
<1>5. v.outcome = "EXPIRED" /\ v.exit = fetched[last].close /\ v.at = AvailableAt(last)
  BY <1>2
<1>6. v \in Verdict
  <2>1. "EXPIRED" \in Outcomes /\ fetched[last].close \in Levels
    BY <1>4 DEF Outcomes, Levels
  <2> QED
    BY <1>2, <1>3, <2>1 DEF Verdict
<1>7. ASSUME NEW d \in (picks[p].day + 1)..last, AvailableAt(d) < clock
      PROVE  BarOutcome(picks[p].dir, bars[d]) = None
  <2>1. d \in Int /\ d < Day /\ d \in 1..Day
    BY <1>1, <1>7, DayOver, DayOf DEF last
  <2>2. fetched[d] = bars[d]
    BY <2>1, FetchedBar
  <2> QED
    BY <1>2, <1>7, <2>2
<1> QED
  BY <1>3, <1>5, <1>6, <1>7 DEF Earned, last

\* A resolver decides only what the market did, whatever bars and quote it got.
LEMMA VerdictEarned ==
  ASSUME Typed, NEW p \in DOMAIN picks, Covered(p), 1 <= picks[p].day,
         NEW fetched \in Fetched, NEW price \in {Price, None}, NEW now \in Nat, now <= clock,
         NEW v, v = Resolve(picks[p], fetched, price, now), v # None
  PROVE  /\ v \in Verdict /\ v.outcome \in {"WIN", "LOSS", "EXPIRED"}
         /\ Earned(p, v, IF fetched = <<>> THEN 0 ELSE clock)
<1> DEFINE days == IF fetched = <<>> THEN {} ELSE ForwardDays(picks[p], now)
           hits == {d \in days : BarOutcome(picks[p].dir, fetched[d]) # None}
<1>1. CASE fetched = <<>>
  <2>1. days = {} /\ hits = {}
    BY <1>1
  <2>2. ~FullHorizon(days)
    <3>1. Cardinality(days) = 0
      BY <2>1, FS_EmptySet
    <3>2. Hold # 0
      <4>1. Hold \in Nat /\ Hold >= 1
        BY ConstantsTyped
      <4> QED
        BY <4>1
    <3> QED
      BY <3>1, <3>2 DEF FullHorizon
  <2>3. v = FromSnapshot(picks[p], price, now)
    BY <2>1, <2>2 DEF Resolve
  <2>4. ASSUME NEW d \in ForwardDays(picks[p], now), AvailableAt(d) < 0
        PROVE  FALSE
    <3>1. d \in (picks[p].day + 1)..Day /\ picks[p].day \in Nat
      BY ForwardTyped, SeenTyped
    <3> QED
      BY <2>4, <3>1, DayOf DEF AvailableAt
  <2>5. \A d \in ForwardDays(picks[p], now) : AvailableAt(d) < 0 => ~HitsStop(picks[p].dir, Low(bars[d]), High(bars[d]))
    BY <2>4
  <2>6. v \in Verdict /\ v.outcome \in {"WIN", "LOSS"} /\ Earned(p, v, 0)
    BY <2>3, <2>5, QuoteVerdict
  <2> QED
    BY <1>1, <2>6
<1>2. CASE fetched # <<>>
  <2>1. fetched \in {bars, Cached} /\ days = ForwardDays(picks[p], now)
    BY <1>2 DEF Fetched
  <2>2. CASE hits # {}
    <3>1. v = [outcome |-> BarOutcome(picks[p].dir, fetched[Min(hits)]),
               exit |-> ExitOf(picks[p].dir, BarOutcome(picks[p].dir, fetched[Min(hits)]), fetched[Min(hits)].open),
               at |-> AvailableAt(Min(hits))]
      BY <2>2 DEF Resolve
    <3>2. hits = {d \in ForwardDays(picks[p], now) : BarOutcome(picks[p].dir, fetched[d]) # None}
      BY <2>1
    <3> HIDE DEF hits, days
    <3>3. v \in Verdict /\ v.outcome \in {"WIN", "LOSS"} /\ Earned(p, v, clock)
      BY <2>1, <2>2, <3>1, <3>2, BarVerdict
    <3> QED
      BY <1>2, <3>3
  <2>3. CASE hits = {}
    <3>1. \A d \in ForwardDays(picks[p], now) : BarOutcome(picks[p].dir, fetched[d]) = None
      BY <2>1, <2>3
    <3>2. CASE FullHorizon(days)
      <4>1. v = [outcome |-> "EXPIRED", exit |-> fetched[Max(days)].close, at |-> AvailableAt(Max(days))]
        BY <2>3, <3>2 DEF Resolve
      <4>2. v \in Verdict /\ v.outcome = "EXPIRED" /\ Earned(p, v, clock)
        BY <2>1, <3>1, <3>2, <4>1, ExpiryVerdict
      <4> QED
        BY <1>2, <4>2
    <3>3. CASE ~FullHorizon(days)
      <4>1. v = FromSnapshot(picks[p], price, now)
        BY <2>3, <3>3 DEF Resolve
      <4>2. ASSUME NEW d \in ForwardDays(picks[p], now), AvailableAt(d) < clock
            PROVE  ~HitsStop(picks[p].dir, Low(bars[d]), High(bars[d]))
        <5>1. d \in (picks[p].day + 1)..Day /\ picks[p].day \in Nat
          BY ForwardTyped, SeenTyped
        <5>2. d < Day /\ d \in 1..Day
          BY <4>2, <5>1, DayOver, DayOf
        <5>3. fetched[d] = bars[d]
          BY <2>1, <5>2, FetchedBar
        <5> QED
          BY <3>1, <5>3, OutcomeOfBar
      <4>3. v \in Verdict /\ v.outcome \in {"WIN", "LOSS"} /\ Earned(p, v, clock)
        BY <4>1, <4>2, QuoteVerdict
      <4> QED
        BY <1>2, <4>3
    <3> QED
      BY <3>2, <3>3
  <2> QED
    BY <2>2, <2>3
<1> QED
  BY <1>1, <1>2

-----------------------------------------------------------------------------
(* What a step leaves alone.                                               *)

LEMMA EarnedStays ==
  ASSUME Typed, NEW p \in DOMAIN picks, NEW v, NEW by \in Nat, by <= clock, v.at \in Nat, Earned(p, v, by),
         clock' \in Nat, clock <= clock',
         picks'[p].dir = picks[p].dir, picks'[p].day = picks[p].day,
         \A d \in 1..(Day - 1) : bars'[d] = bars[d],
         seen'[p].low \in Int, seen'[p].high \in Int,
         seen'[p].low <= seen[p].low, seen[p].high <= seen'[p].high
  PROVE  Earned(p, v, by)'
<1> DEFINE dir == picks[p].dir
<1>1. /\ dir \in Directions /\ picks[p].day \in Nat /\ seen[p].low \in Int /\ seen[p].high \in Int
      /\ Hold \in Nat /\ Day \in Nat
  BY SeenTyped, ConstantsTyped, DayOf
<1>2. clock \in Nat
  BY DEF Typed
<1>3. ASSUME NEW d \in Int, picks[p].day + 1 <= d, AvailableAt(d) < by
      PROVE  bars'[d] = bars[d]
  <2>1. AvailableAt(d) < clock
    BY <1>2, <1>3 DEF AvailableAt
  <2>2. d < Day
    BY <2>1, DayOver
  <2> QED
    BY <1>1, <1>3, <2>2
<1>4. v.at <= clock'
  BY <1>2 DEF Earned
<1>5. ASSUME v.outcome = "WIN"
      PROVE  /\ HitsTarget(dir, seen'[p].low, seen'[p].high) /\ v.exit = Target(dir)
             /\ \A d \in ForwardDays(picks'[p], v.at) :
                  AvailableAt(d) < by => ~HitsStop(dir, Low(bars'[d]), High(bars'[d]))
  <2>1. HitsTarget(dir, seen[p].low, seen[p].high) /\ v.exit = Target(dir)
    BY <1>5 DEF Earned
  <2>2. HitsTarget(dir, seen'[p].low, seen'[p].high)
    BY <1>1, <2>1, TargetWiden
  <2>3. ASSUME NEW d \in ForwardDays(picks'[p], v.at), AvailableAt(d) < by
        PROVE  ~HitsStop(dir, Low(bars'[d]), High(bars'[d]))
    <3>1. d \in ForwardDays(picks[p], v.at)
      BY DEF ForwardDays
    <3>2. d \in Int /\ picks[p].day + 1 <= d
      BY <1>1, <3>1 DEF ForwardDays
    <3>3. bars'[d] = bars[d]
      BY <1>3, <2>3, <3>2
    <3> QED
      BY <1>5, <2>3, <3>1, <3>3 DEF Earned
  <2> QED
    BY <2>1, <2>2, <2>3
<1>6. ASSUME v.outcome = "LOSS"
      PROVE  /\ HitsStop(dir, seen'[p].low, seen'[p].high) /\ HitsStop(dir, v.exit, v.exit)
             /\ v.exit # Stop(dir) => v.exit \in seen'[p].low..seen'[p].high
  <2>1. /\ HitsStop(dir, seen[p].low, seen[p].high) /\ HitsStop(dir, v.exit, v.exit)
        /\ v.exit # Stop(dir) => v.exit \in seen[p].low..seen[p].high
    BY <1>6 DEF Earned
  <2>2. HitsStop(dir, seen'[p].low, seen'[p].high)
    BY <1>1, <2>1, StopWiden
  <2>3. v.exit # Stop(dir) => v.exit \in seen'[p].low..seen'[p].high
    BY <1>1, <2>1
  <2> QED
    BY <2>1, <2>2, <2>3
<1>7. ASSUME v.outcome = "EXPIRED", v.exit # None
      PROVE  /\ AvailableAt(picks[p].day + Hold) <= clock'
             /\ \A d \in (picks[p].day + 1)..(picks[p].day + Hold) :
                  AvailableAt(d) < by => BarOutcome(dir, bars'[d]) = None
  <2>1. AvailableAt(picks[p].day + Hold) <= clock
    BY <1>7 DEF Earned
  <2>2. AvailableAt(picks[p].day + Hold) <= clock'
    BY <1>1, <1>2, <2>1 DEF AvailableAt
  <2>3. ASSUME NEW d \in (picks[p].day + 1)..(picks[p].day + Hold), AvailableAt(d) < by
        PROVE  BarOutcome(dir, bars'[d]) = None
    <3>1. d \in Int /\ picks[p].day + 1 <= d
      BY <1>1
    <3>2. bars'[d] = bars[d]
      BY <1>3, <2>3, <3>1
    <3> QED
      BY <1>7, <2>3, <3>2 DEF Earned
  <2> QED
    BY <2>2, <2>3
<1> QED
  BY <1>4, <1>5, <1>6, <1>7 DEF Earned

\* A row that is the same, while time stands still.
LEMMA RowStays ==
  ASSUME NEW p \in DOMAIN picks, RowHolds(p), TellsTrue(p), UNCHANGED <<clock, bars>>,
         p \in DOMAIN picks', picks'[p] = picks[p], events'[p] = events[p], alerts'[p] = alerts[p],
         seen'[p] = seen[p], judged'[p] = judged[p]
  PROVE  RowHolds(p)' /\ TellsTrue(p)'
<1>1. Day' = Day /\ Price' = Price
  BY DEF Day, Price
<1>2. Open(p)' <=> Open(p)
  BY DEF Open
<1>3. Covered(p) => Covered(p)'
  BY <1>1 DEF Covered
<1>4. Earned(p, picks[p], judged[p]) => Earned(p, picks[p], judged[p])'
  BY DEF Earned
<1> QED
  BY <1>1, <1>2, <1>3, <1>4 DEF RowHolds, TellsTrue, Silent

\* No one tells of the ending of an open pick.
LEMMA OpenUntold ==
  ASSUME PickInv, NEW p, Open(p)
  PROVE  /\ \A j \in Resolvers : job[j].step = "tell" => job[j].pick # p
         /\ \A c \in Cycles : cycle[c].step = "notify" => cycle[c].pick # p
<1>1. picks[p].outcome = None /\ None \notin Outcomes
  BY ConstantsTyped DEF Open
<1>2. ASSUME NEW j \in Resolvers, job[j].step = "tell"
      PROVE  job[j].pick # p
  <2>1. picks[job[j].pick].outcome \in {"WIN", "LOSS", "EXPIRED"}
    BY <1>2 DEF PickInv, JobHolds
  <2> QED
    BY <1>1, <2>1 DEF Outcomes
<1>3. ASSUME NEW c \in Cycles, cycle[c].step = "notify"
      PROVE  cycle[c].pick # p
  <2>1. picks[cycle[c].pick].outcome = "WITHDRAWN"
    BY <1>3 DEF PickInv, CycleHolds
  <2> QED
    BY <1>1, <2>1 DEF Outcomes
<1> QED
  BY <1>2, <1>3

\* A step at one moment changes the rows in E, which are closed when it is done and of which
\* nobody else is about to tell: the other rows, jobs and cycles are as they were.
LEMMA OthersStay ==
  ASSUME PickInv, NEW E, UNCHANGED <<clock, bars>>,
         \A p \in DOMAIN picks :
           /\ p \in DOMAIN picks' /\ seen'[p] = seen[p]
           /\ picks'[p].dir = picks[p].dir /\ picks'[p].day = picks[p].day
           /\ p \notin E => picks'[p] = picks[p] /\ events'[p] = events[p] /\ alerts'[p] = alerts[p] /\ judged'[p] = judged[p],
         \A p \in E : ~Open(p)',
         \A j \in Resolvers : job'[j] = job[j] /\ job[j].step = "tell" => job[j].pick \notin E,
         \A c \in Cycles : cycle'[c] = cycle[c] /\ cycle[c].step = "notify" => cycle[c].pick \notin E
  PROVE  /\ \A p \in DOMAIN picks : p \notin E => RowHolds(p)' /\ TellsTrue(p)'
         /\ \A j \in Resolvers : job'[j] = job[j] => JobHolds(j)'
         /\ \A c \in Cycles : cycle'[c] = cycle[c] => CycleHolds(c)'
<1>1. ASSUME NEW p \in DOMAIN picks, p \notin E
      PROVE  RowHolds(p)' /\ TellsTrue(p)'
  <2>1. RowHolds(p) /\ TellsTrue(p)
    BY DEF PickInv
  <2> QED
    BY <1>1, <2>1, RowStays
<1>2. ASSUME NEW j \in Resolvers, job'[j] = job[j]
      PROVE  JobHolds(j)'
  <2>1. JobHolds(j) /\ Typed
    BY DEF PickInv
  <2>2. PICK r : r = job[j] /\ r = job'[j]
    BY <1>2
  <2>3. r.judged <= clock'
    BY <2>1, <2>2 DEF JobHolds
  <2>4. CASE r.step = "idle"
    BY <2>2, <2>3, <2>4 DEF JobHolds
  <2>5. CASE r.step # "idle"
    <3>1. r.pick \in DOMAIN picks /\ r.verdict \in Verdict /\ r.verdict.outcome \in {"WIN", "LOSS", "EXPIRED"}
      BY <2>1, <2>2, <2>5 DEF JobHolds
    <3>2. r.pick \in DOMAIN picks'
      BY <3>1
    <3>3. ASSUME r.step = "write", Open(r.pick)'
          PROVE  Earned(r.pick, r.verdict, r.judged)'
      <4>1. r.pick \notin E
        BY <3>3
      <4>2. picks'[r.pick] = picks[r.pick] /\ seen'[r.pick] = seen[r.pick]
        BY <3>1, <4>1
      <4>3. Open(r.pick)
        BY <3>1, <3>3, <4>2 DEF Open
      <4>4. Earned(r.pick, r.verdict, r.judged)
        BY <2>1, <2>2, <3>3, <4>3 DEF JobHolds
      <4> QED
        BY <4>2, <4>4 DEF Earned
    <3>4. ASSUME r.step = "tell"
          PROVE  /\ picks'[r.pick].outcome = r.verdict.outcome /\ picks'[r.pick].exit = r.verdict.exit
                 /\ Silent(r.pick)'
      <4>1. r.pick \notin E
        BY <1>2, <2>2, <3>4
      <4>2. /\ picks[r.pick].outcome = r.verdict.outcome /\ picks[r.pick].exit = r.verdict.exit
            /\ Silent(r.pick)
        BY <2>1, <2>2, <3>4 DEF JobHolds
      <4> QED
        BY <3>1, <4>1, <4>2 DEF Silent
    <3> QED
      BY <2>2, <2>3, <3>1, <3>2, <3>3, <3>4 DEF JobHolds
  <2> QED
    BY <2>4, <2>5
<1>3. ASSUME NEW c \in Cycles, cycle'[c] = cycle[c]
      PROVE  CycleHolds(c)'
  <2>1. CycleHolds(c)
    BY DEF PickInv
  <2>2. Day' = Day
    BY DEF Day
  <2>3. cycle[c].now <= clock' /\ (cycle[c].step = "save" => cycle[c].now \div 2 = Day')
    BY <2>1, <2>2 DEF CycleHolds
  <2>4. ASSUME cycle[c].step = "notify"
        PROVE  /\ cycle[c].pick \in DOMAIN picks' /\ picks'[cycle[c].pick] = picks[cycle[c].pick]
               /\ alerts'[cycle[c].pick] = alerts[cycle[c].pick]
    BY <1>3, <2>1, <2>4 DEF CycleHolds
  <2> QED
    BY <1>3, <2>1, <2>3, <2>4 DEF CycleHolds
<1> QED
  BY <1>1, <1>2, <1>3

\* The same for one row.
LEMMA OtherRowsStay ==
  ASSUME PickInv, NEW p, UNCHANGED <<clock, bars>>, ~Open(p)',
         \A q \in DOMAIN picks :
           /\ q \in DOMAIN picks' /\ seen'[q] = seen[q]
           /\ picks'[q].dir = picks[q].dir /\ picks'[q].day = picks[q].day
           /\ q # p => picks'[q] = picks[q] /\ events'[q] = events[q] /\ alerts'[q] = alerts[q] /\ judged'[q] = judged[q],
         \A j \in Resolvers : job'[j] = job[j] /\ job[j].step = "tell" => job[j].pick # p,
         \A c \in Cycles : cycle'[c] = cycle[c] /\ cycle[c].step = "notify" => cycle[c].pick # p
  PROVE  /\ \A q \in DOMAIN picks : q # p => RowHolds(q)' /\ TellsTrue(q)'
         /\ \A j \in Resolvers : job'[j] = job[j] => JobHolds(j)'
         /\ \A c \in Cycles : cycle'[c] = cycle[c] => CycleHolds(c)'
<1> DEFINE E == {p}
<1>1. \A x : x \in E <=> x = p
  OBVIOUS
<1> HIDE DEF E
<1>2. \A q \in DOMAIN picks :
        /\ q \in DOMAIN picks' /\ seen'[q] = seen[q]
        /\ picks'[q].dir = picks[q].dir /\ picks'[q].day = picks[q].day
        /\ q \notin E => picks'[q] = picks[q] /\ events'[q] = events[q] /\ alerts'[q] = alerts[q] /\ judged'[q] = judged[q]
  BY <1>1
<1>3. \A q \in E : ~Open(q)'
  BY <1>1
<1>4. /\ \A j \in Resolvers : job'[j] = job[j] /\ job[j].step = "tell" => job[j].pick \notin E
      /\ \A c \in Cycles : cycle'[c] = cycle[c] /\ cycle[c].step = "notify" => cycle[c].pick \notin E
  BY <1>1
<1>5. /\ \A q \in DOMAIN picks : q \notin E => RowHolds(q)' /\ TellsTrue(q)'
      /\ \A j \in Resolvers : job'[j] = job[j] => JobHolds(j)'
      /\ \A c \in Cycles : cycle'[c] = cycle[c] => CycleHolds(c)'
  BY <1>2, <1>3, <1>4, OthersStay
<1> QED
  BY <1>1, <1>5

-----------------------------------------------------------------------------
(* Resolvers.                                                              *)

\* A step of one resolver that touches nothing else and leaves nothing to tell.
LEMMA JobMoves ==
  ASSUME PickInv, NEW j \in Resolvers, NEW r \in JobRecord,
         job' = [job EXCEPT ![j] = r], UNCHANGED <<clock, bars, ledger, cycle, seen>>, faults' \in 0..MaxFaults,
         r.step # "tell", JobHolds(j)'
  PROVE  PickInv'
<1>1. /\ clock' = clock /\ bars' = bars /\ picks' = picks /\ events' = events /\ alerts' = alerts /\ judged' = judged
      /\ cycle' = cycle /\ seen' = seen
  BY DEF ledger
<1>2. Typed /\ job \in [Resolvers -> JobRecord]
  BY DEF PickInv, Typed
<1>3. job' \in [Resolvers -> JobRecord] /\ job'[j] = r /\ \A k \in Resolvers : k # j => job'[k] = job[k]
  BY <1>2
<1>4. Typed'
  BY <1>1, <1>2, <1>3 DEF Typed, Day
<1>5. /\ \A p \in DOMAIN picks : RowHolds(p)' /\ TellsTrue(p)'
      /\ \A k \in Resolvers : job'[k] = job[k] => JobHolds(k)'
      /\ \A c \in Cycles : cycle'[c] = cycle[c] => CycleHolds(c)'
  <2> DEFINE E == {}
  <2>1. \A p \in DOMAIN picks :
          /\ p \in DOMAIN picks' /\ seen'[p] = seen[p]
          /\ picks'[p].dir = picks[p].dir /\ picks'[p].day = picks[p].day
          /\ p \notin E => picks'[p] = picks[p] /\ events'[p] = events[p] /\ alerts'[p] = alerts[p] /\ judged'[p] = judged[p]
    BY <1>1
  <2>2. \A x : x \notin E
    OBVIOUS
  <2> HIDE DEF E
  <2> QED
    BY <1>1, <2>1, <2>2, OthersStay
<1>6. ToldByOne'
  BY <1>1, <1>3 DEF PickInv, ToldByOne
<1> QED
  BY <1>1, <1>3, <1>4, <1>5, <1>6 DEF PickInv

LEMMA IdleHolds ==
  ASSUME PickInv, NEW j \in Resolvers, job'[j] = IdleJob, clock' \in Nat
  PROVE  JobHolds(j)' /\ IdleJob \in JobRecord
<1>1. IdleJob.step = "idle" /\ IdleJob.judged = 0
  BY DEF IdleJob
<1>2. 0 \in 0..MaxPicks
  BY ConstantsTyped
<1>3. IdleJob \in JobRecord
  BY <1>2 DEF IdleJob, JobRecord
<1> QED
  BY <1>1, <1>3 DEF JobHolds

LEMMA FaultTyped ==
  ASSUME Typed, Fault \/ NoFault
  PROVE  faults' \in 0..MaxFaults
<1>1. faults \in 0..MaxFaults /\ MaxFaults \in Nat
  BY PickAssumption DEF Typed
<1>2. CASE Fault
  BY <1>1, <1>2 DEF Fault
<1>3. CASE NoFault
  BY <1>1, <1>3 DEF NoFault
<1> QED
  BY <1>2, <1>3

LEMMA PriceTyped ==
  ASSUME Typed
  PROVE  Price \in Prices /\ Price \in Int
<1>1. Day \in 1..Day
  BY DayOf
<1> QED
  BY <1>1, BarsTyped DEF Price

LEMMA JudgeKeeps ==
  ASSUME PickInv, NEW j \in Resolvers, NEW now \in {clock - 1, clock}, NEW fetched \in Fetched,
         NEW price \in {Price, None}, Judge(j, now, fetched, price)
  PROVE  PickInv'
<1>1. PICK p \in DOMAIN picks :
        /\ Open(p) /\ now \in CapturedNow(p)
        /\ Resolve(picks[p], fetched, price, now) # None
        /\ job' = [job EXCEPT ![j] = [step |-> "write", pick |-> p, verdict |-> Resolve(picks[p], fetched, price, now),
                                      judged |-> IF fetched = <<>> THEN 0 ELSE clock]]
        /\ (Fault \/ NoFault) /\ UNCHANGED <<clock, bars, ledger, cycle, seen>>
  BY DEF Judge
<1>2. PICK v : v = Resolve(picks[p], fetched, price, now)
  OBVIOUS
<1>3. PICK by : by = IF fetched = <<>> THEN 0 ELSE clock
  OBVIOUS
<1>4. PICK r : r = [step |-> "write", pick |-> p, verdict |-> v, judged |-> by]
  OBVIOUS
<1>5. Typed /\ RowHolds(p) /\ clock \in Nat /\ 2 <= clock
  BY DEF PickInv, Typed
<1>6. now \in Nat /\ now <= clock
  BY <1>5
<1>7. by \in Nat /\ by <= clock
  BY <1>3, <1>5
<1>8. Covered(p) /\ 1 <= picks[p].day
  BY <1>1, <1>5 DEF RowHolds
<1>9. v \in Verdict /\ v.outcome \in {"WIN", "LOSS", "EXPIRED"} /\ Earned(p, v, by)
  BY <1>1, <1>2, <1>3, <1>5, <1>6, <1>8, VerdictEarned
<1>10. p \in 0..MaxPicks
  <2>1. p \in 1..Len(picks) /\ Len(picks) <= MaxPicks /\ Len(picks) \in Nat
    BY <1>5, LenProperties DEF Typed
  <2> QED
    BY <2>1, ConstantsTyped
<1>11. r \in JobRecord
  BY <1>4, <1>7, <1>9, <1>10 DEF JobRecord
<1>12. job' = [job EXCEPT ![j] = r] /\ job'[j] = r
  BY <1>1, <1>2, <1>3, <1>4 DEF PickInv, Typed
<1>13. /\ r.step = "write" /\ r.pick = p /\ r.verdict = v /\ r.judged = by
  BY <1>4
<1>14. /\ clock' = clock /\ bars' = bars /\ picks' = picks /\ seen' = seen
  BY <1>1 DEF ledger
<1>15. JobHolds(j)'
  <2>1. Earned(p, v, by)'
    BY <1>9, <1>14 DEF Earned
  <2> QED
    BY <1>7, <1>9, <1>12, <1>13, <1>14, <2>1 DEF JobHolds
<1>16. faults' \in 0..MaxFaults
  BY <1>1, <1>5, FaultTyped
<1> QED
  BY <1>1, <1>11, <1>12, <1>13, <1>15, <1>16, JobMoves

LEMMA KilledKeeps ==
  ASSUME PickInv, NEW j \in Resolvers, Killed(j)
  PROVE  PickInv'
<1>1. /\ Fault /\ job' = [job EXCEPT ![j] = IdleJob]
      /\ UNCHANGED <<clock, bars, ledger, cycle, seen>>
  BY DEF Killed
<1>2. Typed /\ job'[j] = IdleJob /\ clock' \in Nat
  BY <1>1 DEF PickInv, Typed
<1>3. JobHolds(j)' /\ IdleJob \in JobRecord /\ IdleJob.step # "tell"
  BY <1>2, IdleHolds DEF IdleJob
<1>4. faults' \in 0..MaxFaults
  BY <1>1, <1>2, FaultTyped
<1> QED
  BY <1>1, <1>3, <1>4, JobMoves

\* What is written into an open row.
LEMMA RowWritten ==
  ASSUME PickInv, NEW p, Open(p), NEW outcome \in Outcomes, NEW exit \in Levels, NEW at \in Nat, at <= clock,
         NEW by \in Nat, by <= clock,
         UNCHANGED <<clock, bars>>, p \in DOMAIN picks', seen'[p] = seen[p],
         picks'[p].day = picks[p].day, picks'[p].dir = picks[p].dir,
         picks'[p].outcome = outcome, picks'[p].exit = exit, picks'[p].at = at, judged'[p] = by,
         NEW v, v.outcome = outcome, v.exit = exit, v.at = at, Earned(p, v, by)
  PROVE  RowHolds(p)' /\ ~Open(p)'
<1>1. RowHolds(p) /\ Typed
  BY DEF PickInv, Open
<1>2. Day' = Day
  BY DEF Day
<1>3. ~Open(p)'
  BY ConstantsTyped DEF Open
<1>4. PICK w : w = picks'[p]
  OBVIOUS
<1>5. Earned(p, w, by)'
  <2>1. ForwardDays(picks'[p], at) = ForwardDays(picks[p], at)
    BY DEF ForwardDays
  <2>2. Earned(p, v, by)'
    BY <2>1 DEF Earned
  <2> QED
    BY <1>4, <2>2 DEF Earned
<1> QED
  BY <1>1, <1>2, <1>3, <1>4, <1>5 DEF RowHolds

\* The UPDATE of a resolver finds the pick still open, or nothing.
LEMMA WriteKeeps ==
  ASSUME PickInv, NEW j \in Resolvers, Write(j)
  PROVE  PickInv'
<1>1. PICK p : p = job[j].pick
  OBVIOUS
<1>2. PICK v : v = job[j].verdict
  OBVIOUS
<1>3. PICK by : by = job[j].judged
  OBVIOUS
<1>4. /\ Typed /\ JobHolds(j) /\ job[j].step = "write"
      /\ UNCHANGED <<clock, bars, events, alerts, cycle, seen, faults>>
  BY DEF PickInv, Write
<1>5. job[j] \in JobRecord /\ job[j].step # "idle"
  BY <1>4 DEF Typed
<1>6. /\ by \in Nat /\ by <= clock /\ p \in DOMAIN picks /\ p \in 0..MaxPicks
      /\ v \in Verdict /\ v.outcome \in {"WIN", "LOSS", "EXPIRED"}
      /\ Open(p) => Earned(p, v, by)
  BY <1>1, <1>2, <1>3, <1>4, <1>5 DEF JobHolds, JobRecord
<1>7. CASE ~Open(p)
  <2>1. UNCHANGED <<picks, judged>> /\ job' = [job EXCEPT ![j] = IdleJob]
    BY <1>1, <1>7 DEF Write, Writable, Updated
  <2>2. job'[j] = IdleJob /\ clock' \in Nat
    BY <1>4, <2>1 DEF Typed
  <2>3. JobHolds(j)' /\ IdleJob \in JobRecord /\ IdleJob.step # "tell"
    BY <2>2, IdleHolds DEF IdleJob
  <2>4. faults' \in 0..MaxFaults /\ UNCHANGED ledger
    BY <1>4, <2>1 DEF Typed, ledger
  <2> QED
    BY <1>4, <2>1, <2>3, <2>4, JobMoves
<1>8. CASE Open(p)
  <2>1. /\ picks' = [picks EXCEPT ![p].outcome = v.outcome, ![p].exit = v.exit, ![p].at = v.at]
        /\ judged' = [judged EXCEPT ![p] = by]
        /\ job' = [job EXCEPT ![j] = [@ EXCEPT !.step = "tell"]]
    BY <1>1, <1>2, <1>3, <1>8 DEF Write, Writable, Updated
  <2>2. PICK r : r = [job[j] EXCEPT !.step = "tell"]
    OBVIOUS
  <2>3. PICK row : row = [picks[p] EXCEPT !.outcome = v.outcome, !.exit = v.exit, !.at = v.at]
    OBVIOUS
  <2>4. /\ r \in JobRecord /\ r.step = "tell" /\ r.pick = p /\ r.verdict = v /\ r.judged = by
    BY <1>1, <1>2, <1>3, <1>5, <2>2 DEF JobRecord
  <2>5. /\ picks[p] \in Pick /\ v.outcome \in Outcomes /\ v.exit \in Levels /\ v.at \in Nat
    BY <1>4, <1>6, SeenTyped DEF Verdict
  <2>6. /\ row \in Pick /\ row.dir = picks[p].dir /\ row.day = picks[p].day
        /\ row.outcome = v.outcome /\ row.exit = v.exit /\ row.at = v.at
    BY <2>3, <2>5 DEF Pick
  <2>7. picks' = [picks EXCEPT ![p] = row]
    BY <2>1, <2>3
  <2>8. p \in 1..Len(picks) /\ DOMAIN picks = 1..Len(picks) /\ p \in 1..Len(judged)
    BY <1>4, <1>6, LenProperties DEF Typed
  <2>9. /\ picks' \in Seq(Pick) /\ Len(picks') = Len(picks) /\ DOMAIN picks' = DOMAIN picks
        /\ picks'[p] = row /\ \A q \in DOMAIN picks : q # p => picks'[q] = picks[q]
    BY <1>4, <2>6, <2>7, <2>8, ExceptSeq DEF Typed
  <2>10. /\ judged' \in Seq(Nat) /\ Len(judged') = Len(judged)
         /\ judged'[p] = by /\ \A q \in DOMAIN picks : q # p => judged'[q] = judged[q]
    BY <1>4, <1>6, <2>1, <2>8, ExceptSeq DEF Typed
  <2>11. /\ job' \in [Resolvers -> JobRecord] /\ job'[j] = r /\ \A k \in Resolvers : k # j => job'[k] = job[k]
    BY <1>4, <2>1, <2>2, <2>4 DEF Typed
  <2>12. Typed'
    BY <1>4, <2>9, <2>10, <2>11 DEF Typed, Day
  <2>13. /\ \A k \in Resolvers : job[k].step = "tell" => job[k].pick # p
         /\ \A c \in Cycles : cycle[c].step = "notify" => cycle[c].pick # p
    BY <1>8, OpenUntold
  <2>14. Silent(p) /\ v.at <= clock
    BY <1>6, <1>8 DEF PickInv, RowHolds, Earned
  <2>15. RowHolds(p)' /\ ~Open(p)'
    BY <1>4, <1>6, <1>8, <2>5, <2>6, <2>9, <2>10, <2>14, RowWritten
  <2>16. /\ \A q \in DOMAIN picks : q # p => RowHolds(q)' /\ TellsTrue(q)'
         /\ \A k \in Resolvers : job'[k] = job[k] => JobHolds(k)'
         /\ \A c \in Cycles : cycle'[c] = cycle[c] => CycleHolds(c)'
    <3>1. \A q \in DOMAIN picks :
            /\ q \in DOMAIN picks' /\ seen'[q] = seen[q]
            /\ picks'[q].dir = picks[q].dir /\ picks'[q].day = picks[q].day
            /\ q # p => picks'[q] = picks[q] /\ events'[q] = events[q] /\ alerts'[q] = alerts[q] /\ judged'[q] = judged[q]
      BY <1>4, <2>6, <2>9, <2>10
    <3> QED
      BY <1>4, <2>13, <2>15, <3>1, OtherRowsStay
  <2>17. JobHolds(j)'
    BY <1>4, <1>6, <2>4, <2>6, <2>9, <2>11, <2>14 DEF JobHolds, Silent
  <2>18. TellsTrue(p)'
    BY <1>4, <2>14 DEF TellsTrue, Silent
  <2>19. ToldByOne'
    BY <1>4, <2>4, <2>11, <2>13 DEF PickInv, ToldByOne
  <2>20. \A c \in Cycles : CycleHolds(c)'
    BY <1>4, <2>16
  <2>21. \A k \in Resolvers : JobHolds(k)'
    BY <2>11, <2>16, <2>17
  <2>22. \A q \in DOMAIN picks' : RowHolds(q)' /\ TellsTrue(q)'
    BY <2>9, <2>15, <2>16, <2>18
  <2> QED
    BY <2>12, <2>19, <2>20, <2>21, <2>22 DEF PickInv
<1> QED
  BY <1>7, <1>8

LEMMA ToldTyped ==
  ASSUME NEW f \in Seq(Seq(Told)), NEW p \in 1..Len(f), NEW m \in Told
  PROVE  /\ [f EXCEPT ![p] = Append(@, m)] \in Seq(Seq(Told)) /\ Len([f EXCEPT ![p] = Append(@, m)]) = Len(f)
         /\ \A q \in 1..Len(f) : q # p => [f EXCEPT ![p] = Append(@, m)][q] = f[q]
         /\ f[p] = <<>> => Len([f EXCEPT ![p] = Append(@, m)][p]) = 1 /\ [f EXCEPT ![p] = Append(@, m)][p][1] = m
<1>1. f[p] \in Seq(Told)
  BY ElementOfSeq
<1>2. PICK g : g = Append(f[p], m)
  OBVIOUS
<1>3. g \in Seq(Told)
  BY <1>1, <1>2, AppendProperties
<1>4. [f EXCEPT ![p] = Append(@, m)] = [f EXCEPT ![p] = g]
  BY <1>2
<1>5. /\ [f EXCEPT ![p] = g] \in Seq(Seq(Told)) /\ Len([f EXCEPT ![p] = g]) = Len(f)
      /\ \A q \in 1..Len(f) : [f EXCEPT ![p] = g][q] = IF q = p THEN g ELSE f[q]
  BY <1>3, ExceptSeq
<1>6. ASSUME f[p] = <<>>
      PROVE  Len(g) = 1 /\ g[1] = m
  <2>1. Len(f[p]) = 0
    BY <1>6, EmptySeq
  <2>2. Len(g) = Len(f[p]) + 1 /\ g[Len(f[p]) + 1] = m
    BY <1>1, <1>2, AppendProperties
  <2> QED
    BY <2>1, <2>2
<1> QED
  BY <1>4, <1>5, <1>6

\* The log and the phone are told at most once, and what the row says.
LEMMA TellKeeps ==
  ASSUME PickInv, NEW j \in Resolvers, Tell(j)
  PROVE  PickInv'
<1>1. PICK p : p = job[j].pick
  OBVIOUS
<1>2. PICK m : m = [outcome |-> job[j].verdict.outcome, exit |-> job[j].verdict.exit]
  OBVIOUS
<1>3. PICK logged \in BOOLEAN, sent \in BOOLEAN :
        /\ events' = IF logged THEN [events EXCEPT ![p] = Append(@, m)] ELSE events
        /\ alerts' = IF sent THEN [alerts EXCEPT ![p] = Append(@, m)] ELSE alerts
        /\ Fault \/ NoFault
  BY <1>1, <1>2 DEF Tell
<1>4. /\ Typed /\ JobHolds(j) /\ job[j].step = "tell" /\ job' = [job EXCEPT ![j] = IdleJob]
      /\ UNCHANGED <<clock, bars, picks, cycle, seen, judged>>
  BY DEF PickInv, Tell
<1>5. /\ p \in DOMAIN picks /\ job[j].verdict \in Verdict /\ job[j].verdict.outcome \in {"WIN", "LOSS", "EXPIRED"}
      /\ picks[p].outcome = job[j].verdict.outcome /\ picks[p].exit = job[j].verdict.exit /\ Silent(p)
  BY <1>1, <1>4 DEF JobHolds
<1>6. m \in Told /\ m = [outcome |-> picks[p].outcome, exit |-> picks[p].exit]
  BY <1>2, <1>5 DEF Verdict, Told
<1>7. p \in 1..Len(events) /\ p \in 1..Len(alerts) /\ DOMAIN picks = 1..Len(events) /\ DOMAIN picks = 1..Len(alerts)
  BY <1>4, <1>5, LenProperties DEF Typed
<1>8. /\ events' \in Seq(Seq(Told)) /\ Len(events') = Len(events)
      /\ \A q \in DOMAIN picks : q # p => events'[q] = events[q]
      /\ events'[p] # <<>> => Len(events'[p]) = 1 /\ events'[p][1] = m
  <2>1. CASE logged
    BY <1>3, <1>4, <1>5, <1>6, <1>7, <2>1, ToldTyped DEF Typed, Silent
  <2>2. CASE ~logged
    BY <1>3, <1>4, <1>5, <2>2 DEF Typed, Silent
  <2> QED
    BY <2>1, <2>2
<1>9. /\ alerts' \in Seq(Seq(Told)) /\ Len(alerts') = Len(alerts)
      /\ \A q \in DOMAIN picks : q # p => alerts'[q] = alerts[q]
      /\ alerts'[p] # <<>> => Len(alerts'[p]) = 1 /\ alerts'[p][1] = m
  <2>1. CASE sent
    BY <1>3, <1>4, <1>5, <1>6, <1>7, <2>1, ToldTyped DEF Typed, Silent
  <2>2. CASE ~sent
    BY <1>3, <1>4, <1>5, <2>2 DEF Typed, Silent
  <2> QED
    BY <2>1, <2>2
<1>10. /\ job'[j] = IdleJob /\ \A k \in Resolvers : k # j => job'[k] = job[k]
  BY <1>4 DEF Typed
<1>11. clock' \in Nat
  BY <1>4 DEF Typed
<1>12. JobHolds(j)' /\ IdleJob \in JobRecord /\ IdleJob.step = "idle"
  BY <1>10, <1>11, IdleHolds DEF IdleJob
<1>13. job' \in [Resolvers -> JobRecord] /\ faults' \in 0..MaxFaults
  BY <1>3, <1>4, <1>12, FaultTyped DEF Typed
<1>14. Typed'
  BY <1>4, <1>8, <1>9, <1>13 DEF Typed, Day
<1>15. picks[p].outcome \in {"WIN", "LOSS", "EXPIRED"} /\ ~Open(p) /\ ~Open(p)'
  BY <1>4, <1>5, ConstantsTyped DEF Open, Outcomes
<1>16. \A k \in Resolvers : job'[k] = job[k] /\ job[k].step = "tell" => job[k].pick # p
  BY <1>1, <1>4, <1>10, <1>12 DEF PickInv, ToldByOne
<1>17. \A c \in Cycles : cycle[c].step = "notify" => cycle[c].pick # p
  BY <1>15 DEF PickInv, CycleHolds
<1>18. /\ \A q \in DOMAIN picks : q # p => RowHolds(q)' /\ TellsTrue(q)'
       /\ \A k \in Resolvers : job'[k] = job[k] => JobHolds(k)'
       /\ \A c \in Cycles : cycle'[c] = cycle[c] => CycleHolds(c)'
  <2>1. \A q \in DOMAIN picks :
          /\ q \in DOMAIN picks' /\ seen'[q] = seen[q]
          /\ picks'[q].dir = picks[q].dir /\ picks'[q].day = picks[q].day
          /\ q # p => picks'[q] = picks[q] /\ events'[q] = events[q] /\ alerts'[q] = alerts[q] /\ judged'[q] = judged[q]
    BY <1>4, <1>8, <1>9
  <2> QED
    BY <1>4, <1>15, <1>16, <1>17, <2>1, OtherRowsStay
<1>19. RowHolds(p)'
  <2>1. RowHolds(p)
    BY <1>5 DEF PickInv
  <2>2. Earned(p, picks[p], judged[p])'
    BY <1>4, <1>15, <2>1 DEF RowHolds, Earned
  <2> QED
    BY <1>4, <1>15, <2>1, <2>2 DEF RowHolds, Day
<1>20. TellsTrue(p)'
  BY <1>4, <1>6, <1>8, <1>9 DEF TellsTrue
<1>21. ToldByOne'
  BY <1>4, <1>10, <1>12 DEF PickInv, ToldByOne
<1>22. /\ \A k \in Resolvers : JobHolds(k)'
       /\ \A c \in Cycles : CycleHolds(c)'
       /\ \A q \in DOMAIN picks' : RowHolds(q)' /\ TellsTrue(q)'
  BY <1>4, <1>10, <1>12, <1>18, <1>19, <1>20
<1> QED
  BY <1>14, <1>21, <1>22 DEF PickInv

-----------------------------------------------------------------------------
(* Cycles and operators.                                                   *)

\* A step of one cycle that touches nothing else and leaves nothing to notify.
LEMMA CycleMoves ==
  ASSUME PickInv, NEW c \in Cycles, NEW r \in CycleRecord,
         cycle' = [cycle EXCEPT ![c] = r], UNCHANGED <<clock, bars, ledger, job, seen>>, faults' \in 0..MaxFaults,
         r.step # "notify", CycleHolds(c)'
  PROVE  PickInv'
<1>1. /\ clock' = clock /\ bars' = bars /\ picks' = picks /\ events' = events /\ alerts' = alerts /\ judged' = judged
      /\ job' = job /\ seen' = seen
  BY DEF ledger
<1>2. Typed /\ cycle \in [Cycles -> CycleRecord]
  BY DEF PickInv, Typed
<1>3. cycle' \in [Cycles -> CycleRecord] /\ cycle'[c] = r /\ \A k \in Cycles : k # c => cycle'[k] = cycle[k]
  BY <1>2
<1>4. Typed'
  BY <1>1, <1>2, <1>3 DEF Typed, Day
<1>5. /\ \A p \in DOMAIN picks : RowHolds(p)' /\ TellsTrue(p)'
      /\ \A j \in Resolvers : job'[j] = job[j] => JobHolds(j)'
      /\ \A k \in Cycles : cycle'[k] = cycle[k] => CycleHolds(k)'
  <2> DEFINE E == {}
  <2>1. \A p \in DOMAIN picks :
          /\ p \in DOMAIN picks' /\ seen'[p] = seen[p]
          /\ picks'[p].dir = picks[p].dir /\ picks'[p].day = picks[p].day
          /\ p \notin E => picks'[p] = picks[p] /\ events'[p] = events[p] /\ alerts'[p] = alerts[p] /\ judged'[p] = judged[p]
    BY <1>1
  <2>2. \A x : x \notin E
    OBVIOUS
  <2> HIDE DEF E
  <2> QED
    BY <1>1, <2>1, <2>2, OthersStay
<1>6. ToldByOne'
  BY <1>1, <1>3 DEF PickInv, ToldByOne
<1> QED
  BY <1>1, <1>3, <1>4, <1>5, <1>6 DEF PickInv

LEMMA IdleCycleHolds ==
  ASSUME NEW c \in Cycles, cycle'[c] = IdleCycle, clock' \in Nat
  PROVE  CycleHolds(c)' /\ IdleCycle \in CycleRecord /\ IdleCycle.step = "idle"
<1>1. IdleCycle.step = "idle" /\ IdleCycle.now = 0
  BY DEF IdleCycle
<1>2. 0 \in 0..MaxPicks /\ None \in Levels
  BY ConstantsTyped DEF Levels
<1>3. IdleCycle \in CycleRecord
  BY <1>2 DEF IdleCycle, CycleRecord
<1> QED
  BY <1>1, <1>3 DEF CycleHolds

LEMMA SaveNothingKeeps ==
  ASSUME PickInv, NEW c \in Cycles, SaveNothing(c)
  PROVE  PickInv'
<1>1. cycle' = [cycle EXCEPT ![c] = IdleCycle] /\ UNCHANGED <<clock, bars, ledger, job, seen, faults>>
  BY DEF SaveNothing
<1>2. cycle'[c] = IdleCycle /\ clock' \in Nat /\ faults' \in 0..MaxFaults
  BY <1>1 DEF PickInv, Typed
<1>3. CycleHolds(c)' /\ IdleCycle \in CycleRecord /\ IdleCycle.step # "notify"
  BY <1>2, IdleCycleHolds
<1> QED
  BY <1>1, <1>2, <1>3, CycleMoves

LEMMA PlanReviewsKeeps ==
  ASSUME PickInv, NEW c \in Cycles, PlanReviews(c)
  PROVE  PickInv'
<1>1. Typed /\ clock \in Nat
  BY DEF PickInv, Typed
<1>2. PICK p \in {0} \cup {i \in DOMAIN picks : Unexpired(i, clock)},
           fire \in (IF Price = Entry /\ Len(picks) < MaxPicks THEN Directions ELSE {}) \cup {None} :
        \E mark \in (IF p = 0 THEN {None} ELSE {Price, None}) :
          /\ cycle' = [cycle EXCEPT ![c] = [step |-> "save", pick |-> p, mark |-> mark, fire |-> fire, now |-> clock]]
          /\ Fault \/ NoFault
  BY DEF PlanReviews
<1>3. PICK mark \in {Price, None} :
        /\ cycle' = [cycle EXCEPT ![c] = [step |-> "save", pick |-> p, mark |-> mark, fire |-> fire, now |-> clock]]
        /\ Fault \/ NoFault
  BY <1>2
<1>4. PICK r : r = [step |-> "save", pick |-> p, mark |-> mark, fire |-> fire, now |-> clock]
  OBVIOUS
<1>5. p \in 0..MaxPicks
  <2>1. p = 0 \/ p \in DOMAIN picks
    BY <1>2
  <2>2. DOMAIN picks = 1..Len(picks) /\ Len(picks) \in Nat /\ Len(picks) <= MaxPicks
    BY <1>1, LenProperties DEF Typed
  <2> QED
    BY <2>1, <2>2, ConstantsTyped
<1>6. mark \in Levels /\ fire \in Directions \cup {None}
  BY <1>1, <1>2, <1>3, PriceTyped DEF Levels
<1>7. r \in CycleRecord /\ r.step = "save" /\ r.now = clock
  BY <1>1, <1>4, <1>5, <1>6 DEF CycleRecord
<1>8. UNCHANGED <<clock, bars, ledger, job, seen>> /\ cycle' = [cycle EXCEPT ![c] = r] /\ faults' \in 0..MaxFaults
  BY <1>1, <1>3, <1>4, FaultTyped DEF PlanReviews
<1>9. CycleHolds(c)'
  <2>1. cycle'[c] = r
    BY <1>1, <1>8 DEF Typed
  <2> QED
    BY <1>1, <1>7, <1>8, <2>1 DEF CycleHolds, Day
<1> QED
  BY <1>7, <1>8, <1>9, CycleMoves

\* A withdrawal is told to the phone once, by the cycle that made it.
LEMMA NotifyKeeps ==
  ASSUME PickInv, NEW c \in Cycles, Notify(c)
  PROVE  PickInv'
<1>1. PICK p : p = cycle[c].pick
  OBVIOUS
<1>2. PICK m : m = [outcome |-> "WITHDRAWN", exit |-> IF cycle[c].mark = None THEN Entry ELSE cycle[c].mark]
  OBVIOUS
<1>3. /\ alerts' = [alerts EXCEPT ![p] = Append(@, m)] \/ alerts' = alerts
      /\ Fault \/ NoFault
  BY <1>1, <1>2 DEF Notify
<1>4. /\ Typed /\ CycleHolds(c) /\ cycle[c].step = "notify" /\ cycle' = [cycle EXCEPT ![c] = IdleCycle]
      /\ UNCHANGED <<clock, bars, picks, events, job, seen, judged>>
  BY DEF PickInv, Notify
<1>5. /\ p \in DOMAIN picks /\ picks[p].outcome = "WITHDRAWN" /\ picks[p].exit = m.exit /\ alerts[p] = <<>>
      /\ m.outcome = "WITHDRAWN"
  BY <1>1, <1>2, <1>4 DEF CycleHolds
<1>6. m \in Told /\ m = [outcome |-> picks[p].outcome, exit |-> picks[p].exit]
  <2>1. picks[p].exit \in Levels
    BY <1>4, <1>5, SeenTyped
  <2> QED
    BY <1>2, <1>5, <2>1 DEF Told, Outcomes
<1>7. p \in 1..Len(alerts) /\ DOMAIN picks = 1..Len(alerts)
  BY <1>4, <1>5, LenProperties DEF Typed
<1>8. /\ alerts' \in Seq(Seq(Told)) /\ Len(alerts') = Len(alerts)
      /\ \A q \in DOMAIN picks : q # p => alerts'[q] = alerts[q]
      /\ alerts'[p] # <<>> => Len(alerts'[p]) = 1 /\ alerts'[p][1] = m
  <2>1. CASE alerts' = [alerts EXCEPT ![p] = Append(@, m)]
    BY <1>4, <1>5, <1>6, <1>7, <2>1, ToldTyped DEF Typed
  <2>2. CASE alerts' = alerts
    BY <1>4, <1>5, <2>2 DEF Typed
  <2> QED
    BY <1>3, <2>1, <2>2
<1>9. /\ cycle'[c] = IdleCycle /\ \A e \in Cycles : e # c => cycle'[e] = cycle[e]
  BY <1>4 DEF Typed
<1>10. clock' \in Nat
  BY <1>4 DEF Typed
<1>11. CycleHolds(c)' /\ IdleCycle \in CycleRecord /\ IdleCycle.step = "idle"
  BY <1>9, <1>10, IdleCycleHolds
<1>12. cycle' \in [Cycles -> CycleRecord] /\ faults' \in 0..MaxFaults
  BY <1>3, <1>4, <1>11, FaultTyped DEF Typed
<1>13. Typed'
  BY <1>4, <1>8, <1>12 DEF Typed, Day
<1>14. ~Open(p) /\ ~Open(p)'
  BY <1>4, <1>5, ConstantsTyped DEF Open, Outcomes
<1>15. \A e \in Cycles : cycle'[e] = cycle[e] /\ cycle[e].step = "notify" => cycle[e].pick # p
  BY <1>1, <1>4, <1>9, <1>11 DEF PickInv, ToldByOne
<1>16. \A j \in Resolvers : job[j].step = "tell" => job[j].pick # p
  BY <1>5 DEF PickInv, JobHolds
<1>17. /\ \A q \in DOMAIN picks : q # p => RowHolds(q)' /\ TellsTrue(q)'
       /\ \A j \in Resolvers : job'[j] = job[j] => JobHolds(j)'
       /\ \A e \in Cycles : cycle'[e] = cycle[e] => CycleHolds(e)'
  <2>1. \A q \in DOMAIN picks :
          /\ q \in DOMAIN picks' /\ seen'[q] = seen[q]
          /\ picks'[q].dir = picks[q].dir /\ picks'[q].day = picks[q].day
          /\ q # p => picks'[q] = picks[q] /\ events'[q] = events[q] /\ alerts'[q] = alerts[q] /\ judged'[q] = judged[q]
    BY <1>4, <1>8
  <2> QED
    BY <1>4, <1>14, <1>15, <1>16, <2>1, OtherRowsStay
<1>18. RowHolds(p)'
  <2>1. RowHolds(p)
    BY <1>5 DEF PickInv
  <2>2. Earned(p, picks[p], judged[p])'
    BY <1>4, <1>14, <2>1 DEF RowHolds, Earned
  <2> QED
    BY <1>4, <1>14, <2>1, <2>2 DEF RowHolds, Day
<1>19. TellsTrue(p)'
  <2>1. TellsTrue(p)
    BY <1>5 DEF PickInv
  <2> QED
    BY <1>4, <1>6, <1>8, <2>1 DEF TellsTrue
<1>20. ToldByOne'
  BY <1>4, <1>9, <1>11 DEF PickInv, ToldByOne
<1>21. /\ \A j \in Resolvers : JobHolds(j)'
       /\ \A e \in Cycles : CycleHolds(e)'
       /\ \A q \in DOMAIN picks' : RowHolds(q)' /\ TellsTrue(q)'
  BY <1>4, <1>9, <1>11, <1>17, <1>18, <1>19
<1> QED
  BY <1>13, <1>20, <1>21 DEF PickInv

\* An operator ends a pick that is open, without a price.
LEMMA ClosesKeeps ==
  ASSUME PickInv, NEW p \in DOMAIN picks, Open(p), NEW outcome \in {"ADMIN_VOID", "EXPIRED"}, Closes(p, outcome)
  PROVE  PickInv'
<1>1. /\ picks' = [picks EXCEPT ![p].outcome = outcome, ![p].at = clock]
      /\ judged' = [judged EXCEPT ![p] = 0]
      /\ Fault /\ UNCHANGED <<clock, bars, events, alerts, job, cycle, seen>>
  BY DEF Closes
<1>2. Typed /\ RowHolds(p) /\ clock \in Nat
  BY DEF PickInv, Typed
<1>3. picks[p] \in Pick /\ outcome \in Outcomes /\ picks[p].exit = None /\ Silent(p)
  BY <1>2, SeenTyped DEF Outcomes, RowHolds
<1>4. PICK row : row = [picks[p] EXCEPT !.outcome = outcome, !.at = clock]
  OBVIOUS
<1>5. /\ row \in Pick /\ row.dir = picks[p].dir /\ row.day = picks[p].day
      /\ row.outcome = outcome /\ row.exit = None /\ row.at = clock
  BY <1>2, <1>3, <1>4 DEF Pick
<1>6. picks' = [picks EXCEPT ![p] = row]
  BY <1>1, <1>4
<1>7. p \in 1..Len(picks) /\ DOMAIN picks = 1..Len(picks) /\ p \in 1..Len(judged)
  BY <1>2, LenProperties DEF Typed
<1>8. /\ picks' \in Seq(Pick) /\ Len(picks') = Len(picks) /\ DOMAIN picks' = DOMAIN picks
      /\ picks'[p] = row /\ \A q \in DOMAIN picks : q # p => picks'[q] = picks[q]
  BY <1>2, <1>5, <1>6, <1>7, ExceptSeq DEF Typed
<1>9. /\ judged' \in Seq(Nat) /\ Len(judged') = Len(judged)
      /\ judged'[p] = 0 /\ \A q \in DOMAIN picks : q # p => judged'[q] = judged[q]
  BY <1>1, <1>2, <1>7, ExceptSeq DEF Typed
<1>10. faults' \in 0..MaxFaults
  BY <1>1, <1>2, FaultTyped
<1>11. Typed'
  BY <1>1, <1>2, <1>8, <1>9, <1>10 DEF Typed, Day
<1>12. /\ \A j \in Resolvers : job[j].step = "tell" => job[j].pick # p
       /\ \A c \in Cycles : cycle[c].step = "notify" => cycle[c].pick # p
  BY OpenUntold
<1>13. Earned(p, row, 0) /\ None \in Levels
  BY <1>2, <1>5 DEF Earned, Levels
<1>14. RowHolds(p)' /\ ~Open(p)'
  <2>1. PICK now : now = clock
    OBVIOUS
  <2>2. PICK by : by = 0
    OBVIOUS
  <2>3. PICK exit : exit = None
    OBVIOUS
  <2>4. now \in Nat /\ now <= clock /\ by \in Nat /\ by <= clock /\ exit \in Levels
    BY <1>2, <1>13, <2>1, <2>2, <2>3
  <2>5. /\ p \in DOMAIN picks' /\ UNCHANGED <<clock, bars>> /\ seen'[p] = seen[p] /\ judged'[p] = by
        /\ picks'[p].day = picks[p].day /\ picks'[p].dir = picks[p].dir
        /\ picks'[p].outcome = outcome /\ picks'[p].exit = exit /\ picks'[p].at = now
    BY <1>1, <1>5, <1>8, <1>9, <2>1, <2>2, <2>3
  <2>6. row.outcome = outcome /\ row.exit = exit /\ row.at = now /\ Earned(p, row, by)
    BY <1>5, <1>13, <2>1, <2>2, <2>3
  <2> QED
    BY <1>3, <2>4, <2>5, <2>6, RowWritten
<1>15. /\ \A q \in DOMAIN picks : q # p => RowHolds(q)' /\ TellsTrue(q)'
       /\ \A j \in Resolvers : job'[j] = job[j] => JobHolds(j)'
       /\ \A c \in Cycles : cycle'[c] = cycle[c] => CycleHolds(c)'
  <2>1. \A q \in DOMAIN picks :
          /\ q \in DOMAIN picks' /\ seen'[q] = seen[q]
          /\ picks'[q].dir = picks[q].dir /\ picks'[q].day = picks[q].day
          /\ q # p => picks'[q] = picks[q] /\ events'[q] = events[q] /\ alerts'[q] = alerts[q] /\ judged'[q] = judged[q]
    BY <1>1, <1>5, <1>8, <1>9
  <2> QED
    BY <1>1, <1>12, <1>14, <2>1, OtherRowsStay
<1>16. TellsTrue(p)'
  BY <1>1, <1>3 DEF TellsTrue, Silent
<1>17. ToldByOne'
  BY <1>1 DEF PickInv, ToldByOne
<1>18. /\ \A j \in Resolvers : JobHolds(j)'
       /\ \A c \in Cycles : CycleHolds(c)'
       /\ \A q \in DOMAIN picks' : RowHolds(q)' /\ TellsTrue(q)'
  BY <1>1, <1>8, <1>14, <1>15, <1>16
<1> QED
  BY <1>11, <1>17, <1>18 DEF PickInv

\* A sequence that something may be appended to.
LEMMA Grows ==
  ASSUME NEW S, NEW s \in Seq(S), NEW more \in BOOLEAN, NEW x \in S,
         NEW t, t = IF more THEN Append(s, x) ELSE s
  PROVE  /\ t \in Seq(S) /\ Len(t) = Len(s) + (IF more THEN 1 ELSE 0)
         /\ \A i \in 1..Len(s) : t[i] = s[i]
         /\ more => t[Len(s) + 1] = x
<1>1. Len(s) \in Nat
  BY LenProperties
<1>2. CASE more
  BY <1>1, <1>2, AppendProperties
<1>3. CASE ~more
  BY <1>1, <1>3
<1> QED
  BY <1>2, <1>3

\* The row of a pick that is issued.
LEMMA RowIssued ==
  ASSUME Typed, UNCHANGED <<clock, bars>>, NEW n, n \in DOMAIN picks',
         picks'[n].day = Day, picks'[n].at = 0, picks'[n].outcome = None, picks'[n].exit = None,
         events'[n] = <<>>, alerts'[n] = <<>>, judged'[n] = 0,
         seen'[n].low = Min({Entry, Price}), seen'[n].high = Max({Entry, Price})
  PROVE  RowHolds(n)' /\ TellsTrue(n)'
<1>1. Day' = Day /\ Price' = Price /\ Day \in Nat /\ 1 <= Day /\ clock \in Nat
  BY DayOf DEF Day, Price, Typed
<1>2. seen'[n].low <= Price /\ Price <= seen'[n].high
  <2>1. Price \in Int /\ Entry \in Int
    BY PriceTyped, ConstantsTyped
  <2> QED
    BY <2>1, MinOfTwo, MaxOfTwo
<1>3. (picks'[n].day + 1)..Day = {}
  BY <1>1
<1>4. Covered(n)'
  BY <1>1, <1>2, <1>3 DEF Covered
<1>5. Open(n)'
  BY DEF Open
<1> QED
  BY <1>1, <1>4, <1>5 DEF RowHolds, TellsTrue, Silent

\* The save transaction: it withdraws what is still open, and issues when nothing is.
LEMMA SaveKeeps ==
  ASSUME PickInv, NEW c \in Cycles, Save(c)
  PROVE  PickInv'
<1>1. PICK r : r = cycle[c]
  OBVIOUS
<1>2. PICK p : p = r.pick
  OBVIOUS
<1>3. PICK ends \in BOOLEAN : ends <=> Applies(p)
  OBVIOUS
<1>4. PICK told : told = [outcome |-> "WITHDRAWN", exit |-> IF r.mark = None THEN Entry ELSE r.mark]
  OBVIOUS
<1>5. PICK rows : rows = IF ends THEN Withdrawn(picks, p, r.mark, r.now) ELSE picks
  OBVIOUS
<1>6. PICK issue \in BOOLEAN : issue <=> r.fire # None /\ ~Blocked(rows) /\ Len(picks) < MaxPicks
  OBVIOUS
<1>7. /\ Typed /\ CycleHolds(c) /\ r.step = "save" /\ r \in CycleRecord /\ clock \in Nat
      /\ UNCHANGED <<clock, bars, job>>
      /\ r.now \in Nat /\ r.now <= clock /\ r.now \div 2 = Day
  BY <1>1 DEF PickInv, Save, Typed, CycleHolds, CycleRecord
<1>8. told \in Told /\ told.outcome = "WITHDRAWN"
  BY <1>4, <1>7, ConstantsTyped DEF Told, Outcomes, CycleRecord, Levels
<1>9. ends => p \in DOMAIN picks /\ Open(p) /\ p # 0
  BY <1>3 DEF Applies, Open
<1>10. PICK logged \in BOOLEAN :
        /\ logged => ends
        /\ events' = IF issue THEN Append(IF logged THEN [events EXCEPT ![p] = Append(@, told)] ELSE events, <<>>)
                     ELSE IF logged THEN [events EXCEPT ![p] = Append(@, told)] ELSE events
        /\ Fault \/ NoFault
  BY <1>1, <1>2, <1>3, <1>4, <1>5, <1>6 DEF Save
<1>11. /\ picks' = IF issue
                   THEN Append(rows, [dir |-> r.fire, day |-> r.now \div 2, outcome |-> None, exit |-> None, at |-> 0])
                   ELSE rows
       /\ judged' = IF issue THEN Append(IF ends THEN [judged EXCEPT ![p] = 0] ELSE judged, 0)
                    ELSE IF ends THEN [judged EXCEPT ![p] = 0] ELSE judged
       /\ alerts' = IF issue THEN Append(alerts, <<>>) ELSE alerts
       /\ seen' = IF issue THEN Append(seen, [low |-> Min({Entry, Price}), high |-> Max({Entry, Price})]) ELSE seen
  BY <1>1, <1>2, <1>3, <1>5, <1>6 DEF Save
<1>12. cycle' = [cycle EXCEPT ![c] = IF ends THEN [@ EXCEPT !.step = "notify", !.fire = None] ELSE IdleCycle]
  BY <1>1, <1>2, <1>3, <1>9 DEF Save, Announced
<1>13. PICK n : n = Len(picks)
  OBVIOUS
<1>14. /\ n \in Nat /\ DOMAIN picks = 1..n /\ Len(events) = n /\ Len(alerts) = n /\ Len(judged) = n /\ Len(seen) = n
  BY <1>7, <1>13, LenProperties DEF Typed
\* The row that is withdrawn.
<1>15. PICK row : row = [picks[p] EXCEPT !.outcome = "WITHDRAWN", !.exit = told.exit, !.at = r.now]
  OBVIOUS
<1>16. ends => /\ row \in Pick /\ row.dir = picks[p].dir /\ row.day = picks[p].day
               /\ row.outcome = "WITHDRAWN" /\ row.exit = told.exit /\ row.at = r.now
  <2>1. ends => picks[p] \in Pick
    BY <1>7, <1>9, SeenTyped
  <2>2. "WITHDRAWN" \in Outcomes /\ told.exit \in Levels
    BY <1>8 DEF Told, Outcomes
  <2> QED
    BY <1>7, <1>15, <2>1, <2>2 DEF Pick
<1>17. /\ rows \in Seq(Pick) /\ Len(rows) = n
       /\ \A q \in 1..n : rows[q] = IF ends /\ q = p THEN row ELSE picks[q]
  <2>1. CASE ends
    <3>1. rows = [picks EXCEPT ![p] = row]
      BY <1>4, <1>5, <1>15, <2>1 DEF Withdrawn
    <3> QED
      BY <1>7, <1>9, <1>13, <1>14, <1>16, <2>1, <3>1, ExceptSeq DEF Typed
  <2>2. CASE ~ends
    BY <1>5, <1>7, <1>13, <2>2 DEF Typed
  <2> QED
    BY <2>1, <2>2
<1>18. PICK log : log = IF logged THEN [events EXCEPT ![p] = Append(@, told)] ELSE events
  OBVIOUS
<1>19. ends => Silent(p)
  BY <1>9 DEF PickInv, RowHolds
<1>20. /\ log \in Seq(Seq(Told)) /\ Len(log) = n
       /\ \A q \in 1..n : q # p \/ ~ends => log[q] = events[q]
       /\ ends => log[p] = <<>> \/ (Len(log[p]) = 1 /\ log[p][1] = told)
  <2>1. CASE logged
    BY <1>7, <1>8, <1>9, <1>10, <1>14, <1>18, <1>19, <2>1, ToldTyped DEF Typed, Silent
  <2>2. CASE ~logged
    BY <1>7, <1>14, <1>18, <1>19, <2>2 DEF Typed, Silent
  <2> QED
    BY <2>1, <2>2
<1>21. PICK when : when = IF ends THEN [judged EXCEPT ![p] = 0] ELSE judged
  OBVIOUS
<1>22. /\ when \in Seq(Nat) /\ Len(when) = n
       /\ \A q \in 1..n : when[q] = IF ends /\ q = p THEN 0 ELSE judged[q]
  <2>1. CASE ends
    BY <1>7, <1>9, <1>14, <1>21, <2>1, ExceptSeq DEF Typed
  <2>2. CASE ~ends
    BY <1>7, <1>14, <1>21, <2>2 DEF Typed
  <2> QED
    BY <2>1, <2>2
\* The row that is issued.
<1>23. PICK new : new = [dir |-> r.fire, day |-> r.now \div 2, outcome |-> None, exit |-> None, at |-> 0]
  OBVIOUS
<1>24. PICK range : range = [low |-> Min({Entry, Price}), high |-> Max({Entry, Price})]
  OBVIOUS
<1>25. issue => new \in Pick
  <2>1. issue => r.fire \in Directions
    BY <1>6, <1>7 DEF CycleRecord
  <2>2. r.now \div 2 \in Nat /\ None \in Levels
    BY <1>7, DayOf DEF Levels
  <2> QED
    BY <1>23, <2>1, <2>2 DEF Pick
<1>26. range \in [low : Prices, high : Prices]
  <2>1. Price \in Prices /\ Price \in Int /\ Entry \in Prices /\ Entry \in Int
    BY <1>7, PriceTyped, ConstantsTyped
  <2>2. Min({Entry, Price}) \in Prices /\ Max({Entry, Price}) \in Prices
    BY <2>1, MinOfTwo, MaxOfTwo
  <2> QED
    BY <1>24, <2>2
<1>27. /\ picks' \in Seq(Pick) /\ Len(picks') = n + (IF issue THEN 1 ELSE 0)
       /\ \A q \in 1..n : picks'[q] = rows[q]
       /\ issue => picks'[n + 1] = new
  <2>1. CASE issue
    BY <1>11, <1>17, <1>23, <1>25, <2>1, Grows
  <2>2. CASE ~issue
    BY <1>11, <1>14, <1>17, <2>2
  <2> QED
    BY <2>1, <2>2
<1>28. /\ events' \in Seq(Seq(Told)) /\ Len(events') = n + (IF issue THEN 1 ELSE 0)
       /\ \A q \in 1..n : events'[q] = log[q]
       /\ issue => events'[n + 1] = <<>>
  <2>1. <<>> \in Seq(Told) /\ events' = IF issue THEN Append(log, <<>>) ELSE log
    BY <1>10, <1>18, EmptySeq
  <2> QED
    BY <1>20, <2>1, Grows
<1>29. /\ alerts' \in Seq(Seq(Told)) /\ Len(alerts') = n + (IF issue THEN 1 ELSE 0)
       /\ \A q \in 1..n : alerts'[q] = alerts[q]
       /\ issue => alerts'[n + 1] = <<>>
  <2>1. <<>> \in Seq(Told) /\ alerts \in Seq(Seq(Told))
    BY <1>7, EmptySeq DEF Typed
  <2> QED
    BY <1>11, <1>14, <2>1, Grows
<1>30. /\ judged' \in Seq(Nat) /\ Len(judged') = n + (IF issue THEN 1 ELSE 0)
       /\ \A q \in 1..n : judged'[q] = when[q]
       /\ issue => judged'[n + 1] = 0
  BY <1>11, <1>21, <1>22, Grows
<1>31. /\ seen' \in Seq([low : Prices, high : Prices]) /\ Len(seen') = n + (IF issue THEN 1 ELSE 0)
       /\ \A q \in 1..n : seen'[q] = seen[q]
       /\ issue => seen'[n + 1] = range
  <2>1. seen \in Seq([low : Prices, high : Prices]) /\ Len(seen) = n
    BY <1>7, <1>14 DEF Typed
  <2>2. seen' = IF issue THEN Append(seen, range) ELSE seen
    BY <1>11, <1>24
  <2>3. PICK S : S = [low : Prices, high : Prices]
    OBVIOUS
  <2>4. seen \in Seq(S) /\ range \in S
    BY <1>26, <2>1, <2>3
  <2>5. /\ seen' \in Seq(S) /\ Len(seen') = Len(seen) + (IF issue THEN 1 ELSE 0)
        /\ \A i \in 1..Len(seen) : seen'[i] = seen[i]
        /\ issue => seen'[Len(seen) + 1] = range
    BY <2>2, <2>4, Grows
  <2> QED
    BY <2>1, <2>3, <2>5
<1>32. PICK kept : kept = [r EXCEPT !.step = "notify", !.fire = None]
  OBVIOUS
<1>33. /\ kept \in CycleRecord /\ kept.step = "notify" /\ kept.pick = p /\ kept.mark = r.mark /\ kept.now = r.now
  BY <1>2, <1>7, <1>32 DEF CycleRecord
<1>34. /\ ends => cycle'[c] = kept
       /\ ~ends => cycle'[c] = IdleCycle
       /\ \A e \in Cycles : e # c => cycle'[e] = cycle[e]
  BY <1>1, <1>7, <1>12, <1>32 DEF Typed
<1>35. IdleCycle \in CycleRecord /\ IdleCycle.step = "idle" /\ IdleCycle.now = 0
  BY ConstantsTyped DEF IdleCycle, CycleRecord, Levels
<1>36. cycle' \in [Cycles -> CycleRecord]
  <2>1. cycle' = [cycle EXCEPT ![c] = IF ends THEN kept ELSE IdleCycle]
    BY <1>1, <1>12, <1>32
  <2>2. cycle \in [Cycles -> CycleRecord]
    BY <1>7 DEF Typed
  <2> QED
    BY <1>33, <1>35, <2>1, <2>2
<1>37. faults' \in 0..MaxFaults
  BY <1>7, <1>10, FaultTyped
<1>38. Len(picks') <= MaxPicks
  BY <1>6, <1>7, <1>13, <1>14, <1>27, ConstantsTyped DEF Typed
<1>39. Typed'
  BY <1>7, <1>27, <1>28, <1>29, <1>30, <1>31, <1>36, <1>37, <1>38 DEF Typed, Day
<1>40. DOMAIN picks' = 1..(n + (IF issue THEN 1 ELSE 0)) /\ \A q \in DOMAIN picks : q \in DOMAIN picks'
  BY <1>14, <1>27, LenProperties
<1>41. ends => /\ \A j \in Resolvers : job[j].step = "tell" => job[j].pick # p
               /\ \A e \in Cycles : cycle[e].step = "notify" => cycle[e].pick # p
  BY <1>9, OpenUntold
<1>42. ends => RowHolds(p)' /\ ~Open(p)'
  <2> SUFFICES ASSUME ends
               PROVE  RowHolds(p)' /\ ~Open(p)'
    OBVIOUS
  <2>1. PICK exit : exit = told.exit
    OBVIOUS
  <2>2. PICK at : at = r.now
    OBVIOUS
  <2>3. PICK by : by = 0
    OBVIOUS
  <2>4. PICK outcome : outcome = "WITHDRAWN"
    OBVIOUS
  <2>5. /\ outcome \in Outcomes /\ exit \in Levels /\ at \in Nat /\ at <= clock /\ by \in Nat /\ by <= clock
    BY <1>7, <1>8, <2>1, <2>2, <2>3, <2>4 DEF Told, Outcomes
  <2>6. p \in 1..n /\ picks'[p] = row
    BY <1>9, <1>14, <1>17, <1>27
  <2>7. /\ p \in DOMAIN picks' /\ UNCHANGED <<clock, bars>> /\ seen'[p] = seen[p] /\ judged'[p] = by
        /\ picks'[p].day = picks[p].day /\ picks'[p].dir = picks[p].dir
        /\ picks'[p].outcome = outcome /\ picks'[p].exit = exit /\ picks'[p].at = at
    BY <1>7, <1>9, <1>16, <1>22, <1>30, <1>31, <1>40, <2>1, <2>2, <2>3, <2>4, <2>6
  <2>8. row.outcome = outcome /\ row.exit = exit /\ row.at = at /\ Earned(p, row, by)
    BY <1>7, <1>16, <2>1, <2>2, <2>4 DEF Earned
  <2> QED
    BY <1>9, <2>5, <2>7, <2>8, RowWritten
<1>43. /\ \A q \in DOMAIN picks : q # p \/ ~ends => RowHolds(q)' /\ TellsTrue(q)'
       /\ \A j \in Resolvers : job'[j] = job[j] => JobHolds(j)'
       /\ \A e \in Cycles : cycle'[e] = cycle[e] => CycleHolds(e)'
  <2> DEFINE E == IF ends THEN {p} ELSE {}
  <2>1. \A x : x \in E <=> ends /\ x = p
    OBVIOUS
  <2> HIDE DEF E
  <2>2. \A q \in DOMAIN picks :
          /\ q \in DOMAIN picks' /\ seen'[q] = seen[q]
          /\ picks'[q].dir = picks[q].dir /\ picks'[q].day = picks[q].day
          /\ q \notin E => picks'[q] = picks[q] /\ events'[q] = events[q] /\ alerts'[q] = alerts[q] /\ judged'[q] = judged[q]
    BY <1>14, <1>16, <1>17, <1>20, <1>22, <1>27, <1>28, <1>29, <1>30, <1>31, <1>40, <2>1
  <2>3. \A q \in E : ~Open(q)'
    BY <1>42, <2>1
  <2>4. /\ \A j \in Resolvers : job'[j] = job[j] /\ job[j].step = "tell" => job[j].pick \notin E
        /\ \A e \in Cycles : cycle'[e] = cycle[e] /\ cycle[e].step = "notify" => cycle[e].pick \notin E
    BY <1>41, <2>1
  <2>5. /\ \A q \in DOMAIN picks : q \notin E => RowHolds(q)' /\ TellsTrue(q)'
        /\ \A j \in Resolvers : job'[j] = job[j] => JobHolds(j)'
        /\ \A e \in Cycles : cycle'[e] = cycle[e] => CycleHolds(e)'
    BY <1>7, <2>2, <2>3, <2>4, OthersStay
  <2> QED
    BY <2>1, <2>5
<1>44. ends => TellsTrue(p)'
  <2> SUFFICES ASSUME ends
               PROVE  TellsTrue(p)'
    OBVIOUS
  <2>1. p \in 1..n /\ picks'[p] = row /\ events'[p] = log[p] /\ alerts'[p] = alerts[p]
    BY <1>9, <1>14, <1>17, <1>27, <1>28, <1>29
  <2>2. told = [outcome |-> picks'[p].outcome, exit |-> picks'[p].exit]
    BY <1>4, <1>16, <2>1
  <2> QED
    BY <1>19, <1>20, <2>1, <2>2 DEF TellsTrue, Silent
<1>45. issue => RowHolds(n + 1)' /\ TellsTrue(n + 1)'
  <2> SUFFICES ASSUME issue
               PROVE  RowHolds(n + 1)' /\ TellsTrue(n + 1)'
    OBVIOUS
  <2>1. PICK k : k = n + 1
    OBVIOUS
  <2>2. /\ k \in DOMAIN picks' /\ picks'[k] = new /\ events'[k] = <<>> /\ alerts'[k] = <<>> /\ judged'[k] = 0
        /\ seen'[k] = range
    BY <1>14, <1>27, <1>28, <1>29, <1>30, <1>31, <1>40, <2>1
  <2>3. /\ picks'[k].day = Day /\ picks'[k].at = 0 /\ picks'[k].outcome = None /\ picks'[k].exit = None
        /\ seen'[k].low = Min({Entry, Price}) /\ seen'[k].high = Max({Entry, Price})
    BY <1>7, <1>23, <1>24, <2>2
  <2>4. RowHolds(k)' /\ TellsTrue(k)'
    BY <1>7, <2>2, <2>3, RowIssued
  <2> QED
    BY <2>1, <2>4
<1>46. CycleHolds(c)'
  <2>1. CASE ends
    <3>1. p \in DOMAIN picks' /\ picks'[p] = row /\ alerts'[p] = <<>>
      BY <1>9, <1>14, <1>17, <1>19, <1>27, <1>29, <1>40, <2>1 DEF Silent
    <3> QED
      BY <1>4, <1>7, <1>16, <1>33, <1>34, <2>1, <3>1 DEF CycleHolds
  <2>2. CASE ~ends
    BY <1>7, <1>34, <1>35, <2>2 DEF CycleHolds
  <2> QED
    BY <2>1, <2>2
<1>47. ToldByOne'
  BY <1>7, <1>33, <1>34, <1>35, <1>41 DEF PickInv, ToldByOne
<1>48. \A q \in DOMAIN picks' : RowHolds(q)' /\ TellsTrue(q)'
  <2>1. \A q \in DOMAIN picks' : q \in DOMAIN picks \/ (issue /\ q = n + 1)
    BY <1>14, <1>40
  <2> QED
    BY <1>42, <1>43, <1>44, <1>45, <2>1
<1>49. /\ \A j \in Resolvers : JobHolds(j)'
       /\ \A e \in Cycles : CycleHolds(e)'
  BY <1>7, <1>34, <1>43, <1>46
<1> QED
  BY <1>39, <1>47, <1>48, <1>49 DEF PickInv

-----------------------------------------------------------------------------
(* The market.                                                             *)

\* Time passes: what was seen of the picks widens, and no bar that was final changes.
LEMMA TimePasses ==
  ASSUME PickInv, Typed', clock <= clock', Day <= Day', UNCHANGED <<ledger, job, cycle>>,
         \A d \in 1..(Day - 1) : bars'[d] = bars[d],
         \A p \in DOMAIN picks : seen'[p].low <= seen[p].low /\ seen[p].high <= seen'[p].high,
         \A p \in DOMAIN picks : Open(p) /\ RowHolds(p) => Covered(p)',
         \A c \in Cycles : cycle[c].step = "save" => Day' = Day
  PROVE  PickInv'
<1>1. /\ picks' = picks /\ events' = events /\ alerts' = alerts /\ judged' = judged /\ job' = job /\ cycle' = cycle
  BY DEF ledger
<1>2. Typed /\ clock \in Nat /\ clock' \in Nat /\ Day \in Nat /\ Day' \in Nat
  <2>1. Typed /\ clock \in Nat /\ clock' \in Nat
    BY DEF PickInv, Typed
  <2>2. Day \in Nat
    BY <2>1, DayOf
  <2>3. Day' \in Nat
    <3>1. \A t \in Nat : t \div 2 \in Nat
      OBVIOUS
    <3> QED
      BY <2>1, <3>1 DEF Day
  <2> QED
    BY <2>1, <2>2, <2>3
<1>3. ASSUME NEW p \in DOMAIN picks
      PROVE  seen'[p].low \in Int /\ seen'[p].high \in Int
  <2>1. p \in 1..Len(seen')
    BY <1>1, <1>2, <1>3, LenProperties DEF Typed
  <2>2. seen'[p] \in [low : Prices, high : Prices]
    BY <2>1, ElementOfSeq DEF Typed
  <2> QED
    BY <2>2, ConstantsTyped
<1>4. ASSUME NEW p \in DOMAIN picks, NEW v, NEW by \in Nat, by <= clock, v.at \in Nat, Earned(p, v, by)
      PROVE  Earned(p, v, by)'
  <2>1. picks'[p].dir = picks[p].dir /\ picks'[p].day = picks[p].day
    BY <1>1
  <2> QED
    BY <1>2, <1>3, <1>4, <2>1, EarnedStays
<1>5. ASSUME NEW p \in DOMAIN picks
      PROVE  RowHolds(p)' /\ TellsTrue(p)'
  <2>1. RowHolds(p) /\ TellsTrue(p)
    BY DEF PickInv
  <2>2. picks[p].day \in Nat /\ picks[p].at \in Nat /\ judged[p] \in Nat
    BY <1>2, SeenTyped
  <2>3. 1 <= picks[p].day /\ picks[p].day <= Day' /\ picks[p].at <= clock' /\ judged[p] <= clock'
    BY <1>2, <2>1, <2>2 DEF RowHolds
  <2>4. Open(p)' <=> Open(p)
    BY <1>1 DEF Open
  <2>5. Open(p) => picks[p].exit = None /\ Silent(p) /\ Covered(p)'
    BY <2>1 DEF RowHolds
  <2>6. PICK row : row = picks[p]
    OBVIOUS
  <2>7. PICK by : by = judged[p]
    OBVIOUS
  <2>8. ~Open(p) => Earned(p, row, by)'
    BY <1>4, <2>1, <2>2, <2>6, <2>7 DEF RowHolds
  <2>9. TellsTrue(p)'
    BY <1>1, <2>1 DEF TellsTrue
  <2> QED
    BY <1>1, <2>3, <2>4, <2>5, <2>6, <2>7, <2>8, <2>9 DEF RowHolds, Silent
<1>6. ASSUME NEW j \in Resolvers
      PROVE  JobHolds(j)'
  <2>1. JobHolds(j) /\ job[j] \in JobRecord
    BY <1>2 DEF PickInv, Typed
  <2>2. PICK r : r = job[j]
    OBVIOUS
  <2>3. r.judged \in Nat /\ r.judged <= clock /\ r.judged <= clock'
    BY <1>2, <2>1, <2>2 DEF JobHolds, JobRecord
  <2>4. ASSUME r.step # "idle"
        PROVE  r.pick \in DOMAIN picks /\ r.verdict \in Verdict /\ r.verdict.outcome \in {"WIN", "LOSS", "EXPIRED"}
    BY <2>1, <2>2, <2>4 DEF JobHolds
  <2>5. ASSUME r.step = "write", Open(r.pick)'
        PROVE  Earned(r.pick, r.verdict, r.judged)'
    <3>1. Open(r.pick)
      BY <1>1, <2>5 DEF Open
    <3>2. Earned(r.pick, r.verdict, r.judged)
      BY <2>1, <2>2, <2>5, <3>1 DEF JobHolds
    <3>3. r.verdict.at \in Nat /\ r.pick \in DOMAIN picks
      BY <2>4, <2>5 DEF Verdict
    <3> QED
      BY <1>4, <2>3, <3>2, <3>3
  <2>6. ASSUME r.step = "tell"
        PROVE  /\ picks'[r.pick].outcome = r.verdict.outcome /\ picks'[r.pick].exit = r.verdict.exit
               /\ Silent(r.pick)'
    BY <1>1, <2>1, <2>2, <2>6 DEF JobHolds, Silent
  <2> QED
    BY <1>1, <2>2, <2>3, <2>4, <2>5, <2>6 DEF JobHolds
<1>7. ASSUME NEW c \in Cycles
      PROVE  CycleHolds(c)'
  <2>1. CycleHolds(c) /\ cycle[c].now \in Nat
    BY <1>2 DEF PickInv, Typed, CycleRecord
  <2>2. cycle[c].now <= clock'
    BY <1>2, <2>1 DEF CycleHolds
  <2> QED
    BY <1>1, <2>1, <2>2 DEF CycleHolds
<1>8. ToldByOne'
  BY <1>1 DEF PickInv, ToldByOne
<1> QED
  BY <1>1, <1>5, <1>6, <1>7, <1>8 DEF PickInv

\* What was seen of an open pick, widened by a price.
LEMMA SeenWidens ==
  ASSUME Typed, NEW price \in Prices
  PROVE  /\ Widened(price) \in Seq([low : Prices, high : Prices]) /\ Len(Widened(price)) = Len(picks)
         /\ \A p \in DOMAIN picks :
              /\ Widened(price)[p].low <= seen[p].low /\ seen[p].high <= Widened(price)[p].high
              /\ Open(p) => Widened(price)[p].low <= price /\ price <= Widened(price)[p].high
<1>1. DOMAIN seen = DOMAIN picks /\ DOMAIN picks = 1..Len(picks) /\ Len(picks) \in Nat
  BY LenProperties DEF Typed
<1>2. PICK w : w = Widened(price)
  OBVIOUS
<1>3. ASSUME NEW p \in DOMAIN picks
      PROVE  /\ w[p] \in [low : Prices, high : Prices]
             /\ w[p].low <= seen[p].low /\ seen[p].high <= w[p].high
             /\ Open(p) => w[p].low <= price /\ price <= w[p].high
  <2>1. /\ seen[p] \in [low : Prices, high : Prices] /\ seen[p].low \in Prices /\ seen[p].high \in Prices
        /\ seen[p].low \in Int /\ seen[p].high \in Int /\ price \in Int
    <3>1. seen \in Seq([low : Prices, high : Prices]) /\ p \in 1..Len(seen)
      BY <1>1 DEF Typed
    <3>2. seen[p] \in [low : Prices, high : Prices]
      BY <3>1, ElementOfSeq
    <3> QED
      BY <3>2, ConstantsTyped
  <2>2. CASE Open(p)
    <3>1. w[p] = [low |-> Min({seen[p].low, price}), high |-> Max({seen[p].high, price})]
      BY <1>1, <1>2, <2>2 DEF Widened
    <3>2. /\ Min({seen[p].low, price}) \in Prices /\ Max({seen[p].high, price}) \in Prices
          /\ Min({seen[p].low, price}) <= seen[p].low /\ Min({seen[p].low, price}) <= price
          /\ Max({seen[p].high, price}) >= seen[p].high /\ Max({seen[p].high, price}) >= price
      BY <2>1, MinOfTwo, MaxOfTwo
    <3>3. PICK l, h : l = Min({seen[p].low, price}) /\ h = Max({seen[p].high, price})
      OBVIOUS
    <3>4. l \in Int /\ h \in Int
      BY <3>2, <3>3, ConstantsTyped
    <3> QED
      BY <2>1, <3>1, <3>2, <3>3, <3>4
  <2>3. CASE ~Open(p)
    <3>1. w[p] = seen[p]
      BY <1>1, <1>2, <2>3 DEF Widened
    <3> QED
      BY <2>1, <2>3, <3>1
  <2> QED
    BY <2>2, <2>3
<1>4. w \in Seq([low : Prices, high : Prices]) /\ Len(w) = Len(picks)
  <2>1. w \in [1..Len(picks) -> [low : Prices, high : Prices]]
    BY <1>1, <1>2, <1>3 DEF Widened
  <2>2. w \in Seq([low : Prices, high : Prices])
    BY <1>1, <2>1, SeqDef
  <2>3. DOMAIN w = 1..Len(w) /\ Len(w) \in Nat
    BY <2>2, LenProperties
  <2>4. 1..Len(w) = 1..Len(picks)
    BY <2>1, <2>3
  <2>5. \A m, k \in Nat : 1..m = 1..k => m = k
    <3> SUFFICES ASSUME NEW m \in Nat, NEW k \in Nat, 1..m = 1..k, m # k
                 PROVE  FALSE
      OBVIOUS
    <3>1. m \in 1..m <=> m >= 1
      OBVIOUS
    <3>2. k \in 1..k <=> k >= 1
      OBVIOUS
    <3> QED
      BY <3>1, <3>2
  <2> QED
    BY <1>1, <2>2, <2>3, <2>4, <2>5
<1> QED
  BY <1>2, <1>3, <1>4

\* What the one move of a session touches was the open of the bar, or is the new price.
LEMMA MoveKeeps ==
  ASSUME PickInv, Move
  PROVE  PickInv'
<1>1. PICK price \in Prices : bars' = [bars EXCEPT ![Day].close = price] /\ seen' = Widened(price)
  BY DEF Move
<1>2. Typed /\ bars[Day].open = bars[Day].close /\ UNCHANGED <<clock, ledger, job, cycle, faults>>
  BY DEF PickInv, Move
<1>3. /\ picks' = picks /\ events' = events /\ alerts' = alerts /\ judged' = judged /\ job' = job /\ cycle' = cycle
      /\ clock' = clock /\ Day' = Day
  BY <1>2 DEF ledger, Day
<1>4. Day \in Nat /\ 1 <= Day /\ Day \in 1..Day /\ DOMAIN bars = 1..Day /\ clock \in Nat
  BY <1>2, DayOf, LenProperties DEF Typed
<1>5. PICK b : b = [bars[Day] EXCEPT !.close = price]
  OBVIOUS
<1>6. bars[Day] \in Bar
  BY <1>2, <1>4, BarsTyped
<1>7. b \in Bar /\ b.open = bars[Day].open /\ b.close = price
  BY <1>5, <1>6 DEF Bar
<1>8. /\ bars' \in Seq(Bar) /\ Len(bars') = Day /\ bars'[Day] = b
      /\ \A d \in 1..Day : d # Day => bars'[d] = bars[d]
  <2>1. bars' = [bars EXCEPT ![Day] = b]
    BY <1>1, <1>5
  <2>2. bars \in Seq(Bar) /\ Len(bars) = Day
    BY <1>2 DEF Typed
  <2>3. PICK t : t = Day
    OBVIOUS
  <2>4. t \in 1..Len(bars) /\ bars' = [bars EXCEPT ![t] = b]
    BY <1>4, <2>1, <2>2, <2>3
  <2>5. /\ bars' \in Seq(Bar) /\ Len(bars') = Len(bars)
        /\ \A j \in 1..Len(bars) : bars'[j] = IF j = t THEN b ELSE bars[j]
    BY <1>7, <2>2, <2>4, ExceptSeq
  <2> QED
    BY <1>4, <2>2, <2>3, <2>5
<1>9. /\ seen' \in Seq([low : Prices, high : Prices]) /\ Len(seen') = Len(picks)
      /\ \A p \in DOMAIN picks :
           /\ seen'[p].low <= seen[p].low /\ seen[p].high <= seen'[p].high
           /\ Open(p) => seen'[p].low <= price /\ price <= seen'[p].high
  BY <1>1, <1>2, SeenWidens
<1>10. Typed'
  BY <1>2, <1>3, <1>8, <1>9 DEF Typed
<1>11. Price' = price
  BY <1>3, <1>7, <1>8 DEF Price
<1>12. ASSUME NEW p \in DOMAIN picks, Open(p), RowHolds(p)
       PROVE  Covered(p)'
  <2>1. Covered(p) /\ picks[p].day \in Nat
    BY <1>2, <1>12, SeenTyped DEF RowHolds
  <2>2. seen[p].low \in Int /\ seen[p].high \in Int
    BY <1>2, SeenTyped
  <2>3. seen'[p].low \in Int /\ seen'[p].high \in Int
    <3>1. p \in 1..Len(seen')
      BY <1>2, <1>9, LenProperties DEF Typed
    <3>2. seen'[p] \in [low : Prices, high : Prices]
      BY <1>9, <3>1, ElementOfSeq
    <3> QED
      BY <3>2, ConstantsTyped
  <2>4. /\ seen'[p].low <= price /\ price <= seen'[p].high
        /\ seen'[p].low <= seen[p].low /\ seen[p].high <= seen'[p].high
    BY <1>9, <1>12
  <2>5. ASSUME NEW d \in (picks[p].day + 1)..Day
        PROVE  /\ seen'[p].low <= bars'[d].open /\ bars'[d].open <= seen'[p].high
               /\ seen'[p].low <= bars'[d].close /\ bars'[d].close <= seen'[p].high
    <3>1. d \in 1..Day
      BY <1>4, <2>1
    <3>2. /\ bars[d].open \in Int /\ bars[d].close \in Int
          /\ seen[p].low <= bars[d].open /\ bars[d].open <= seen[p].high
          /\ seen[p].low <= bars[d].close /\ bars[d].close <= seen[p].high
      BY <1>2, <2>1, <3>1, BarsTyped DEF Covered
    <3>3. /\ seen'[p].low <= bars[d].open /\ bars[d].open <= seen'[p].high
          /\ seen'[p].low <= bars[d].close /\ bars[d].close <= seen'[p].high
      BY <2>2, <2>3, <2>4, <3>2
    <3>4. CASE d = Day
      BY <1>7, <1>8, <2>4, <3>3, <3>4
    <3>5. CASE d # Day
      BY <1>8, <3>1, <3>3, <3>5
    <3> QED
      BY <3>4, <3>5
  <2> QED
    BY <1>3, <1>11, <2>4, <2>5 DEF Covered
<1>13. \A d \in 1..(Day - 1) : bars'[d] = bars[d]
  BY <1>4, <1>8
<1>14. clock <= clock' /\ Day <= Day'
  BY <1>3, <1>4
<1> QED
  BY <1>2, <1>3, <1>9, <1>10, <1>12, <1>13, <1>14, TimePasses

\* A day closes, or the next one opens; nothing that was planned outlasts the night.
LEMMA TickKeeps ==
  ASSUME PickInv, Tick
  PROVE  PickInv'
<1>1. /\ clock < 2 * Days + 1 /\ clock' = clock + 1
      /\ clock % 2 = 1 => \A c \in Cycles : cycle[c].step = "idle"
      /\ IF clock % 2 = 0
         THEN UNCHANGED <<bars, seen>>
         ELSE \E price \in Prices : bars' = Append(bars, [open |-> price, close |-> price]) /\ seen' = Widened(price)
      /\ UNCHANGED <<ledger, job, cycle, faults>>
  BY DEF Tick
<1>2. Typed /\ clock \in Nat /\ 2 <= clock
  BY DEF PickInv, Typed
<1>3. /\ picks' = picks /\ events' = events /\ alerts' = alerts /\ judged' = judged /\ job' = job /\ cycle' = cycle
      /\ faults' = faults
  BY <1>1 DEF ledger
<1>4. clock' \in Nat /\ 2 <= clock' /\ clock' <= 2 * Days + 1 /\ clock <= clock'
  BY <1>1, <1>2, ConstantsTyped
<1>5. Day \in Nat /\ 1 <= Day /\ DOMAIN bars = 1..Day /\ (clock % 2 = 0 \/ clock % 2 = 1)
  BY <1>2, DayOf, LenProperties DEF Typed
<1>6. CASE clock % 2 = 0
  <2>1. bars' = bars /\ seen' = seen
    BY <1>1, <1>6
  <2>2. Day' = Day
    <3>1. clock = 2 * Day
      BY <1>2, <1>6, DayOf
    <3>2. clock' = 2 * Day + 1
      BY <1>1, <3>1
    <3>3. \A t \in Nat : (2 * t + 1) \div 2 = t
      OBVIOUS
    <3> QED
      BY <1>5, <3>2, <3>3 DEF Day
  <2>3. Typed'
    BY <1>2, <1>3, <1>4, <2>1, <2>2 DEF Typed
  <2>4. \A p \in DOMAIN picks : seen'[p].low <= seen[p].low /\ seen[p].high <= seen'[p].high
    BY <1>2, <2>1, SeenTyped
  <2>5. ASSUME NEW p \in DOMAIN picks, Open(p), RowHolds(p)
        PROVE  Covered(p)'
    <3>1. Covered(p) /\ Price' = Price
      BY <2>1, <2>2, <2>5 DEF RowHolds, Price
    <3> QED
      BY <1>3, <2>1, <2>2, <3>1 DEF Covered
  <2>6. Day <= Day' /\ \A d \in 1..(Day - 1) : bars'[d] = bars[d]
    BY <1>5, <2>1, <2>2
  <2>7. \A c \in Cycles : cycle[c].step = "save" => Day' = Day
    BY <2>2
  <2> QED
    BY <1>1, <1>4, <2>3, <2>4, <2>5, <2>6, <2>7, TimePasses
<1>7. CASE clock % 2 = 1
  <2>1. PICK price \in Prices : bars' = Append(bars, [open |-> price, close |-> price]) /\ seen' = Widened(price)
    <3>1. ~(clock % 2 = 0)
      BY <1>7
    <3> QED
      BY <1>1, <3>1
  <2>2. PICK b : b = [open |-> price, close |-> price]
    OBVIOUS
  <2>3. b \in Bar /\ b.open = price /\ b.close = price
    BY <2>2 DEF Bar
  <2>4. Day' = Day + 1
    <3>1. clock = 2 * Day + 1
      BY <1>2, <1>7, DayOf
    <3>2. PICK next : next = Day + 1
      OBVIOUS
    <3>3. next \in Nat /\ clock' = 2 * next
      BY <1>1, <1>5, <3>1, <3>2
    <3>4. \A t \in Nat : (2 * t) \div 2 = t
      OBVIOUS
    <3> QED
      BY <3>2, <3>3, <3>4 DEF Day
  <2>5. /\ bars' \in Seq(Bar) /\ Len(bars') = Day' /\ bars'[Day'] = b
        /\ \A d \in 1..Day : bars'[d] = bars[d]
    <3>1. bars \in Seq(Bar) /\ Len(bars) = Day /\ bars' = Append(bars, b)
      BY <1>2, <2>1, <2>2 DEF Typed
    <3> QED
      BY <2>3, <2>4, <3>1, AppendProperties
  <2>6. /\ seen' \in Seq([low : Prices, high : Prices]) /\ Len(seen') = Len(picks)
        /\ \A p \in DOMAIN picks :
             /\ seen'[p].low <= seen[p].low /\ seen[p].high <= seen'[p].high
             /\ Open(p) => seen'[p].low <= price /\ price <= seen'[p].high
    BY <1>2, <2>1, SeenWidens
  <2>7. Typed'
    BY <1>2, <1>3, <1>4, <2>5, <2>6 DEF Typed
  <2>8. Price' = price
    BY <2>3, <2>5 DEF Price
  <2>9. ASSUME NEW p \in DOMAIN picks, Open(p), RowHolds(p)
        PROVE  Covered(p)'
    <3>1. Covered(p) /\ picks[p].day \in Nat
      BY <1>2, <2>9, SeenTyped DEF RowHolds
    <3>2. seen[p].low \in Int /\ seen[p].high \in Int
      BY <1>2, SeenTyped
    <3>3. seen'[p].low \in Int /\ seen'[p].high \in Int
      <4>1. p \in 1..Len(seen')
        BY <1>2, <2>6, LenProperties DEF Typed
      <4>2. seen'[p] \in [low : Prices, high : Prices]
        BY <2>6, <4>1, ElementOfSeq
      <4> QED
        BY <4>2, ConstantsTyped
    <3>4. /\ seen'[p].low <= price /\ price <= seen'[p].high
          /\ seen'[p].low <= seen[p].low /\ seen[p].high <= seen'[p].high
      BY <2>6, <2>9
    <3>5. ASSUME NEW d \in (picks[p].day + 1)..Day'
          PROVE  /\ seen'[p].low <= bars'[d].open /\ bars'[d].open <= seen'[p].high
                 /\ seen'[p].low <= bars'[d].close /\ bars'[d].close <= seen'[p].high
      <4>1. CASE d = Day'
        BY <2>3, <2>5, <3>4, <4>1
      <4>2. CASE d # Day'
        <5>1. d \in (picks[p].day + 1)..Day /\ d \in 1..Day
          BY <1>5, <2>4, <3>1, <4>2
        <5>2. /\ bars[d].open \in Int /\ bars[d].close \in Int
              /\ seen[p].low <= bars[d].open /\ bars[d].open <= seen[p].high
              /\ seen[p].low <= bars[d].close /\ bars[d].close <= seen[p].high
          BY <1>2, <3>1, <5>1, BarsTyped DEF Covered
        <5>3. bars'[d] = bars[d]
          BY <2>5, <5>1
        <5> QED
          BY <3>2, <3>3, <3>4, <5>2, <5>3
      <4> QED
        BY <4>1, <4>2
    <3> QED
      BY <1>3, <2>8, <3>4, <3>5 DEF Covered
  <2>10. Day <= Day' /\ \A d \in 1..(Day - 1) : bars'[d] = bars[d]
    BY <1>5, <2>4, <2>5
  <2>11. \A c \in Cycles : cycle[c].step = "save" => Day' = Day
    BY <1>1, <1>7
  <2>12. \A p \in DOMAIN picks : seen'[p].low <= seen[p].low /\ seen[p].high <= seen'[p].high
    BY <2>6
  <2> QED
    BY <1>1, <1>4, <2>7, <2>9, <2>10, <2>11, <2>12, TimePasses
<1> QED
  BY <1>5, <1>6, <1>7

-----------------------------------------------------------------------------
(* The theorems.                                                           *)

LEMMA PickInit ==
  ASSUME Init
  PROVE  PickInv
<1>1. /\ clock = 2 /\ bars = <<[open |-> Entry, close |-> Entry]>> /\ faults = 0
      /\ picks = <<>> /\ events = <<>> /\ alerts = <<>> /\ seen = <<>> /\ judged = <<>>
      /\ job = [j \in Resolvers |-> IdleJob] /\ cycle = [c \in Cycles |-> IdleCycle]
  BY DEF Init
<1>2. Day = 1 /\ 2 <= 2 * Days + 1 /\ 0 \in 0..MaxFaults /\ 0 <= MaxPicks
  <2>1. 2 \div 2 = 1
    OBVIOUS
  <2>2. Day = 1
    BY <1>1, <2>1 DEF Day
  <2>3. Days \in Nat /\ Days >= 1 /\ MaxFaults \in Nat /\ MaxPicks \in Nat
    BY PickAssumption
  <2> QED
    BY <2>2, <2>3
<1>3. bars \in Seq(Bar) /\ Len(bars) = 1
  <2>1. PICK b : b = [open |-> Entry, close |-> Entry]
    OBVIOUS
  <2>2. b \in Bar
    BY <2>1, ConstantsTyped DEF Bar
  <2>3. <<b>> \in Seq(Bar) /\ Len(<<b>>) = 1
    BY <2>2
  <2> QED
    BY <1>1, <2>1, <2>3
<1>4. /\ picks \in Seq(Pick) /\ events \in Seq(Seq(Told)) /\ alerts \in Seq(Seq(Told))
      /\ seen \in Seq([low : Prices, high : Prices]) /\ judged \in Seq(Nat)
      /\ Len(picks) = 0 /\ Len(events) = 0 /\ Len(alerts) = 0 /\ Len(seen) = 0 /\ Len(judged) = 0
  BY <1>1, EmptySeq
<1>5. DOMAIN picks = {}
  <2>1. DOMAIN picks = 1..0
    BY <1>4, LenProperties
  <2> QED
    BY <2>1
<1>6. /\ IdleJob \in JobRecord /\ IdleJob.step = "idle" /\ IdleJob.judged = 0
      /\ IdleCycle \in CycleRecord /\ IdleCycle.step = "idle" /\ IdleCycle.now = 0
  BY ConstantsTyped DEF IdleJob, JobRecord, IdleCycle, CycleRecord, Levels
<1>7. job \in [Resolvers -> JobRecord] /\ cycle \in [Cycles -> CycleRecord]
  BY <1>1, <1>6
<1>8. clock \in Nat /\ 2 <= clock /\ clock <= 2 * Days + 1 /\ faults \in 0..MaxFaults
  BY <1>1, <1>2
<1>9. Typed
  BY <1>2, <1>3, <1>4, <1>7, <1>8 DEF Typed
<1>10. \A j \in Resolvers : job[j] = IdleJob
  BY <1>1
<1>11. \A c \in Cycles : cycle[c] = IdleCycle
  BY <1>1
<1>12. \A j \in Resolvers : JobHolds(j)
  BY <1>6, <1>8, <1>10 DEF JobHolds
<1>13. \A c \in Cycles : CycleHolds(c)
  BY <1>6, <1>8, <1>11 DEF CycleHolds
<1>14. ToldByOne
  BY <1>6, <1>10, <1>11 DEF ToldByOne
<1> QED
  BY <1>5, <1>9, <1>12, <1>13, <1>14 DEF PickInv

LEMMA PickNext ==
  ASSUME PickInv, [Next]_vars
  PROVE  PickInv'
<1>1. CASE Move
  BY <1>1, MoveKeeps
<1>2. CASE Tick
  BY <1>2, TickKeeps
<1>3. ASSUME NEW j \in Resolvers, JudgeAny(j)
      PROVE  PickInv'
  BY <1>3, JudgeKeeps DEF JudgeAny
<1>4. ASSUME NEW j \in Resolvers, Write(j) \/ Tell(j) \/ Killed(j)
      PROVE  PickInv'
  BY <1>4, WriteKeeps, TellKeeps, KilledKeeps
<1>5. ASSUME NEW c \in Cycles, PlanReviews(c) \/ Save(c) \/ SaveNothing(c) \/ Notify(c)
      PROVE  PickInv'
  BY <1>5, PlanReviewsKeeps, SaveKeeps, SaveNothingKeeps, NotifyKeeps
<1>6. CASE VoidOrphans
  <2>1. PICK p \in DOMAIN picks : Open(p) /\ Closes(p, "ADMIN_VOID")
    BY <1>6 DEF VoidOrphans, Unexpired
  <2> QED
    BY <2>1, ClosesKeeps
<1>7. CASE ForceExpire
  <2>1. PICK p \in DOMAIN picks : Open(p) /\ Closes(p, "EXPIRED")
    BY <1>7 DEF ForceExpire
  <2> QED
    BY <2>1, ClosesKeeps
<1>8. CASE UNCHANGED vars
  <2>1. /\ clock' = clock /\ bars' = bars /\ picks' = picks /\ events' = events /\ alerts' = alerts /\ job' = job
        /\ cycle' = cycle /\ seen' = seen /\ judged' = judged /\ faults' = faults
    BY <1>8 DEF vars
  <2>2. Typed'
    BY <2>1 DEF PickInv, Typed, Day
  <2>3. \A p \in DOMAIN picks : RowHolds(p)' /\ TellsTrue(p)'
    BY <2>1, RowStays DEF PickInv
  <2>4. \A j \in Resolvers : JobHolds(j)'
    BY <2>1 DEF PickInv, JobHolds, Open, Silent, Earned
  <2>5. (\A c \in Cycles : CycleHolds(c)') /\ ToldByOne'
    BY <2>1 DEF PickInv, CycleHolds, ToldByOne, Day
  <2> QED
    BY <2>1, <2>2, <2>3, <2>4, <2>5 DEF PickInv
<1> QED
  BY <1>1, <1>2, <1>3, <1>4, <1>5, <1>6, <1>7, <1>8 DEF Next

\* What the properties say follows from the invariant.
LEMMA PickHolds ==
  ASSUME PickInv
  PROVE  OutcomesHold
<1>1. Typed /\ clock \in Nat
  BY DEF PickInv, Typed
<1>2. DOMAIN picks = 1..Len(picks) /\ DOMAIN events = DOMAIN picks /\ DOMAIN alerts = DOMAIN picks
  BY <1>1, LenProperties DEF Typed
<1>3. TypeOK
  <2>1. clock \in 2..(2 * Days + 1)
    BY <1>1, ConstantsTyped DEF Typed
  <2>2. \A p \in DOMAIN picks : picks[p].at <= clock
    BY DEF PickInv, RowHolds
  <2>3. \A f \in {events, alerts} : Len(f) = Len(picks) /\ \A p \in DOMAIN f : f[p] \in Seq(Told)
    <3>1. \A p \in DOMAIN picks : events[p] \in Seq(Told) /\ alerts[p] \in Seq(Told)
      BY <1>1, <1>2, ElementOfSeq DEF Typed
    <3> QED
      BY <1>1, <1>2, <3>1 DEF Typed
  <2> QED
    BY <1>1, <2>1, <2>2, <2>3 DEF Typed, TypeOK
<1>4. ASSUME NEW p \in DOMAIN picks, picks[p].outcome \in Outcomes
      PROVE  Earned(p, picks[p], judged[p])
  BY <1>4, ConstantsTyped DEF PickInv, RowHolds, Open
<1>5. OutcomesAreEarned
  BY <1>4 DEF OutcomesAreEarned, Earned, Outcomes
<1>6. NoFlatteredWin
  BY <1>4 DEF NoFlatteredWin, Earned, Outcomes
<1>7. ExpiredInFull
  <2> SUFFICES ASSUME NEW p \in DOMAIN picks, picks[p].outcome = "EXPIRED", picks[p].exit # None
               PROVE  /\ Cardinality(ForwardDays(picks[p], clock)) = Hold
                      /\ \A d \in ForwardDays(picks[p], clock) : AvailableAt(d) < judged[p] => BarOutcome(picks[p].dir, bars[d]) = None
    BY DEF ExpiredInFull
  <2>1. /\ AvailableAt(picks[p].day + Hold) <= clock
        /\ \A d \in (picks[p].day + 1)..(picks[p].day + Hold) :
             AvailableAt(d) < judged[p] => BarOutcome(picks[p].dir, bars[d]) = None
    BY <1>4 DEF Earned, Outcomes
  <2>2. FullHorizon(ForwardDays(picks[p], clock))
    <3>1. PICK now : now = clock
      OBVIOUS
    <3>2. now \in Nat /\ now <= clock
      BY <1>1, <3>1
    <3> QED
      BY <1>1, <2>1, <3>1, <3>2, HorizonFull
  <2> QED
    BY <2>1, <2>2 DEF FullHorizon, ForwardDays
<1>8. ToldTrue
  BY DEF ToldTrue, PickInv, TellsTrue
<1> QED
  BY <1>3, <1>5, <1>6, <1>7, <1>8 DEF OutcomesHold

\* The inductive invariant: what a row says was earned, what a resolver is about to write
\* is earned as long as the pick is open, and one job or cycle at most tells of an ending.
THEOREM PickCorrect == Spec => []PickInv
<1>1. Init => PickInv
  BY PickInit
<1>2. PickInv /\ [Next]_vars => PickInv'
  BY PickNext
<1> QED
  BY <1>1, <1>2, PTL DEF Spec

\* Outcomes are what the market did between issue and horizon, never flattered by a cached
\* bar, and what the log and the phone were told of them is true and told once.
THEOREM OutcomesAreTrue == Spec => []OutcomesHold
<1>1. PickInv => OutcomesHold
  BY PickHolds
<1> QED
  BY <1>1, PickCorrect, PTL

LEMMA EndingStands ==
  ASSUME PickInv, [Next]_vars, NEW p \in DOMAIN picks
  PROVE  p \in DOMAIN picks' /\ (~Open(p) => picks'[p] = picks[p])
<1>1. Typed /\ picks \in Seq(Pick) /\ DOMAIN picks = 1..Len(picks) /\ Len(picks) \in Nat
  BY LenProperties DEF PickInv, Typed
<1>2. CASE picks' = picks
  BY <1>2
<1>3. ASSUME NEW j \in Resolvers, Write(j)
      PROVE  p \in DOMAIN picks' /\ (~Open(p) => picks'[p] = picks[p])
  <2>1. CASE Open(job[j].pick)
    BY <1>3, <2>1 DEF Write, Writable
  <2>2. CASE ~Open(job[j].pick)
    BY <1>3, <2>2 DEF Write, Writable
  <2> QED
    BY <2>1, <2>2
<1>4. ASSUME NEW c \in Cycles, Save(c)
      PROVE  p \in DOMAIN picks' /\ (~Open(p) => picks'[p] = picks[p])
  <2>1. PICK q : q = cycle[c].pick
    OBVIOUS
  <2>2. PICK rows : rows = IF Applies(q) THEN Withdrawn(picks, q, cycle[c].mark, cycle[c].now) ELSE picks
    OBVIOUS
  <2>3. PICK new : new = [dir |-> cycle[c].fire, day |-> cycle[c].now \div 2, outcome |-> None, exit |-> None, at |-> 0]
    OBVIOUS
  <2>4. \/ picks' = rows
        \/ picks' = Append(rows, new) /\ new \in Pick
    <3>1. cycle[c].fire # None => cycle[c].fire \in Directions
      BY <1>1 DEF Typed, CycleRecord
    <3>2. cycle[c].step = "save" /\ CycleHolds(c)
      BY <1>4 DEF Save, PickInv
    <3>3. cycle[c].now \div 2 \in Nat /\ None \in Levels
      BY <1>1, <3>2, DayOf DEF CycleHolds, Levels
    <3>4. cycle[c].fire # None => new \in Pick
      BY <2>3, <3>1, <3>3 DEF Pick
    <3> QED
      BY <1>4, <2>1, <2>2, <2>3, <3>4 DEF Save
  <2>5. rows \in Seq(Pick) /\ Len(rows) = Len(picks) /\ (~Open(p) => rows[p] = picks[p])
    <3>1. CASE Applies(q)
      <4>1. PICK row : row = [picks[q] EXCEPT !.outcome = "WITHDRAWN",
                              !.exit = IF cycle[c].mark = None THEN Entry ELSE cycle[c].mark, !.at = cycle[c].now]
        OBVIOUS
      <4>2. q \in 1..Len(picks) /\ Open(q)
        BY <1>1, <3>1 DEF Applies, Open
      <4>3. cycle[c] \in CycleRecord /\ picks[q] \in Pick
        BY <1>1, <4>2, SeenTyped DEF Typed
      <4>4. (IF cycle[c].mark = None THEN Entry ELSE cycle[c].mark) \in Levels /\ cycle[c].now \in Nat
        BY <4>3, ConstantsTyped DEF CycleRecord, Levels
      <4>5. row \in Pick
        BY <4>1, <4>3, <4>4 DEF Pick, Outcomes
      <4>6. rows = [picks EXCEPT ![q] = row]
        BY <2>2, <3>1, <4>1 DEF Withdrawn
      <4> QED
        BY <1>1, <4>2, <4>5, <4>6, ExceptSeq
    <3>2. CASE ~Applies(q)
      BY <1>1, <2>2, <3>2
    <3> QED
      BY <3>1, <3>2
  <2>6. DOMAIN rows = 1..Len(picks)
    BY <2>5, LenProperties
  <2>7. CASE picks' = rows
    BY <1>1, <2>5, <2>6, <2>7
  <2>8. CASE picks' = Append(rows, new) /\ new \in Pick
    <3>1. picks' \in Seq(Pick) /\ Len(picks') = Len(picks) + 1 /\ \A i \in 1..Len(picks) : picks'[i] = rows[i]
      BY <2>5, <2>8, AppendProperties
    <3>2. DOMAIN picks' = 1..(Len(picks) + 1)
      BY <3>1, LenProperties
    <3> QED
      BY <1>1, <2>5, <3>1, <3>2
  <2> QED
    BY <2>4, <2>7, <2>8
<1>5. ASSUME NEW q \in DOMAIN picks, NEW outcome, Open(q), Closes(q, outcome)
      PROVE  p \in DOMAIN picks' /\ (~Open(p) => picks'[p] = picks[p])
  BY <1>5 DEF Closes
<1>6. CASE VoidOrphans \/ ForceExpire
  BY <1>5, <1>6 DEF VoidOrphans, ForceExpire, Unexpired
<1>7. CASE Move \/ Tick \/ UNCHANGED vars
  BY <1>2, <1>7 DEF Move, Tick, vars, ledger
<1>8. ASSUME NEW j \in Resolvers, JudgeAny(j) \/ Tell(j) \/ Killed(j)
      PROVE  picks' = picks
  BY <1>8 DEF JudgeAny, Judge, Tell, Killed, ledger
<1>9. ASSUME NEW c \in Cycles, PlanReviews(c) \/ SaveNothing(c) \/ Notify(c)
      PROVE  picks' = picks
  BY <1>9 DEF PlanReviews, SaveNothing, Notify, ledger
<1> QED
  BY <1>2, <1>3, <1>4, <1>6, <1>7, <1>8, <1>9 DEF Next

\* Resolvers, cycles and operators never rewrite an ending, however they overlap: the
\* outcome, exit and time of a row that was resolved, withdrawn or ended stay.
THEOREM EndingsStand == Spec => OutcomeFinal
<1>1. PickInv /\ [Next]_vars => [\A p \in DOMAIN picks : p \in DOMAIN picks' /\ (~Open(p) => picks'[p] = picks[p])]_vars
  BY EndingStands
<1> QED
  BY <1>1, PickCorrect, PTL DEF Spec, OutcomeFinal

=============================================================================
