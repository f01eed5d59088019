----------------------------- MODULE PaperWallet -----------------------------
(***************************************************************************)
(* The paper wallet: a book of fake-money lots that the scheduler's cycle, *)
(* a cycle by hand, the clean-up of duplicates, a reset and the wallet     *)
(* page all open with a transaction of their own.                          *)
(*                                                                         *)
(* A cycle counts its lots and its cash, asks the network for quotes, and  *)
(* only then trades.  What keeps two of them apart is a side effect: each  *)
(* transaction starts with ensure_paper_tables, whose CREATE INDEX takes   *)
(* the SHARE lock of the table, there is an index or not.  Readers of the  *)
(* book share it; whoever writes must be alone in it, and two that both    *)
(* want to write deadlock, so that Postgres aborts one.                    *)
(***************************************************************************)
EXTENDS Integers, FiniteSets

CONSTANTS
  Signals,     \* the sources of lots, numbered by the age of the lots
  KeyOf,       \* [Signals -> <<book, symbol>>]
  Slice,       \* PAPER_SLICE_USD, what a lot costs
  Legacy,      \* signals whose lots were opened before there was a limit for a symbol
  Scheduled,   \* the scheduler's cycle
  Others,      \* requests: cycles by hand, clean-ups, resets, pages
  Gains,       \* what a closed lot may have earned, less than its cost
  Balances,    \* starting balances that a reset may set
  Start,       \* the one of the first month
  MaxOpen,     \* PAPER_MAX_OPEN
  MaxMonth, MaxWrites, MaxFaults   \* bounds: months, requests that write, faults

CostOf(S) == Slice * Cardinality(S)

ASSUME WalletAssumption ==
  /\ Signals \subseteq Nat /\ IsFiniteSet(Signals) /\ Legacy \subseteq Signals
  /\ Slice \in Nat \ {0} /\ Gains \subseteq Int /\ \A g \in Gains : -Slice < g
  /\ Balances \subseteq Nat /\ Start \in Balances /\ CostOf(Legacy) <= Start /\ Cardinality(Legacy) <= MaxOpen
  /\ Scheduled \cap Others = {}
  /\ MaxOpen \in Nat /\ MaxMonth \in Nat \ {0} /\ MaxWrites \in Nat /\ MaxFaults \in Nat

VARIABLES
  book,      \* ghost_paper_trades and the wallet's configuration, as committed
  expired,   \* the open lots past their expires_at
  month,     \* the month of the market's calendar
  tx,        \* [Wallets -> the transaction of a process]
  writes,    \* requests that write, so far
  faults     \* lock timeouts and deaths, so far

vars == <<book, expired, month, tx, writes, faults>>

Wallets == Scheduled \cup Others
Keys == {KeyOf[s] : s \in Signals}
Symbols == {k[2] : k \in Keys}
Jobs == {"cycle", "cleanup", "reset", "page"}
Book ==
  [lot : [Signals -> {"none", "open", "closed"}], realized : Int, balance : Balances, month : 1..MaxMonth]

\* step: where the transaction is; roll: the month it starts, not committed; held, cash:
\* what it read before it asked for quotes; priced: the symbols it got a usable quote for.
Transaction ==
  [job : Jobs, step : {"none", "roll", "reset", "looked", "quoted"}, waits : BOOLEAN,
   roll : 0..MaxMonth, held : SUBSET Signals, cash : Int, priced : SUBSET Symbols]
NoTransaction ==
  [job |-> "page", step |-> "none", waits |-> FALSE, roll |-> 0, held |-> {}, cash |-> 0, priced |-> {}]

OpenLots(b) == {s \in Signals : b.lot[s] = "open"}
KeysOf(S) == {KeyOf[s] : s \in S}
Cash(b) == b.balance + b.realized - CostOf(OpenLots(b))

Init ==
  /\ book = [lot |-> [s \in Signals |-> IF s \in Legacy THEN "open" ELSE "none"],
             realized |-> 0, balance |-> Start, month |-> 1]
  /\ expired = {} /\ month = 1
  /\ tx = [t \in Wallets |-> NoTransaction]
  /\ writes = 0 /\ faults = 0

Goes(t, step) == tx[t].step = step
Fault == faults < MaxFaults /\ faults' = faults + 1

-----------------------------------------------------------------------------
(* The lock of the table.                                                  *)

\* SHARE waits for a transaction that has written, and for one that waits to write.
MayShare(t) == \A u \in Wallets \ {t} : ~tx[u].waits /\ tx[u].roll = 0

\* The index is made by a migration, and no transaction shares the table.
Alone_NoIndex(t) == \A u \in Wallets \ {t} : tx[u].roll = 0

\* A write waits for all who share the table.
Alone(t) == \A u \in Wallets \ {t} : Goes(u, "none")

\* The book as the transaction sees it: wiped, once it has rolled the month.
Wiped(balance, m) ==
  [lot |-> [s \in Signals |-> "none"], realized |-> 0, balance |-> balance, month |-> m]
View(t) == IF tx[t].roll = 0 THEN book ELSE Wiped(book.balance, tx[t].roll)

Looked(t, b) == [t EXCEPT !.step = "looked", !.held = OpenLots(b), !.cash = Cash(b)]

\* db_conn and ensure_paper_tables, and all that is read before the first quote or write.
Begin(t, job) ==
  /\ Goes(t, "none") /\ MayShare(t)
  /\ t \in Scheduled => job = "cycle"
  /\ IF t \in Scheduled \/ job = "page" THEN UNCHANGED writes
     ELSE writes < MaxWrites /\ writes' = writes + 1
  /\ LET new == [NoTransaction EXCEPT !.job = job] IN
     tx' = [tx EXCEPT ![t] =
       CASE job = "reset" -> [new EXCEPT !.step = "reset"]
         [] job = "cycle" /\ book.month # month -> [new EXCEPT !.step = "roll"]
         [] OTHER -> Looked(new, book)]
  /\ UNCHANGED <<book, expired, month, faults>>

\* _live_prices: each symbol that is held or wanted has a quote or has none.
Quote(t, priced) ==
  /\ Goes(t, "looked")
  /\ tx' = [tx EXCEPT ![t] = IF @.job = "page" THEN NoTransaction
                             ELSE [@ EXCEPT !.step = "quoted", !.priced = priced]]
  /\ UNCHANGED <<book, expired, month, writes, faults>>

\* The transaction is over, and its locks are gone.
Ends(t) == tx' = [tx EXCEPT ![t] = NoTransaction] /\ UNCHANGED <<month, writes>>

\* Rows are written by who is alone; a transaction that writes none need not be.
Commit(t, new) ==
  /\ Alone(t) \/ (new = book /\ ~tx[t].waits)
  /\ book' = new
  /\ expired' = expired \cap OpenLots(new)

-----------------------------------------------------------------------------
(* What the transactions write.                                            *)

\* _maybe_roll_month: the finished month is recorded and the book wiped, uncommitted.
Roll(t) ==
  /\ Goes(t, "roll") /\ Alone(t)
  /\ tx' = [tx EXCEPT ![t] =
       Looked([@ EXCEPT !.waits = FALSE, !.roll = month], Wiped(book.balance, month))]
  /\ UNCHANGED <<book, expired, month, writes, faults>>

\* The lots a cycle may enter: new sources with a quote, one of a symbol in each book,
\* while the limit and the cash that it counted allow.
Enterable(t, E) ==
  /\ \A s \in E : View(t).lot[s] = "none" /\ KeyOf[s][2] \in tx[t].priced /\ KeyOf[s] \notin KeysOf(tx[t].held)
  /\ \A s, r \in E : KeyOf[s] = KeyOf[r] => s = r
  /\ E # {} => Cardinality(tx[t].held) + Cardinality(E) <= MaxOpen
  /\ CostOf(E) <= tx[t].cash

\* The lots it closes: every expired one with a quote, and those that crossed a band.
Exits(t, X) ==
  LET quoted == {s \in OpenLots(View(t)) : KeyOf[s][2] \in tx[t].priced}
  IN X \subseteq quoted /\ quoted \cap expired \subseteq X

Traded(b, E, X, gain) ==
  [b EXCEPT !.lot = [s \in Signals |-> IF s \in E THEN "open" ELSE IF s \in X THEN "closed" ELSE @[s]],
            !.realized = @ + gain * Cardinality(X)]

\* Entries and exits of a cycle, its snapshot, and its commit.
Trade(t) ==
  /\ Goes(t, "quoted") /\ tx[t].job = "cycle" /\ Ends(t) /\ UNCHANGED faults
  /\ \E E \in {F \in SUBSET (Signals \ Legacy) : Enterable(t, F)}, X \in {Y \in SUBSET OpenLots(View(t)) : Exits(t, Y)} :
       \E gain \in Gains : Commit(t, Traded(View(t), E, X, gain))

\* cleanup_duplicate_open_positions: of the lots it has seen, all but the oldest of a key.
Extras(S) == {s \in S : \E r \in S : r < s /\ KeyOf[r] = KeyOf[s]}
CleanUp(t) ==
  LET X == {s \in Extras(tx[t].held) \cap OpenLots(book) : KeyOf[s][2] \in tx[t].priced} IN
  /\ Goes(t, "quoted") /\ tx[t].job = "cleanup" /\ Ends(t) /\ UNCHANGED faults
  /\ \E gain \in Gains : Commit(t, Traded(book, {}, X, gain))

\* The balance is set, and the lots are forgotten.
Reset_KeepsLots(t, balance) ==
  /\ Goes(t, "reset") /\ Alone(t) /\ Ends(t) /\ UNCHANGED faults
  /\ Commit(t, [book EXCEPT !.balance = balance, !.month = month])

\* reset_wallet: another balance, and all lots deleted.
Reset(t, balance) ==
  /\ Goes(t, "reset") /\ Alone(t) /\ Ends(t) /\ UNCHANGED faults
  /\ Commit(t, Wiped(balance, month))

-----------------------------------------------------------------------------
(* Waits, aborts and time.                                                 *)

WaitsToWrite(t) ==
  /\ tx[t].step \in {"roll", "reset", "quoted"} /\ ~tx[t].waits /\ ~Alone(t)
  /\ tx' = [tx EXCEPT ![t].waits = TRUE]
  /\ UNCHANGED <<book, expired, month, writes, faults>>

\* The connection goes back to the pool without a rollback.
Aborts_NoRollback(t) == UNCHANGED <<book, expired, month, tx, writes>>

\* db_conn rolls back, and run_wallet_cycle only logs.
Aborts(t) == Ends(t) /\ UNCHANGED <<book, expired>>

\* Two that wait for one another: Postgres aborts either.
Deadlock(t) ==
  /\ tx[t].waits /\ \E u \in Wallets \ {t} : tx[u].waits
  /\ Aborts(t) /\ UNCHANGED faults

\* DB_LOCK_TIMEOUT_MS, DB_STATEMENT_TIMEOUT_MS, an error, the death of the process.
Fails(t) == ~Goes(t, "none") /\ Aborts(t) /\ Fault

LotExpires(s) ==
  /\ s \in OpenLots(book) \ expired
  /\ expired' = expired \cup {s}
  /\ UNCHANGED <<book, month, tx, writes, faults>>

MonthTurns ==
  /\ month < MaxMonth /\ month' = month + 1
  /\ UNCHANGED <<book, expired, tx, writes, faults>>

\* What a transaction does next, or waits for.
Proceeds(t) ==
  \/ \E priced \in SUBSET Symbols : Quote(t, priced)
  \/ \E b \in Balances : Reset(t, b)
  \/ Roll(t) \/ Trade(t) \/ CleanUp(t) \/ WaitsToWrite(t)

Next ==
  \/ \E t \in Wallets :
       \/ \E job \in Jobs : Begin(t, job)
       \/ Proceeds(t) \/ Deadlock(t) \/ Fails(t)
  \/ \E s \in Signals : LotExpires(s)
  \/ MonthTurns

Spec == Init /\ [][Next]_vars

\* The job runs every 300 s, the queue of the lock is first come first served, a
\* transaction that is not blocked ends, and the feeds answer for all symbols now and then.
FairSpec ==
  /\ Spec
  /\ \A t \in Wallets : WF_vars(Proceeds(t))
  /\ \A t \in Scheduled : SF_vars(Begin(t, "cycle")) /\ SF_vars(Quote(t, Symbols))
  /\ WF_vars(\E t \in Wallets : Deadlock(t))

-----------------------------------------------------------------------------
(* Properties.                                                             *)

TypeOK ==
  /\ book \in Book /\ expired \subseteq OpenLots(book) /\ month \in 1..MaxMonth
  /\ tx \in [Wallets -> Transaction]
  /\ writes \in 0..MaxWrites /\ faults \in 0..MaxFaults

\* Fake money is never spent twice: after any overlap of cycles, resets to a smaller
\* balance and month turns, what the open lots cost was there.
CashHolds == Cash(book) >= 0

\* The limit of open lots, though every cycle counts before it asks for quotes.
OpenBounded == Cardinality(OpenLots(book)) <= MaxOpen

\* What a transaction has read stands until it ends: the page's equity and its history
\* are of one book, and a trade is decided on the lots that are there.
LookStands ==
  \A t \in Wallets : tx[t].step \in {"looked", "quoted"} =>
    tx[t].held = OpenLots(View(t)) /\ tx[t].cash = Cash(View(t))

WalletHolds == TypeOK /\ CashHolds /\ OpenBounded /\ LookStands

\* One open lot of a symbol in a book, except for those opened before the rule: not even
\* a cycle by hand beside the scheduler's stacks a second one.
OneLotPerSymbol ==
  \A s, r \in OpenLots(book) : KeyOf[s] = KeyOf[r] => s = r \/ {s, r} \subseteq Legacy

\* A lot past its time is closed or wiped: no request, deadlock, timeout or page in
\* between leaves it open for ever.
LotsEnd == \A s \in Signals : s \in expired ~> s \notin expired

=============================================================================
