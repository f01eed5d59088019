----------------------------- MODULE PaperProofs -----------------------------
(***************************************************************************)
(* Theorems about the two papers: PaperWallet, for every number of         *)
(* processes and signals, every slice, limit and balance, and EdgePaper,   *)
(* for every size of a forecast, every number of tries, and every bound on *)
(* faults and overlaps.                                                    *)
(***************************************************************************)
EXTENDS PaperWallet, EdgePaper, FiniteSetTheorems, TLAPS

-----------------------------------------------------------------------------
(* PaperWallet.                                                            *)

\* A transaction that has written is alone in the table.
WriterAlone == \A t \in Wallets : tx[t].roll # 0 => Alone(t)

WalletInv == WalletHolds /\ OneLotPerSymbol /\ WriterAlone

-----------------------------------------------------------------------------
(* Books.                                                                  *)

LEMMA BookFields ==
  ASSUME NEW b \in Book
  PROVE  b.balance \in Nat /\ b.balance \in Int /\ b.realized \in Int
<1>1. b.balance \in Balances /\ b.realized \in Int
  BY DEF Book
<1>2. \A n \in Balances : n \in Nat
  BY WalletAssumption
<1>3. b.balance \in Nat
  BY <1>1, <1>2
<1> QED
  BY <1>1, <1>3

\* The open lots are finitely many, and the cash is a number.
LEMMA BookCounts ==
  ASSUME NEW b \in Book
  PROVE  /\ OpenLots(b) \subseteq Signals /\ IsFiniteSet(OpenLots(b))
         /\ Cardinality(OpenLots(b)) \in Nat /\ Cash(b) \in Int
<1>1. OpenLots(b) \subseteq Signals
  BY DEF OpenLots
<1>2. IsFiniteSet(OpenLots(b))
  BY <1>1, FS_Subset, WalletAssumption
<1>3. Cardinality(OpenLots(b)) \in Nat
  BY <1>2, FS_CardinalityType
<1>4. Slice * Cardinality(OpenLots(b)) \in Int
  BY <1>3, WalletAssumption
<1>5. b.balance \in Int /\ b.realized \in Int
  BY BookFields
<1> QED
  BY <1>1, <1>2, <1>3, <1>4, <1>5 DEF Cash, CostOf

\* A wiped book has its balance and no lot.
LEMMA WipedBook ==
  ASSUME NEW balance \in Balances, NEW m \in 1..MaxMonth
  PROVE  /\ Wiped(balance, m) \in Book /\ Wiped(balance, m).balance = balance
         /\ OpenLots(Wiped(balance, m)) = {} /\ Cash(Wiped(balance, m)) = balance
<1>1. Wiped(balance, m) \in Book /\ Wiped(balance, m).balance = balance /\ Wiped(balance, m).realized = 0
  BY DEF Wiped, Book
<1>2. OpenLots(Wiped(balance, m)) = {}
  BY DEF Wiped, OpenLots
<1>3. Slice * Cardinality({}) = 0
  BY FS_EmptySet, WalletAssumption
<1>4. Cash(Wiped(balance, m)) = balance + 0 - 0
  BY <1>1, <1>2, <1>3 DEF Cash, CostOf
<1> QED
  BY <1>1, <1>2, <1>4, WalletAssumption

\* What a sale and a purchase make of the cash.
LEMMA CashAfter ==
  ASSUME NEW gain \in Gains, NEW balance \in Int, NEW realized \in Int,
         NEW o \in Nat, NEW x \in Nat, NEW e \in Nat,
         balance + realized - Slice * o >= Slice * e
  PROVE  /\ realized + gain * x \in Int
         /\ balance + (realized + gain * x) - Slice * (o - x + e) >= 0
<1>1. gain \in Int /\ Slice \in Int /\ Slice + gain > 0
  BY WalletAssumption
<1>2. (Slice + gain) * x >= 0
  BY <1>1
<1>3. (Slice + gain) * x = Slice * x + gain * x
  BY <1>1
<1>4. Slice * (o - x + e) = Slice * o - Slice * x + Slice * e
  BY <1>1
<1>5. gain * x \in Int /\ Slice * x \in Int /\ Slice * o \in Int /\ Slice * e \in Int
  BY <1>1
<1> QED
  BY <1>2, <1>3, <1>4, <1>5

\* A trade on a book: the lots, the limit, and the cash.
LEMMA TradedBook ==
  ASSUME NEW b \in Book, NEW E \in SUBSET Signals, NEW X \in SUBSET OpenLots(b), NEW gain \in Gains,
         \A s \in E : b.lot[s] = "none", CostOf(E) <= Cash(b), Cardinality(OpenLots(b)) <= MaxOpen,
         E # {} => Cardinality(OpenLots(b)) + Cardinality(E) <= MaxOpen
  PROVE  LET new == Traded(b, E, X, gain)
         IN  /\ new \in Book /\ OpenLots(new) = (OpenLots(b) \ X) \cup E
             /\ Cash(new) >= 0 /\ Cardinality(OpenLots(new)) <= MaxOpen
<1> DEFINE new == Traded(b, E, X, gain)
           O == OpenLots(b)
<1>1. /\ O \subseteq Signals /\ IsFiniteSet(O) /\ Cardinality(O) \in Nat /\ Cash(b) \in Int
  BY BookCounts
<1>2. /\ IsFiniteSet(E) /\ IsFiniteSet(X) /\ Cardinality(E) \in Nat /\ Cardinality(X) \in Nat
      /\ Cardinality(X) <= Cardinality(O)
  BY <1>1, FS_Subset, FS_CardinalityType, WalletAssumption
<1>3. O \cap E = {}
  BY DEF OpenLots
<1>4. gain * Cardinality(X) \in Int
  BY <1>2, WalletAssumption
<1>5. new \in Book
  <2>1. b.realized + gain * Cardinality(X) \in Int
    BY <1>4 DEF Book
  <2> QED
    BY <2>1 DEF Traded, Book
<1>6. /\ new.balance = b.balance /\ new.realized = b.realized + gain * Cardinality(X)
      /\ new.lot = [s \in Signals |-> IF s \in E THEN "open" ELSE IF s \in X THEN "closed" ELSE b.lot[s]]
  BY DEF Traded, Book
<1>7. OpenLots(new) = (O \ X) \cup E
  BY <1>1, <1>6 DEF OpenLots
<1>8. IsFiniteSet(O \ X) /\ Cardinality(O \ X) = Cardinality(O) - Cardinality(X)
  <2>1. O \cap X = X
    OBVIOUS
  <2> QED
    BY <1>1, <2>1, FS_Difference
<1>9. Cardinality((O \ X) \cup E) = Cardinality(O) - Cardinality(X) + Cardinality(E)
  <2>1. (O \ X) \cap E = {}
    BY <1>3
  <2>2. Cardinality((O \ X) \cap E) = 0
    BY <2>1, FS_EmptySet
  <2>3. Cardinality((O \ X) \cup E) = Cardinality(O \ X) + Cardinality(E) - Cardinality((O \ X) \cap E)
    BY <1>2, <1>8, FS_Union
  <2> QED
    BY <1>1, <1>2, <1>8, <2>2, <2>3
<1>10. Cash(new) >= 0
  <2>1. b.balance \in Int /\ b.realized \in Int
    BY BookFields
  <2>2. Slice * Cardinality(E) <= b.balance + b.realized - Slice * Cardinality(O)
    BY DEF Cash, CostOf
  <2>3. /\ Slice * Cardinality(E) \in Int /\ Slice * Cardinality(O) \in Int
    BY <1>1, <1>2, WalletAssumption
  <2>4. b.balance + (b.realized + gain * Cardinality(X)) - Slice * (Cardinality(O) - Cardinality(X) + Cardinality(E)) >= 0
    BY <1>1, <1>2, <2>1, <2>2, <2>3, CashAfter
  <2> QED
    BY <1>6, <1>7, <1>9, <2>4 DEF Cash, CostOf
<1>11. Cardinality(OpenLots(new)) <= MaxOpen
  <2>1. CASE E = {}
    BY <1>1, <1>2, <1>7, <1>9, <2>1, FS_EmptySet, WalletAssumption
  <2>2. CASE E # {}
    BY <1>1, <1>2, <1>7, <1>9, <2>2, WalletAssumption
  <2> QED
    BY <2>1, <2>2
<1> QED
  BY <1>5, <1>7, <1>10, <1>11

-----------------------------------------------------------------------------
(* Steps that leave the book alone, and commits.                           *)

\* The book that a transaction with record r sees.
Seen(r) == IF r.roll = 0 THEN book ELSE Wiped(book.balance, r.roll)

\* A transaction takes a step of its own: what the others rely on is as it was, since
\* none of them has written beside it.
LEMMA OwnStep ==
  ASSUME WalletInv, NEW t \in Wallets, NEW r \in Transaction,
         tx' = [tx EXCEPT ![t] = r], UNCHANGED <<book, expired, month>>,
         writes' \in 0..MaxWrites, faults' \in 0..MaxFaults,
         r.step \in {"looked", "quoted"} => r.held = OpenLots(Seen(r)) /\ r.cash = Cash(Seen(r)),
         r.roll # 0 => Alone(t),
         r.step # "none" => \A u \in Wallets \ {t} : tx[u].roll = 0
  PROVE  WalletInv'
<1>1. /\ tx \in [Wallets -> Transaction] /\ tx' \in [Wallets -> Transaction] /\ tx'[t] = r
      /\ \A u \in Wallets \ {t} : tx'[u] = tx[u]
  BY DEF WalletInv, WalletHolds, TypeOK
<1>2. TypeOK'
  BY <1>1 DEF WalletInv, WalletHolds, TypeOK, OpenLots
<1>3. CashHolds' /\ OpenBounded' /\ OneLotPerSymbol'
  BY DEF WalletInv, WalletHolds, CashHolds, OpenBounded, OneLotPerSymbol, Cash, CostOf, OpenLots
<1>4. LookStands'
  <2> SUFFICES ASSUME NEW u \in Wallets, tx'[u].step \in {"looked", "quoted"}
               PROVE  tx'[u].held = OpenLots(View(u))' /\ tx'[u].cash = Cash(View(u))'
    BY DEF LookStands
  <2>1. CASE u = t
    BY <1>1, <2>1 DEF View, Seen, Wiped, OpenLots, Cash, CostOf
  <2>2. CASE u # t
    <3>1. tx[u].held = OpenLots(View(u)) /\ tx[u].cash = Cash(View(u))
      BY <1>1, <2>2 DEF WalletInv, WalletHolds, LookStands
    <3> QED
      BY <1>1, <2>2, <3>1 DEF View, Wiped, OpenLots, Cash, CostOf
  <2> QED
    BY <2>1, <2>2
<1>5. WriterAlone'
  <2> SUFFICES ASSUME NEW u \in Wallets, tx'[u].roll # 0, NEW q \in Wallets \ {u}
               PROVE  tx'[q].step = "none"
    BY DEF WriterAlone, Alone, Goes
  <2>1. CASE u = t
    BY <1>1, <2>1 DEF Alone, Goes
  <2>2. CASE u # t /\ q = t
    BY <1>1, <2>2
  <2>3. CASE u # t /\ q # t
    BY <1>1, <2>3 DEF WalletInv, WriterAlone, Alone, Goes
  <2> QED
    BY <2>1, <2>2, <2>3
<1> QED
  BY <1>2, <1>3, <1>4, <1>5 DEF WalletInv, WalletHolds

\* A book that keeps the promises of the wallet.
Sound(b) ==
  /\ b \in Book /\ Cash(b) >= 0 /\ Cardinality(OpenLots(b)) <= MaxOpen
  /\ \A s, r \in OpenLots(b) : KeyOf[s] = KeyOf[r] => s = r \/ {s, r} \subseteq Legacy

\* A record without a transaction is one.
LEMMA Blank ==
  NoTransaction \in Transaction /\ NoTransaction.step = "none" /\ NoTransaction.roll = 0
<1>1. 0 \in 0..MaxMonth
  BY WalletAssumption
<1> QED
  BY <1>1 DEF NoTransaction, Transaction, Jobs

\* A sound book is committed: whoever writes is alone, so nobody's look is outdated.
LEMMA CommitStep ==
  ASSUME WalletInv, NEW t \in Wallets, NEW new, Sound(new), Ends(t), faults' = faults, Commit(t, new)
  PROVE  WalletInv'
<1>1. /\ tx \in [Wallets -> Transaction] /\ tx' \in [Wallets -> Transaction] /\ tx'[t] = NoTransaction
      /\ \A u \in Wallets \ {t} : tx'[u] = tx[u]
  BY Blank DEF WalletInv, WalletHolds, TypeOK, Ends
<1>2. book' = new /\ expired' = expired \cap OpenLots(new)
  BY DEF Commit
<1>3. TypeOK'
  <2>1. expired' \subseteq OpenLots(book')
    BY <1>2
  <2>2. OpenLots(book)' = OpenLots(book')
    BY DEF OpenLots
  <2> QED
    BY <1>1, <1>2, <2>1, <2>2 DEF WalletInv, WalletHolds, TypeOK, Sound, Ends
<1>4. CashHolds' /\ OpenBounded' /\ OneLotPerSymbol'
  BY <1>2 DEF Sound, CashHolds, OpenBounded, OneLotPerSymbol, Cash, CostOf, OpenLots
<1>5. LookStands'
  <2> SUFFICES ASSUME NEW u \in Wallets, tx'[u].step \in {"looked", "quoted"}
               PROVE  tx'[u].held = OpenLots(View(u))' /\ tx'[u].cash = Cash(View(u))'
    BY DEF LookStands
  <2>1. u # t /\ tx'[u] = tx[u]
    BY <1>1, Blank
  <2>2. book' = book
    BY <1>2, <2>1 DEF Commit, Alone, Goes
  <2>3. tx[u].held = OpenLots(View(u)) /\ tx[u].cash = Cash(View(u))
    BY <2>1 DEF WalletInv, WalletHolds, LookStands
  <2> QED
    BY <2>1, <2>2, <2>3 DEF View, Wiped, OpenLots, Cash, CostOf
<1>6. WriterAlone'
  BY <1>1, Blank DEF WalletInv, WriterAlone, Alone, Goes
<1> QED
  BY <1>3, <1>4, <1>5, <1>6 DEF WalletInv, WalletHolds

\* A wiped book is sound.
LEMMA WipedSound ==
  ASSUME NEW balance \in Balances, NEW m \in 1..MaxMonth
  PROVE  Sound(Wiped(balance, m))
<1>1. balance \in Nat /\ Cardinality({}) = 0
  BY WalletAssumption, FS_EmptySet
<1> QED
  BY <1>1, WipedBook, WalletAssumption DEF Sound

\* What a transaction sees is a sound book.
LEMMA ViewSound ==
  ASSUME WalletInv, NEW t \in Wallets
  PROVE  Sound(View(t))
<1>1. Sound(book)
  BY DEF WalletInv, WalletHolds, TypeOK, CashHolds, OpenBounded, OneLotPerSymbol, Sound
<1>2. CASE tx[t].roll = 0
  BY <1>1, <1>2 DEF View
<1>3. CASE tx[t].roll # 0
  <2>1. tx[t].roll \in 0..MaxMonth
    BY DEF WalletInv, WalletHolds, TypeOK, Transaction
  <2>2. tx[t].roll \in 1..MaxMonth
    BY <2>1, <1>3, WalletAssumption
  <2>3. book.balance \in Balances
    BY <1>1 DEF Sound, Book
  <2> QED
    BY <1>3, <2>2, <2>3, WipedSound DEF View
<1> QED
  BY <1>2, <1>3

-----------------------------------------------------------------------------
(* The actions.                                                            *)

LEMMA BeginStep ==
  ASSUME WalletInv, NEW t \in Wallets, NEW job \in Jobs, Begin(t, job)
  PROVE  WalletInv'
<1> DEFINE new == [NoTransaction EXCEPT !.job = job]
           r == CASE job = "reset" -> [new EXCEPT !.step = "reset"]
                  [] job = "cycle" /\ book.month # month -> [new EXCEPT !.step = "roll"]
                  [] OTHER -> Looked(new, book)
<1>1. book \in Book /\ OpenLots(book) \subseteq Signals /\ Cash(book) \in Int
  BY BookCounts DEF WalletInv, WalletHolds, TypeOK
<1>2. new \in Transaction /\ new.roll = 0 /\ new.step = "none"
  BY Blank DEF Transaction, NoTransaction
<1>3. /\ Looked(new, book) \in Transaction /\ Looked(new, book).roll = 0
      /\ Looked(new, book).held = OpenLots(book) /\ Looked(new, book).cash = Cash(book)
  BY <1>1, <1>2 DEF Looked, Transaction
<1>4. /\ [new EXCEPT !.step = "reset"] \in Transaction /\ [new EXCEPT !.step = "roll"] \in Transaction
      /\ [new EXCEPT !.step = "reset"].roll = 0 /\ [new EXCEPT !.step = "roll"].roll = 0
      /\ [new EXCEPT !.step = "reset"].step = "reset" /\ [new EXCEPT !.step = "roll"].step = "roll"
  BY <1>2 DEF Transaction
<1>5. /\ r \in Transaction /\ r.roll = 0
      /\ r.step \in {"looked", "quoted"} => r.held = OpenLots(book) /\ r.cash = Cash(book)
  <2>1. CASE job = "reset"
    BY <1>4, <2>1
  <2>2. CASE job = "cycle" /\ book.month # month
    BY <1>4, <2>2
  <2>3. CASE job # "reset" /\ ~(job = "cycle" /\ book.month # month)
    BY <1>3, <2>3
  <2> QED
    BY <2>1, <2>2, <2>3
<1>6. writes' \in 0..MaxWrites /\ faults' \in 0..MaxFaults
  BY WalletAssumption DEF Begin, WalletInv, WalletHolds, TypeOK
<1>7. tx' = [tx EXCEPT ![t] = r] /\ UNCHANGED <<book, expired, month>>
  BY DEF Begin
<1>8. \A u \in Wallets \ {t} : tx[u].roll = 0
  BY DEF Begin, MayShare
<1>9. Seen(r) = book
  BY <1>5 DEF Seen
<1> HIDE DEF r, new
<1> QED
  BY <1>5, <1>6, <1>7, <1>8, <1>9, OwnStep

\* A transaction that is under way is beside no writer.
LEMMA NoWriterBeside ==
  ASSUME WalletInv, NEW t \in Wallets, tx[t].step # "none"
  PROVE  \A u \in Wallets \ {t} : tx[u].roll = 0
BY DEF WalletInv, WriterAlone, Alone, Goes

LEMMA QuoteStep ==
  ASSUME WalletInv, NEW t \in Wallets, NEW priced \in SUBSET Symbols, Quote(t, priced)
  PROVE  WalletInv'
<1> DEFINE r == IF tx[t].job = "page" THEN NoTransaction
                ELSE [tx[t] EXCEPT !.step = "quoted", !.priced = priced]
<1>1. tx[t] \in Transaction /\ tx[t].step = "looked"
  BY DEF WalletInv, WalletHolds, TypeOK, Quote, Goes
<1>2. tx[t].held = OpenLots(View(t)) /\ tx[t].cash = Cash(View(t))
  BY <1>1 DEF WalletInv, WalletHolds, LookStands
<1>3. \A u \in Wallets \ {t} : tx[u].roll = 0
  BY <1>1, NoWriterBeside
<1>4. r \in Transaction
  BY <1>1, Blank DEF Transaction
<1>5. r.step \in {"looked", "quoted"} => r.held = tx[t].held /\ r.cash = tx[t].cash /\ r.roll = tx[t].roll
  BY <1>1, Blank DEF Transaction
<1>6. r.step \in {"looked", "quoted"} => r.held = OpenLots(Seen(r)) /\ r.cash = Cash(Seen(r))
  BY <1>2, <1>5 DEF Seen, View
<1>7. r.roll # 0 => Alone(t)
  <2>1. r.roll # 0 => tx[t].roll # 0
    BY <1>1, Blank DEF Transaction
  <2> QED
    BY <2>1 DEF WalletInv, WriterAlone
<1>8. tx' = [tx EXCEPT ![t] = r] /\ UNCHANGED <<book, expired, month>>
  BY DEF Quote
<1>9. writes' \in 0..MaxWrites /\ faults' \in 0..MaxFaults
  BY DEF Quote, WalletInv, WalletHolds, TypeOK
<1> HIDE DEF r
<1> QED
  BY <1>3, <1>4, <1>6, <1>7, <1>8, <1>9, OwnStep

LEMMA RollStep ==
  ASSUME WalletInv, NEW t \in Wallets, Roll(t)
  PROVE  WalletInv'
<1> DEFINE old == [tx[t] EXCEPT !.waits = FALSE, !.roll = month]
           r == Looked(old, Wiped(book.balance, month))
<1>1. tx[t] \in Transaction /\ tx[t].step # "none" /\ Alone(t)
  BY DEF WalletInv, WalletHolds, TypeOK, Roll, Goes
<1>2. month \in 1..MaxMonth /\ month # 0 /\ month \in 0..MaxMonth /\ book.balance \in Balances
  BY WalletAssumption DEF WalletInv, WalletHolds, TypeOK, Book
<1>3. old \in Transaction /\ old.roll = month
  BY <1>1, <1>2 DEF Transaction
<1>4. Wiped(book.balance, month) \in Book
  BY <1>2, WipedBook
<1>5. /\ OpenLots(Wiped(book.balance, month)) \subseteq Signals /\ Cash(Wiped(book.balance, month)) \in Int
  BY <1>4, BookCounts
<1>6. /\ r \in Transaction /\ r.roll = month
      /\ r.held = OpenLots(Wiped(book.balance, month)) /\ r.cash = Cash(Wiped(book.balance, month))
  BY <1>3, <1>5 DEF Looked, Transaction
<1>7. Seen(r) = Wiped(book.balance, month)
  BY <1>2, <1>6 DEF Seen
<1>8. tx' = [tx EXCEPT ![t] = r] /\ UNCHANGED <<book, expired, month>>
  BY DEF Roll
<1>9. writes' \in 0..MaxWrites /\ faults' \in 0..MaxFaults
  BY DEF Roll, WalletInv, WalletHolds, TypeOK
<1>10. \A u \in Wallets \ {t} : tx[u].roll = 0
  BY <1>1, NoWriterBeside
<1> HIDE DEF r, old
<1> QED
  BY <1>1, <1>6, <1>7, <1>8, <1>9, <1>10, OwnStep

LEMMA TradeStep ==
  ASSUME WalletInv, NEW t \in Wallets, Trade(t)
  PROVE  WalletInv'
<1>1. PICK E \in SUBSET (Signals \ Legacy), X \in SUBSET OpenLots(View(t)), gain \in Gains :
        Enterable(t, E) /\ Commit(t, Traded(View(t), E, X, gain))
  BY DEF Trade
<1> DEFINE b == View(t)
           new == Traded(b, E, X, gain)
<1>2. Sound(b)
  BY ViewSound
<1>3. tx[t].held = OpenLots(b) /\ tx[t].cash = Cash(b)
  BY DEF Trade, Goes, WalletInv, WalletHolds, LookStands
<1>4. /\ new \in Book /\ OpenLots(new) = (OpenLots(b) \ X) \cup E
      /\ Cash(new) >= 0 /\ Cardinality(OpenLots(new)) <= MaxOpen
  <2>1. /\ \A s \in E : b.lot[s] = "none"
        /\ CostOf(E) <= Cash(b)
        /\ E # {} => Cardinality(OpenLots(b)) + Cardinality(E) <= MaxOpen
    BY <1>1, <1>3 DEF Enterable
  <2>2. /\ b \in Book /\ Cardinality(OpenLots(b)) <= MaxOpen
        /\ E \in SUBSET Signals /\ X \in SUBSET OpenLots(b)
    BY <1>1, <1>2 DEF Sound
  <2> HIDE DEF b
  <2> QED
    BY <1>1, <2>1, <2>2, TradedBook
<1>5. \A s, r \in OpenLots(new) : KeyOf[s] = KeyOf[r] => s = r \/ {s, r} \subseteq Legacy
  <2>1. \A s \in E : \A r \in OpenLots(b) : KeyOf[s] # KeyOf[r]
    BY <1>1, <1>3 DEF Enterable, KeysOf
  <2>2. \A s, r \in E : KeyOf[s] = KeyOf[r] => s = r
    BY <1>1 DEF Enterable
  <2>3. \A s, r \in OpenLots(b) : KeyOf[s] = KeyOf[r] => s = r \/ {s, r} \subseteq Legacy
    BY <1>2 DEF Sound
  <2> HIDE DEF b, new
  <2> QED
    BY <1>4, <2>1, <2>2, <2>3
<1>6. Sound(new)
  BY <1>4, <1>5 DEF Sound
<1>7. Ends(t) /\ faults' = faults /\ Commit(t, new)
  BY <1>1 DEF Trade
<1> HIDE DEF new
<1> QED
  BY <1>6, <1>7, CommitStep

LEMMA CleanUpStep ==
  ASSUME WalletInv, NEW t \in Wallets, CleanUp(t)
  PROVE  WalletInv'
<1> DEFINE X == {s \in Extras(tx[t].held) \cap OpenLots(book) : KeyOf[s][2] \in tx[t].priced}
<1>1. PICK gain \in Gains : Commit(t, Traded(book, {}, X, gain))
  BY DEF CleanUp
<1> DEFINE new == Traded(book, {}, X, gain)
<1>2. Sound(book)
  BY DEF WalletInv, WalletHolds, TypeOK, CashHolds, OpenBounded, OneLotPerSymbol, Sound
<1>3. /\ new \in Book /\ OpenLots(new) = (OpenLots(book) \ X) \cup {}
      /\ Cash(new) >= 0 /\ Cardinality(OpenLots(new)) <= MaxOpen
  <2>1. CostOf({}) = 0
    BY FS_EmptySet, WalletAssumption DEF CostOf
  <2>2. Cash(book) \in Int /\ CostOf({}) <= Cash(book) /\ X \in SUBSET OpenLots(book)
    BY <1>2, <2>1, BookCounts DEF Sound
  <2> HIDE DEF X
  <2> QED
    BY <1>2, <2>2, TradedBook DEF Sound
<1>4. Sound(new)
  <2>1. OpenLots(new) \subseteq OpenLots(book)
    BY <1>3
  <2> HIDE DEF new
  <2> QED
    BY <1>2, <1>3, <2>1 DEF Sound
<1>5. Ends(t) /\ faults' = faults /\ Commit(t, new)
  BY <1>1 DEF CleanUp
<1> HIDE DEF new
<1> QED
  BY <1>4, <1>5, CommitStep

LEMMA ResetStep ==
  ASSUME WalletInv, NEW t \in Wallets, NEW balance \in Balances, Reset(t, balance)
  PROVE  WalletInv'
<1>1. month \in 1..MaxMonth
  BY DEF WalletInv, WalletHolds, TypeOK
<1>2. Sound(Wiped(balance, month))
  BY <1>1, WipedSound
<1> QED
  BY <1>2, CommitStep DEF Reset

LEMMA WaitStep ==
  ASSUME WalletInv, NEW t \in Wallets, WaitsToWrite(t)
  PROVE  WalletInv'
<1> DEFINE r == [tx[t] EXCEPT !.waits = TRUE]
<1>1. tx[t] \in Transaction /\ tx[t].step # "none"
  BY DEF WalletInv, WalletHolds, TypeOK, WaitsToWrite
<1>2. /\ r \in Transaction /\ r.roll = tx[t].roll /\ r.step = tx[t].step
      /\ r.held = tx[t].held /\ r.cash = tx[t].cash
  BY <1>1 DEF Transaction
<1>3. r.step \in {"looked", "quoted"} => r.held = OpenLots(Seen(r)) /\ r.cash = Cash(Seen(r))
  BY <1>2 DEF Seen, View, WalletInv, WalletHolds, LookStands
<1>4. r.roll # 0 => Alone(t)
  BY <1>2 DEF WalletInv, WriterAlone
<1>5. tx' = [tx EXCEPT ![t] = r] /\ UNCHANGED <<book, expired, month>>
  BY <1>1 DEF WaitsToWrite, WalletInv, WalletHolds, TypeOK
<1>6. writes' \in 0..MaxWrites /\ faults' \in 0..MaxFaults
  BY DEF WaitsToWrite, WalletInv, WalletHolds, TypeOK
<1>7. \A u \in Wallets \ {t} : tx[u].roll = 0
  BY <1>1, NoWriterBeside
<1> HIDE DEF r
<1> QED
  BY <1>2, <1>3, <1>4, <1>5, <1>6, <1>7, OwnStep

LEMMA AbortStep ==
  ASSUME WalletInv, NEW t \in Wallets, Aborts(t), faults' \in 0..MaxFaults
  PROVE  WalletInv'
<1>1. tx' = [tx EXCEPT ![t] = NoTransaction] /\ UNCHANGED <<book, expired, month>>
  BY DEF Aborts, Ends
<1>2. writes' \in 0..MaxWrites
  BY DEF Aborts, Ends, WalletInv, WalletHolds, TypeOK
<1> QED
  BY <1>1, <1>2, Blank, OwnStep

\* Time: lots expire and months turn, which no transaction has read.
LEMMA TimeStep ==
  ASSUME WalletInv, UNCHANGED <<book, tx, writes, faults>>,
         expired' \subseteq OpenLots(book), month' \in 1..MaxMonth
  PROVE  WalletInv'
BY DEF WalletInv, WalletHolds, TypeOK, CashHolds, OpenBounded, LookStands, OneLotPerSymbol, WriterAlone,
       Alone, Goes, View, Wiped, OpenLots, Cash, CostOf

-----------------------------------------------------------------------------
(* Theorems.                                                               *)

LEMMA InitInv == Init => WalletInv
<1> SUFFICES ASSUME Init
             PROVE  WalletInv
  OBVIOUS
<1>1. OpenLots(book) = Legacy
  BY WalletAssumption DEF Init, OpenLots
<1>2. book.balance = Start /\ book.realized = 0 /\ Start \in Int /\ CostOf(Legacy) <= Start
  BY WalletAssumption DEF Init
<1>3. CostOf(Legacy) \in Int
  <2>1. Cardinality(Legacy) \in Nat
    BY FS_Subset, FS_CardinalityType, WalletAssumption
  <2> QED
    BY <2>1, WalletAssumption DEF CostOf
<1>4. CashHolds /\ OpenBounded
  BY <1>1, <1>2, <1>3, WalletAssumption DEF CashHolds, OpenBounded, Cash
<1>5. TypeOK
  <2>1. book \in Book
    BY WalletAssumption DEF Init, Book
  <2> QED
    BY <2>1, Blank, WalletAssumption DEF Init, TypeOK
<1>6. LookStands /\ WriterAlone
  BY Blank DEF Init, LookStands, WriterAlone
<1>7. OneLotPerSymbol
  BY <1>1 DEF OneLotPerSymbol
<1> QED
  BY <1>4, <1>5, <1>6, <1>7 DEF WalletInv, WalletHolds

LEMMA NextInv == WalletInv /\ [Next]_vars => WalletInv'
<1> SUFFICES ASSUME WalletInv, [Next]_vars
             PROVE  WalletInv'
  OBVIOUS
<1>1. ASSUME NEW t \in Wallets, NEW job \in Jobs, Begin(t, job)
      PROVE  WalletInv'
  BY <1>1, BeginStep
<1>2. ASSUME NEW t \in Wallets, Proceeds(t)
      PROVE  WalletInv'
  BY <1>2, QuoteStep, ResetStep, RollStep, TradeStep, CleanUpStep, WaitStep DEF Proceeds
<1>3. ASSUME NEW t \in Wallets, Deadlock(t)
      PROVE  WalletInv'
  <2>1. Aborts(t) /\ faults' \in 0..MaxFaults
    BY <1>3 DEF Deadlock, WalletInv, WalletHolds, TypeOK
  <2> QED
    BY <2>1, AbortStep
<1>4. ASSUME NEW t \in Wallets, Fails(t)
      PROVE  WalletInv'
  <2>1. Aborts(t) /\ faults' \in 0..MaxFaults
    BY <1>4, WalletAssumption DEF Fails, Fault, WalletInv, WalletHolds, TypeOK
  <2> QED
    BY <2>1, AbortStep
<1>5. ASSUME NEW s \in Signals, LotExpires(s)
      PROVE  WalletInv'
  BY <1>5, TimeStep DEF LotExpires, WalletInv, WalletHolds, TypeOK
<1>6. CASE MonthTurns
  <2>1. expired' \subseteq OpenLots(book) /\ month' \in 1..MaxMonth
    BY <1>6, WalletAssumption DEF MonthTurns, WalletInv, WalletHolds, TypeOK
  <2> QED
    BY <1>6, <2>1, TimeStep DEF MonthTurns
<1>7. CASE UNCHANGED vars
  <2>1. expired' \subseteq OpenLots(book) /\ month' \in 1..MaxMonth
    BY <1>7 DEF vars, WalletInv, WalletHolds, TypeOK
  <2> QED
    BY <1>7, <2>1, TimeStep DEF vars
<1> QED
  BY <1>1, <1>2, <1>3, <1>4, <1>5, <1>6, <1>7 DEF Next

LEMMA Invariance == Spec => []WalletInv
BY InitInv, NextInv, PTL DEF Spec

\* However many cycles, requests and pages overlap, die or deadlock: no fake money is
\* spent twice, the limit of lots holds, and what a transaction read stands until it ends.
THEOREM WalletIsSound == Spec => []WalletHolds
<1>1. WalletInv => WalletHolds
  BY DEF WalletInv
<1> QED
  BY <1>1, Invariance, PTL

\* Never two lots of one symbol in a book, but for those from before the rule: with no
\* constraint in the table itself.
THEOREM LotsDoNotStack == Spec => []OneLotPerSymbol
<1>1. WalletInv => OneLotPerSymbol
  BY DEF WalletInv
<1> QED
  BY <1>1, Invariance, PTL

-----------------------------------------------------------------------------
(* EdgePaper: the entry.                                                   *)

CheckSteps == {"read", "cancel entry", "reread", "judge", "cancel legs", "reread legs", "protect",
               "post px", "confirm px", "post pf", "confirm pf"}
ExitSteps == {"x read", "x cancel", "x reread", "x sell", "x post", "x close", "x record"}

\* The steps of a deadline check that has seen the entry ended.
AfterEntry == {"judge", "cancel legs", "reread legs", "protect",
               "post px", "confirm px", "post pf", "confirm pf"}

\* What a job that is at step, with what it holds in l, relies on.
Honest(r, step, l) ==
  /\ step \in CheckSteps \cup ExitSteps => l.rec.state = "submitted" /\ row.state = "submitted"
  /\ l.rec.checked => Final(orders[Entry])
  /\ step \in AfterEntry => Final(orders[Entry])
  /\ step \in {"post px", "confirm px"} => l.rec.px # 0
  /\ step \in {"post pf", "confirm pf"} => l.rec.pf # 0
  /\ step = "x post" => l.rec.tx # 0
  /\ step \in {"post px", "confirm px", "post pf", "confirm pf", "x post", "x close"} => l.owned # 0
  /\ step \in {"post entry", "look up entry"} => row.state = "none"
  /\ r = "guard" => step \in CheckSteps \cup {"idle"}

JobsHonest == \A r \in Runners : Honest(r, pc[r], local[r])

\* The broker's records: what a status says of the shares, and the legs before
\* the entry has ended.
ShapedOrder(i, o) ==
  /\ o.status = "none" => o = Never
  /\ o.status \in {"working", "canceling"} => o.filled < o.qty
  /\ o.status = "held" => i = Legs /\ o.filled = 0 /\ o.qty = Shares
  /\ o.status = "rejected" => o.filled = 0
  /\ o.status = "filled" => o.filled = o.qty
  /\ o.filled <= o.qty

Shaped(os) ==
  /\ \A i \in Ids : ShapedOrder(i, os[i])
  /\ os[Entry] # Never => os[Entry].qty = Shares
  /\ ~Final(os[Entry]) => os[Legs].status \in {"none", "held", "canceled"} /\ os[Legs].filled = 0

\* What the row says of the entry.
RowTrue ==
  /\ row.checked => Final(orders[Entry])
  /\ row.state = "none" /\ orders[Entry] # Never
       /\ ~(pc["tick"] = "look up entry" /\ local["tick"].code = "accepted") => mishaps >= 1
  /\ row.state = "rejected" /\ orders[Entry] # Never => mishaps >= 2

EntryInv == OrdersTypeOK /\ Shaped(orders) /\ JobsHonest /\ RowTrue

\* A change at the broker: an entry that has ended stays as it is.
Moves == orders' \in [Ids -> Order] /\ Shaped(orders)' /\ (Final(orders[Entry]) => orders'[Entry] = orders[Entry])

\* What the constants are.
LEMMA OrdersConstants ==
  /\ Shares \in Nat \ {0} /\ MaxTries \in Nat \ {0} /\ MaxSells \in Nat \ {0}
  /\ OthersShares \in Nat /\ MaxOverlaps \in Nat /\ MaxMishaps \in Nat
BY NumbersAssumption

\* The ids of a forecast's orders are told apart.
LEMMA IdFacts ==
  /\ Entry \in Ids /\ Legs \in Ids /\ Close \in Ids /\ Entry # Legs /\ Close \notin {Entry, Legs}
  /\ \A n \in 1..MaxTries : <<"px", n>> \in Ids \ {Entry, Legs} /\ <<"pf", n>> \in Ids \ {Entry, Legs}
  /\ \A n \in 1..MaxSells : <<"tx", n>> \in Ids \ {Entry, Legs}
<1>1. Entry \in Ids /\ Legs \in Ids /\ Close \in Ids
  BY DEF Ids, ExitIds
<1>2. Entry # Legs /\ Close \notin {Entry, Legs}
  BY DEF Entry, Legs, Close
<1>3. ASSUME NEW n \in 1..MaxTries
      PROVE  <<"px", n>> \in Ids \ {Entry, Legs} /\ <<"pf", n>> \in Ids \ {Entry, Legs}
  <2>1. <<"px", n>> \in Protect /\ <<"pf", n>> \in Flatten
    BY DEF Protect, Flatten
  <2>2. <<"px", n>> \notin {Entry, Legs} /\ <<"pf", n>> \notin {Entry, Legs}
    BY DEF Entry, Legs
  <2> QED
    BY <2>1, <2>2 DEF Ids, ExitIds
<1>4. ASSUME NEW n \in 1..MaxSells PROVE <<"tx", n>> \in Ids \ {Entry, Legs}
  <2>1. <<"tx", n>> \in TimeExit
    BY DEF TimeExit
  <2>2. <<"tx", n>> \notin {Entry, Legs}
    BY DEF Entry, Legs
  <2> QED
    BY <2>1, <2>2 DEF Ids, ExitIds
<1> QED
  BY <1>1, <1>2, <1>3, <1>4

\* A final order was placed.
LEMMA FinalIsPlaced ==
  ASSUME NEW o, Final(o) PROVE o # Never
BY DEF Final, Never

\* Lost answers, refusals and deaths are counted up to their bound.
LEMMA MishapTyped ==
  ASSUME OrdersTypeOK, Mishap \/ NoMishap
  PROVE  mishaps' \in 0..MaxMishaps /\ mishaps' >= mishaps
BY OrdersConstants DEF OrdersTypeOK, Mishap, NoMishap

\* A post places an order for all of its shares, or nothing (_post).
LEMMA PostsMove ==
  ASSUME OrdersTypeOK, Shaped(orders), NEW id \in Ids \ {Legs}, NEW qty \in 1..Shares, NEW answer,
         id = Entry => qty = Shares, Posts(id, qty, answer)
  PROVE  Moves
<1>0. Entry \in Ids /\ Legs \in Ids /\ Entry # Legs
  BY IdFacts
<1>1. CASE UNCHANGED orders
  BY <1>1 DEF Moves, OrdersTypeOK, Shaped
<1>2. CASE orders[id] = Never /\ orders' = Accepted(id, qty)
  <2> DEFINE new == [status |-> "working", qty |-> qty, filled |-> 0]
             held == [status |-> "held", qty |-> qty, filled |-> 0]
  <2>1. new \in Order /\ held \in Order
    BY OrdersConstants DEF Order, Statuses
  <2>2. ~Final(orders[id])
    BY <1>2 DEF Final, Never
  <2>3. CASE id = Entry
    <3>1. orders' = [[orders EXCEPT ![Entry] = new] EXCEPT ![Legs] = held]
      BY <1>2, <2>3 DEF Accepted
    <3>2. orders' \in [Ids -> Order] /\ orders'[Entry] = new /\ orders'[Legs] = held
          /\ \A i \in Ids \ {Entry, Legs} : orders'[i] = orders[i]
      BY <1>0, <2>1, <3>1 DEF OrdersTypeOK
    <3>3. qty = Shares
      BY <2>3
    <3>4. ShapedOrder(Entry, new) /\ ShapedOrder(Legs, held)
      BY <3>3, OrdersConstants DEF ShapedOrder
    <3>5. Shaped(orders)'
      BY <1>0, <3>2, <3>3, <3>4 DEF Shaped, Final
    <3> QED
      BY <2>2, <2>3, <3>2, <3>5 DEF Moves
  <2>4. CASE id # Entry
    <3>1. orders' = [orders EXCEPT ![id] = new]
      BY <1>2, <2>4 DEF Accepted
    <3>2. orders' \in [Ids -> Order] /\ orders'[id] = new
          /\ \A i \in Ids \ {id} : orders'[i] = orders[i]
      BY <2>1, <3>1 DEF OrdersTypeOK
    <3>3. ShapedOrder(id, new)
      BY OrdersConstants DEF ShapedOrder
    <3>4. Shaped(orders)'
      BY <1>0, <2>4, <3>2, <3>3 DEF Shaped
    <3> QED
      BY <1>0, <2>4, <3>2, <3>4 DEF Moves
  <2> QED
    BY <2>3, <2>4
<1> QED
  BY <1>1, <1>2 DEF Posts

\* A request to cancel ends what is held and asks of the rest (_delete).
LEMMA CancelsMove ==
  ASSUME OrdersTypeOK, Shaped(orders), NEW ids, Cancels(ids)
  PROVE  Moves
<1>0. Entry \in Ids /\ Legs \in Ids /\ Entry # Legs
  BY IdFacts
<1>1. PICK taken \in SUBSET ids :
        orders' = [i \in Ids |-> IF i \in taken THEN Asked(orders[i]) ELSE orders[i]]
  BY DEF Cancels
<1>2. \A i \in Ids : Asked(orders[i]) \in Order
  BY DEF OrdersTypeOK, Asked, Order, Statuses
<1>3. orders' \in [Ids -> Order] /\ \A i \in Ids : orders'[i] \in {orders[i], Asked(orders[i])}
  BY <1>1, <1>2 DEF OrdersTypeOK
<1>4. ASSUME NEW i \in Ids
      PROVE  /\ orders'[i].filled = orders[i].filled /\ orders'[i].qty = orders[i].qty
             /\ \/ orders'[i] = orders[i]
                \/ orders[i].status = "held" /\ orders'[i].status = "canceled"
                \/ orders[i].status = "working" /\ orders'[i].status = "canceling"
  <2>1. orders[i] \in Order
    BY DEF OrdersTypeOK
  <2> QED
    BY <1>3, <2>1 DEF Asked, Order
<1>5. ASSUME NEW i \in Ids PROVE ShapedOrder(i, orders'[i])
  <2>1. ShapedOrder(i, orders[i])
    BY DEF Shaped
  <2>2. CASE orders'[i] = orders[i]
    BY <2>1, <2>2
  <2>3. CASE orders[i].status = "held" /\ orders'[i].status = "canceled"
    BY <1>4, <2>1, <2>3 DEF ShapedOrder
  <2>4. CASE orders[i].status = "working" /\ orders'[i].status = "canceling"
    BY <1>4, <2>1, <2>4 DEF ShapedOrder
  <2> QED
    BY <1>4, <2>2, <2>3, <2>4
<1>6. Final(orders[Entry]) => orders'[Entry] = orders[Entry]
  BY <1>0, <1>4 DEF Final
<1>7. orders'[Entry] # Never => orders'[Entry].qty = Shares
  <2>1. orders[Entry] = Never => orders'[Entry] = Never
    BY <1>0, <1>4 DEF Never
  <2> QED
    BY <1>0, <1>4, <2>1 DEF Shaped
<1>8. ~Final(orders'[Entry]) => orders'[Legs].status \in {"none", "held", "canceled"} /\ orders'[Legs].filled = 0
  <2> SUFFICES ASSUME ~Final(orders'[Entry])
               PROVE  orders'[Legs].status \in {"none", "held", "canceled"} /\ orders'[Legs].filled = 0
    OBVIOUS
  <2>1. ~Final(orders[Entry])
    BY <1>6
  <2>2. orders[Legs].status \in {"none", "held", "canceled"} /\ orders[Legs].filled = 0
    BY <2>1 DEF Shaped
  <2>3. orders[Legs].status # "working"
    BY <2>2
  <2> QED
    BY <1>0, <1>4, <2>2, <2>3
<1> QED
  BY <1>3, <1>5, <1>6, <1>7, <1>8 DEF Moves, Shaped

\* One share of an order trades.
LEMMA FillsMove ==
  ASSUME OrdersTypeOK, Shaped(orders), NEW i \in Ids, Fills(i)
  PROVE  Moves
<1>0. Entry \in Ids /\ Legs \in Ids /\ Entry # Legs
  BY IdFacts
<1> DEFINE new == OneMore(orders[i])
           os == [orders EXCEPT ![i] = new]
<1>1. /\ orders[i] \in Order /\ orders[i].status \in {"working", "canceling"}
      /\ orders[i].filled < orders[i].qty
  BY DEF OrdersTypeOK, Fills, Shaped, ShapedOrder
<1>2. /\ new \in Order /\ new.filled = orders[i].filled + 1 /\ new.qty = orders[i].qty
      /\ new.status = IF orders[i].filled + 1 = orders[i].qty THEN "filled" ELSE orders[i].status
  <2> DEFINE status == IF orders[i].filled + 1 = orders[i].qty THEN "filled" ELSE orders[i].status
  <2>1. new = [orders[i] EXCEPT !.filled = orders[i].filled + 1, !.status = status]
    BY DEF OneMore
  <2>2. orders[i].filled + 1 \in 0..Shares
    BY <1>1, OrdersConstants DEF Order
  <2>3. status \in Statuses
    BY <1>1 DEF Order, Statuses
  <2> HIDE DEF status
  <2>4. new.filled = orders[i].filled + 1 /\ new.qty = orders[i].qty /\ new.status = status
    BY <1>1, <2>1 DEF Order
  <2>5. new \in Order
    BY <1>1, <2>1, <2>2, <2>3 DEF Order
  <2> QED
    BY <2>4, <2>5 DEF status
<1> HIDE DEF new
<1>3. os \in [Ids -> Order] /\ os[i] = new /\ \A j \in Ids \ {i} : os[j] = orders[j]
  BY <1>2 DEF OrdersTypeOK
<1>4. ~Final(orders[i])
  BY <1>1 DEF Final
<1>5. orders' = IF i = Entry /\ os[Entry].status = "filled" /\ os[Legs].status = "held"
                THEN [os EXCEPT ![Legs].status = "working"] ELSE os
  BY DEF Fills, new
<1> HIDE DEF os
<1>6. ShapedOrder(i, new)
  <2>1. new.status \in {"filled", "working", "canceling"}
    BY <1>1, <1>2
  <2>2. new.filled <= new.qty
    BY <1>1, <1>2, OrdersConstants DEF Order
  <2>3. new.status \in {"working", "canceling"} => new.filled < new.qty
    BY <1>1, <1>2, OrdersConstants DEF Order
  <2>4. new.status = "filled" => new.filled = new.qty
    BY <1>1, <1>2
  <2> QED
    BY <2>1, <2>2, <2>3, <2>4 DEF ShapedOrder
<1>7. i = Entry => new.qty = Shares
  BY <1>1, <1>2 DEF Shaped, Never
<1>8. CASE i = Entry /\ os[Entry].status = "filled" /\ os[Legs].status = "held"
  <2>1. orders' = [os EXCEPT ![Legs].status = "working"]
    BY <1>5, <1>8
  <2>2. os[Legs] \in Order /\ os[Legs] = orders[Legs]
    BY <1>0, <1>3, <1>8
  <2>3. /\ orders' \in [Ids -> Order] /\ orders'[Entry] = new
        /\ orders'[Legs] = [os[Legs] EXCEPT !.status = "working"]
        /\ \A j \in Ids \ {Entry, Legs} : orders'[j] = orders[j]
    BY <1>0, <1>3, <1>8, <2>1, <2>2 DEF Order, Statuses
  <2>4. orders[Legs].filled = 0 /\ orders[Legs].qty = Shares
    BY <1>0, <1>8, <2>2 DEF Shaped, ShapedOrder
  <2>5. ShapedOrder(Legs, orders'[Legs])
    <3>1. orders'[Legs].status = "working" /\ orders'[Legs].filled = 0 /\ orders'[Legs].qty = Shares
      BY <2>2, <2>3, <2>4 DEF Order
    <3> QED
      BY <3>1, OrdersConstants DEF ShapedOrder
  <2>6. Final(orders'[Entry])
    BY <1>3, <1>8, <2>3 DEF Final
  <2>7. \A j \in Ids : ShapedOrder(j, orders'[j])
    BY <1>6, <1>8, <2>3, <2>5 DEF Shaped
  <2>8. Shaped(orders)'
    BY <1>7, <1>8, <2>3, <2>6, <2>7 DEF Shaped
  <2> QED
    BY <1>4, <1>8, <2>3, <2>8 DEF Moves
<1>9. CASE ~(i = Entry /\ os[Entry].status = "filled" /\ os[Legs].status = "held")
  <2>1. orders' = os
    BY <1>5, <1>9
  <2>2. i = Legs => Final(orders[Entry])
    BY <1>1 DEF Shaped
  <2>3. \A j \in Ids : ShapedOrder(j, orders'[j])
    BY <1>3, <1>6, <2>1 DEF Shaped
  <2>4. CASE i = Entry
    <3>1. orders'[Legs] = orders[Legs] /\ orders'[Entry] = new
      BY <1>0, <1>3, <2>1, <2>4
    <3>2. Shaped(orders)'
      BY <1>4, <1>7, <2>3, <2>4, <3>1 DEF Shaped
    <3> QED
      BY <1>3, <1>4, <2>1, <2>4, <3>2 DEF Moves
  <2>5. CASE i # Entry
    <3>1. orders'[Entry] = orders[Entry] /\ (i # Legs => orders'[Legs] = orders[Legs])
      BY <1>0, <1>3, <2>1, <2>5
    <3>2. Shaped(orders)'
      BY <2>2, <2>3, <3>1 DEF Shaped
    <3> QED
      BY <1>3, <2>1, <3>1, <3>2 DEF Moves
  <2> QED
    BY <2>4, <2>5
<1> QED
  BY <1>8, <1>9

\* What is left of the legs of an entry that ends is shaped like an order.
LEMMA LegsLeftShaped ==
  ASSUME NEW entry \in Order, NEW legs \in Order, ShapedOrder(Legs, legs), legs.filled = 0,
         legs.status \in {"none", "held", "canceled"}, NEW left \in LegsLeft(entry, legs)
  PROVE  left \in Order /\ ShapedOrder(Legs, left) /\ left.filled = 0
<1>1. CASE left = legs
  BY <1>1
<1>2. CASE left = [legs EXCEPT !.status = "canceled"]
  <2>1. left \in Order /\ left.status = "canceled" /\ left.filled = 0 /\ left.qty = legs.qty
    BY <1>2 DEF Order, Statuses
  <2> QED
    BY <2>1 DEF ShapedOrder, Order
<1>3. CASE entry.filled # 0 /\ left = [legs EXCEPT !.status = "working", !.qty = entry.filled]
  <2>1. left \in Order /\ left.status = "working" /\ left.filled = 0 /\ left.qty = entry.filled
    BY <1>3 DEF Order, Statuses
  <2>2. 0 < left.qty
    BY <1>3, <2>1, OrdersConstants DEF Order
  <2>3. left.filled <= left.qty
    BY <2>1, <2>2, OrdersConstants DEF Order
  <2> QED
    BY <2>1, <2>2, <2>3 DEF ShapedOrder
<1> QED
  BY <1>1, <1>2, <1>3 DEF LegsLeft

\* An order ends, and with the entry its legs.
LEMMA StopsMove ==
  ASSUME OrdersTypeOK, Shaped(orders), NEW i \in Ids, NEW status \in {"canceled", "rejected"},
         Stops(i, status)
  PROVE  Moves
<1>0. Entry \in Ids /\ Legs \in Ids /\ Entry # Legs
  BY IdFacts
<1> DEFINE new == [orders[i] EXCEPT !.status = status]
           os == [orders EXCEPT ![i] = new]
<1>1. /\ orders[i] \in Order /\ orders[i].status \in {"working", "canceling"}
      /\ orders[i].filled < orders[i].qty /\ (status = "rejected" => orders[i].filled = 0)
  BY DEF OrdersTypeOK, Stops, Shaped, ShapedOrder
<1>2. new \in Order /\ new.status = status /\ new.filled = orders[i].filled /\ new.qty = orders[i].qty
  BY <1>1 DEF Order, Statuses
<1>3. ~Final(orders[i]) /\ Final(new)
  BY <1>1, <1>2 DEF Final
<1>4. ShapedOrder(i, new)
  BY <1>1, <1>2, OrdersConstants DEF ShapedOrder, Order
<1>5. i = Entry => new.qty = Shares
  BY <1>1, <1>2 DEF Shaped, Never
<1> HIDE DEF new
<1>6. os \in [Ids -> Order] /\ os[i] = new /\ \A j \in Ids \ {i} : os[j] = orders[j]
  BY <1>2 DEF OrdersTypeOK
<1>7. IF i = Entry
      THEN \E legs \in LegsLeft(os[Entry], os[Legs]) : orders' = [os EXCEPT ![Legs] = legs]
      ELSE orders' = os
  BY DEF Stops, new
<1> HIDE DEF os
<1>8. CASE i = Entry
  <2>1. PICK legs \in LegsLeft(os[Entry], os[Legs]) : orders' = [os EXCEPT ![Legs] = legs]
    BY <1>7, <1>8
  <2>2. /\ os[Legs] = orders[Legs] /\ orders[Legs] \in Order /\ ShapedOrder(Legs, orders[Legs])
        /\ orders[Legs].filled = 0 /\ orders[Legs].status \in {"none", "held", "canceled"}
    BY <1>0, <1>3, <1>6, <1>8 DEF Shaped, OrdersTypeOK
  <2>3. os[Entry] \in Order
    BY <1>0, <1>6
  <2>4. legs \in Order /\ ShapedOrder(Legs, legs)
    BY <2>1, <2>2, <2>3, LegsLeftShaped
  <2>5. /\ orders' \in [Ids -> Order] /\ orders'[Entry] = new /\ orders'[Legs] = legs
        /\ \A j \in Ids \ {Entry, Legs} : orders'[j] = orders[j]
    BY <1>0, <1>6, <1>8, <2>1, <2>4
  <2>6. \A j \in Ids : ShapedOrder(j, orders'[j])
    BY <1>4, <1>8, <2>4, <2>5 DEF Shaped
  <2>7. Shaped(orders)'
    BY <1>3, <1>5, <1>8, <2>5, <2>6 DEF Shaped
  <2> QED
    BY <1>3, <1>8, <2>5, <2>7 DEF Moves
<1>9. CASE i # Entry
  <2>1. orders' = os
    BY <1>7, <1>9
  <2>2. orders'[Entry] = orders[Entry] /\ (i # Legs => orders'[Legs] = orders[Legs])
    BY <1>0, <1>6, <1>9, <2>1
  <2>3. i = Legs => Final(orders[Entry])
    BY <1>1 DEF Shaped
  <2>4. \A j \in Ids : ShapedOrder(j, orders'[j])
    BY <1>4, <1>6, <2>1 DEF Shaped
  <2>5. Shaped(orders)'
    BY <2>2, <2>3, <2>4 DEF Shaped
  <2> QED
    BY <1>6, <2>1, <2>2, <2>5 DEF Moves
<1> QED
  BY <1>8, <1>9

\* At the close what still works expires; nothing else moves with time.
LEMMA TimeMoves ==
  ASSUME OrdersTypeOK, Shaped(orders), TimePasses
  PROVE  Moves
<1>0. Entry \in Ids /\ Legs \in Ids /\ Entry # Legs
  BY IdFacts
<1>1. CASE UNCHANGED orders
  BY <1>1 DEF Moves, OrdersTypeOK
<1>2. CASE orders' = [i \in Ids |-> IF Working(orders[i]) THEN [orders[i] EXCEPT !.status = "canceled"]
                                   ELSE orders[i]]
  <2>1. ASSUME NEW i \in Ids
        PROVE  /\ orders'[i] \in Order /\ ShapedOrder(i, orders'[i])
               /\ orders'[i].qty = orders[i].qty /\ orders'[i].filled = orders[i].filled
               /\ orders'[i].status \in {orders[i].status, "canceled"}
               /\ (Final(orders[i]) => orders'[i] = orders[i])
    <3>1. orders[i] \in Order /\ ShapedOrder(i, orders[i])
      BY DEF OrdersTypeOK, Shaped
    <3>2. CASE Working(orders[i])
      <4>1. orders'[i] = [orders[i] EXCEPT !.status = "canceled"]
        BY <1>2, <3>2
      <4>2. /\ orders'[i] \in Order /\ orders'[i].status = "canceled"
            /\ orders'[i].filled = orders[i].filled /\ orders'[i].qty = orders[i].qty
        BY <3>1, <4>1 DEF Order, Statuses
      <4>3. ShapedOrder(i, orders'[i])
        BY <3>1, <4>2 DEF ShapedOrder
      <4> QED
        BY <3>2, <4>2, <4>3 DEF Working, Final
    <3>3. CASE ~Working(orders[i])
      BY <1>2, <3>1, <3>3
    <3> QED
      BY <3>2, <3>3
  <2>2. orders' \in [Ids -> Order]
    BY <1>2, <2>1
  <2>3. orders'[Entry] # Never => orders'[Entry].qty = Shares
    <3>1. orders[Entry] = Never => orders'[Entry] = Never
      BY <1>0, <1>2 DEF Never, Working
    <3> QED
      BY <1>0, <2>1, <3>1 DEF Shaped
  <2>4. ~Final(orders'[Entry]) => orders'[Legs].status \in {"none", "held", "canceled"} /\ orders'[Legs].filled = 0
    <3>1. ~Final(orders'[Entry]) => ~Final(orders[Entry])
      BY <1>0, <2>1
    <3> QED
      BY <1>0, <2>1, <3>1 DEF Shaped
  <2>5. Final(orders[Entry]) => orders'[Entry] = orders[Entry]
    BY <1>0, <2>1
  <2> QED
    BY <2>1, <2>2, <2>3, <2>4, <2>5 DEF Moves, Shaped
<1> QED
  BY <1>1, <1>2 DEF TimePasses

\* A step of one job leaves the other as honest as it was.
LEMMA JobStep ==
  ASSUME EntryInv, NEW r \in Runners, NEW step \in Steps, NEW l \in Locals,
         pc' = [pc EXCEPT ![r] = step], local' = [local EXCEPT ![r] = l],
         Moves, row.state = "submitted",
         row' \in Rows, row'.state = "submitted", row'.checked => Final(orders[Entry]),
         Honest(r, step, l)',
         phase' \in Phases \cup {"closing"}, actual' = actual, overlaps' \in 0..MaxOverlaps,
         mishaps' \in 0..MaxMishaps
  PROVE  EntryInv'
<1>1. OrdersTypeOK'
  BY DEF EntryInv, OrdersTypeOK, Moves
<1>2. Shaped(orders)'
  BY DEF Moves
<1>3. Final(orders[Entry]) => Final(orders'[Entry])
  BY DEF Moves
<1>4. JobsHonest'
  <2> SUFFICES ASSUME NEW q \in Runners PROVE Honest(q, pc[q], local[q])'
    BY DEF JobsHonest
  <2>1. CASE q = r
    <3>1. pc'[q] = step /\ local'[q] = l
      BY <2>1 DEF EntryInv, OrdersTypeOK
    <3> QED
      BY <2>1, <3>1 DEF Honest
  <2>2. CASE q # r
    <3>1. pc'[q] = pc[q] /\ local'[q] = local[q]
      BY <2>2 DEF EntryInv, OrdersTypeOK
    <3>2. Honest(q, pc[q], local[q])
      BY DEF EntryInv, JobsHonest
    <3> QED
      BY <1>3, <3>1, <3>2 DEF Honest
  <2> QED
    BY <2>1, <2>2
<1>5. RowTrue'
  BY <1>3 DEF RowTrue
<1> QED
  BY <1>1, <1>2, <1>4, <1>5 DEF EntryInv

\* A forecast that no job has looked at.
LEMMA FreshTyped ==
  /\ Never \in Order /\ Unread \in [Ids -> Order] /\ NoRow \in Rows /\ Fresh \in Locals
<1>1. Never \in Order
  BY OrdersConstants DEF Never, Order, Statuses
<1>2. Unread \in [Ids -> Order]
  BY <1>1 DEF Unread
<1>3. NoRow \in Rows
  BY OrdersConstants DEF NoRow, Rows
<1>4. Fresh \in Locals
  BY <1>2, <1>3, OrdersConstants DEF Fresh, Locals
<1> QED
  BY <1>1, <1>2, <1>3, <1>4

\* A job that leaves the forecast writes nothing, or a row that is true.
LEMMA Finishes ==
  ASSUME EntryInv, NEW r \in Runners, EndsPass(r), Moves, row.state = "submitted",
         row' \in Rows, row'.state = "submitted", row'.checked => Final(orders[Entry]),
         UNCHANGED <<phase, actual, overlaps>>, mishaps' \in 0..MaxMishaps
  PROVE  EntryInv'
<1>1. "idle" \in Steps /\ Fresh \in Locals
  BY FreshTyped DEF Steps
<1>2. pc' = [pc EXCEPT ![r] = "idle"] /\ local' = [local EXCEPT ![r] = Fresh]
  BY DEF EndsPass, GoesTo
<1>3. Honest(r, "idle", Fresh)'
  BY DEF Honest, Fresh, NoRow, CheckSteps, ExitSteps, AfterEntry
<1>4. phase' \in Phases \cup {"closing"} /\ overlaps' \in 0..MaxOverlaps
  BY DEF EntryInv, OrdersTypeOK
<1> QED
  BY <1>1, <1>2, <1>3, <1>4, JobStep

\* What a job that is at work may rely on.
LEMMA AtWork ==
  ASSUME EntryInv, NEW r \in Runners, pc[r] \in CheckSteps \cup ExitSteps
  PROVE  /\ row.state = "submitted" /\ row \in Rows /\ local[r] \in Locals
         /\ local[r].rec \in Rows /\ local[r].rec.state = "submitted"
         /\ local[r].rec.checked => Final(orders[Entry])
         /\ row.checked => Final(orders[Entry])
         /\ pc[r] \in AfterEntry => Final(orders[Entry])
<1>1. Honest(r, pc[r], local[r])
  BY DEF EntryInv, JobsHonest
<1>2. row \in Rows /\ local[r] \in Locals
  BY DEF EntryInv, OrdersTypeOK
<1>3. local[r].rec \in Rows
  BY <1>2 DEF Locals
<1> QED
  BY <1>1, <1>2, <1>3 DEF Honest, EntryInv, RowTrue

\* A pass that is left open, done, or has failed (save, cancel_unfilled_entries).
LEMMA PassEnds ==
  ASSUME EntryInv, NEW r \in Runners, pc[r] \in CheckSteps \cup ExitSteps, Moves,
         LeftOpen(r) \/ Alarm(r) \/ (Checked(r) /\ Final(orders[Entry])),
         UNCHANGED <<phase, actual, overlaps>>, mishaps' \in 0..MaxMishaps
  PROVE  EntryInv'
<1> DEFINE rec == local[r].rec
<1>1. /\ row.state = "submitted" /\ row \in Rows /\ rec \in Rows /\ rec.state = "submitted"
      /\ rec.checked => Final(orders[Entry])
      /\ row.checked => Final(orders[Entry])
  BY AtWork
<1>2. CASE UNCHANGED row /\ EndsPass(r)
  BY <1>1, <1>2, Finishes
<1>3. CASE Alarm(r)
  <2>1. row' = [rec EXCEPT !.unprotected = TRUE] /\ EndsPass(r)
    BY <1>3 DEF Alarm, Saves
  <2>2. row' \in Rows /\ row'.state = "submitted" /\ row'.checked = rec.checked
    BY <1>1, <2>1 DEF Rows
  <2> QED
    BY <1>1, <2>1, <2>2, Finishes
<1>4. CASE Checked(r) /\ Final(orders[Entry])
  <2>1. row' = [rec EXCEPT !.checked = TRUE] /\ EndsPass(r)
    BY <1>4 DEF Checked, Saves
  <2>2. row' \in Rows /\ row'.state = "submitted"
    BY <1>1, <2>1 DEF Rows
  <2> QED
    BY <1>1, <1>4, <2>1, <2>2, Finishes
<1> QED
  BY <1>2, <1>3, <1>4 DEF LeftOpen

\* No move at all.
LEMMA Still ==
  ASSUME EntryInv, UNCHANGED orders PROVE Moves
BY DEF EntryInv, OrdersTypeOK, Moves

\* A read of what the row knows (_snapshot).
LEMMA SeesStep ==
  ASSUME EntryInv, NEW r \in Runners, pc[r] \in CheckSteps \cup ExitSteps,
         NEW step \in {"judge", "cancel entry", "protect", "x sell", "x cancel"}, Sees(r, step),
         step \in {"judge", "protect"} => Final(orders[Entry]),
         r = "guard" => step \in CheckSteps,
         UNCHANGED <<phase, orders, actual, overlaps>>
  PROVE  EntryInv'
<1>1. PICK l \in Locals :
        l = [local[r] EXCEPT !.snap = [i \in Ids |-> IF i \in Known(local[r].rec) THEN orders[i] ELSE Never]]
  <2> DEFINE seen == [i \in Ids |-> IF i \in Known(local[r].rec) THEN orders[i] ELSE Never]
  <2>1. seen \in [Ids -> Order]
    BY FreshTyped DEF EntryInv, OrdersTypeOK
  <2> HIDE DEF seen
  <2>2. [local[r] EXCEPT !.snap = seen] \in Locals
    BY <2>1, AtWork DEF Locals
  <2> QED
    BY <2>2 DEF seen
<1>2. l.rec = local[r].rec
  BY <1>1, AtWork DEF Locals
<1>3. step \in Steps /\ step \in CheckSteps \cup ExitSteps
  BY DEF Steps, CheckSteps, ExitSteps
<1>4. row' = row /\ mishaps' \in 0..MaxMishaps
  BY DEF Sees, NoMishap, EntryInv, OrdersTypeOK
<1>5. pc' = [pc EXCEPT ![r] = step] /\ local' = [local EXCEPT ![r] = l]
  BY <1>1 DEF Sees, GoesTo
<1>6. Honest(r, step, l)'
  <2>1. l.rec.state = "submitted" /\ row.state = "submitted" /\ (l.rec.checked => Final(orders[Entry]))
    BY <1>2, AtWork
  <2>2. step \notin {"post px", "confirm px", "post pf", "confirm pf", "x post", "x close", "post entry", "look up entry"}
    OBVIOUS
  <2>3. step \in AfterEntry => step \in {"judge", "protect"}
    BY DEF AfterEntry
  <2>4. r = "guard" => step \in CheckSteps \cup {"idle"}
    OBVIOUS
  <2> QED
    BY <1>3, <1>4, <2>1, <2>2, <2>3, <2>4 DEF Honest
<1>7. phase' \in Phases \cup {"closing"} /\ overlaps' \in 0..MaxOverlaps
  BY DEF EntryInv, OrdersTypeOK
<1>8. row.state = "submitted" /\ row \in Rows /\ (row.checked => Final(orders[Entry]))
  BY AtWork
<1>9. Moves
  BY Still
<1> QED
  BY <1>3, <1>4, <1>5, <1>6, <1>7, <1>8, <1>9, JobStep

\* A read that fails.
LEMMA CannotSeeStep ==
  ASSUME EntryInv, NEW r \in Runners, pc[r] \in CheckSteps \cup ExitSteps, CannotSee(r),
         UNCHANGED <<phase, orders, actual, overlaps>>
  PROVE  EntryInv'
<1>1. Mishap /\ LeftOpen(r)
  BY DEF CannotSee
<1>2. mishaps' \in 0..MaxMishaps
  BY <1>1, MishapTyped DEF EntryInv
<1> QED
  BY <1>1, <1>2, Still, PassEnds

\* A step to the next one, without a change of what the job holds.
LEMMA GoesOn ==
  ASSUME EntryInv, NEW r \in Runners, pc[r] \in CheckSteps \cup ExitSteps, Moves,
         NEW step \in Steps, GoesTo(r, step), UNCHANGED local, Honest(r, step, local[r])',
         row' = row \/ row' = local[r].rec,
         UNCHANGED <<phase, actual, overlaps>>, mishaps' \in 0..MaxMishaps
  PROVE  EntryInv'
<1>1. PICK l \in Locals : l = local[r]
  BY AtWork
<1>2. local' = [local EXCEPT ![r] = l] /\ pc' = [pc EXCEPT ![r] = step]
  <2>1. local \in [Runners -> Locals]
    BY DEF EntryInv, OrdersTypeOK
  <2>2. [local EXCEPT ![r] = l] = local
    BY <1>1, <2>1
  <2> QED
    BY <2>2 DEF GoesTo
<1>3. phase' \in Phases \cup {"closing"} /\ overlaps' \in 0..MaxOverlaps
  BY DEF EntryInv, OrdersTypeOK
<1>4. /\ row.state = "submitted" /\ row' \in Rows /\ row'.state = "submitted"
      /\ row'.checked => Final(orders[Entry])
  BY AtWork
<1>5. Honest(r, step, l)'
  BY <1>1 DEF Honest
<1> QED
  BY <1>2, <1>3, <1>4, <1>5, JobStep

\* The ids are finitely many, and with them the shares that are counted.
LEMMA IdsFinite ==
  /\ IsFiniteSet(Ids) /\ IsFiniteSet(Ids \X (1..Shares))
  /\ \A rec \in Rows : Known(rec) \subseteq Ids
<1>1. IsFiniteSet(1..MaxTries) /\ IsFiniteSet(1..MaxSells) /\ IsFiniteSet(1..Shares)
  BY OrdersConstants, FS_Interval
<1>2. IsFiniteSet(Protect) /\ IsFiniteSet(Flatten) /\ IsFiniteSet(TimeExit)
  <2>1. IsFiniteSet({"px"}) /\ IsFiniteSet({"pf"}) /\ IsFiniteSet({"tx"})
    BY FS_Singleton
  <2> QED
    BY <1>1, <2>1, FS_Product DEF Protect, Flatten, TimeExit
<1>3. IsFiniteSet({Entry}) /\ IsFiniteSet({Legs}) /\ IsFiniteSet({Close})
  BY FS_Singleton
<1>4. IsFiniteSet(Ids)
  <2>1. Ids = ((({Entry} \cup {Legs}) \cup {Close}) \cup Protect) \cup (Flatten \cup TimeExit)
    BY DEF Ids, ExitIds
  <2>2. IsFiniteSet({Entry} \cup {Legs})
    BY <1>3, FS_Union
  <2>3. IsFiniteSet(({Entry} \cup {Legs}) \cup {Close})
    BY <1>3, <2>2, FS_Union
  <2>4. IsFiniteSet((({Entry} \cup {Legs}) \cup {Close}) \cup Protect)
    BY <1>2, <2>3, FS_Union
  <2>5. IsFiniteSet(Flatten \cup TimeExit)
    BY <1>2, FS_Union
  <2> QED
    BY <2>1, <2>4, <2>5, FS_Union
<1>5. ASSUME NEW rec \in Rows PROVE Known(rec) \subseteq Ids
  <2>1. rec.px \in 0..MaxTries /\ rec.pf \in 0..MaxTries
    BY DEF Rows
  <2>2. 1..rec.px \subseteq 1..MaxTries /\ 1..rec.pf \subseteq 1..MaxTries
    BY <2>1, OrdersConstants
  <2>3. {"px"} \X (1..rec.px) \subseteq Protect /\ {"pf"} \X (1..rec.pf) \subseteq Flatten
    BY <2>2 DEF Protect, Flatten
  <2> QED
    BY <2>3 DEF Known, Ids, ExitIds
<1> QED
  BY <1>1, <1>4, <1>5, FS_Product

\* What has traded of some orders is a number.
LEMMA FilledTyped ==
  ASSUME NEW os, NEW ids \in SUBSET Ids
  PROVE  FilledOf(os, ids) \in Nat
<1> DEFINE traded == {share \in ids \X (1..Shares) : share[2] <= os[share[1]].filled}
<1>1. traded \subseteq Ids \X (1..Shares)
  OBVIOUS
<1> HIDE DEF traded
<1>2. IsFiniteSet(traded)
  BY <1>1, IdsFinite, FS_Subset
<1>3. Cardinality(traded) \in Nat
  BY <1>2, FS_CardinalityType
<1> QED
  BY <1>3 DEF FilledOf, traded

\* The shares left to protect or to sell are some of those that the entry bought.
LEMMA OwnedTyped ==
  ASSUME NEW s \in [Ids -> Order], NEW rec \in Rows
  PROVE  /\ Bought(s) - SoldBy(s, rec) \in Int
         /\ Bought(s) - SoldBy(s, rec) > 0 => Bought(s) - SoldBy(s, rec) \in 1..Shares
<1>1. Bought(s) \in 0..Shares
  BY IdFacts DEF Bought, Order
<1>2. SoldBy(s, rec) \in Nat
  <2>1. Known(rec) \ {Entry} \in SUBSET Ids
    BY IdsFinite
  <2> QED
    BY <2>1, FilledTyped DEF SoldBy
<1> QED
  BY <1>1, <1>2, OrdersConstants

\* A flatten is recorded before it is posted (_flatten).
LEMMA FlattenStep ==
  ASSUME EntryInv, NEW r \in Runners, pc[r] \in AfterEntry, Moves,
         NEW rec \in Rows, rec.state = "submitted", rec.checked => Final(orders[Entry]),
         NEW owned \in 1..Shares, StartFlatten(r, rec, owned),
         UNCHANGED <<phase, actual, overlaps>>, mishaps' \in 0..MaxMishaps
  PROVE  EntryInv'
<1>1. pc[r] \in CheckSteps \cup ExitSteps
  BY DEF AfterEntry, CheckSteps
<1>2. row.state = "submitted" /\ Final(orders[Entry]) /\ local[r] \in Locals
  BY <1>1, AtWork
<1>3. CASE FlattensSpent(rec)
  <2>1. row' = [rec EXCEPT !.unprotected = TRUE] /\ EndsPass(r)
    BY <1>3 DEF StartFlatten, Saves
  <2>2. row' \in Rows /\ row'.state = "submitted"
    BY <2>1 DEF Rows
  <2> QED
    BY <1>2, <2>1, <2>2, Finishes
<1>4. CASE ~FlattensSpent(rec)
  <2>1. PICK next \in Rows : next = [rec EXCEPT !.pf = @ + 1]
    <3>1. rec.pf \in 0..MaxTries /\ ~(rec.pf >= MaxTries)
      BY <1>4 DEF FlattensSpent, Rows
    <3>2. rec.pf + 1 \in 0..MaxTries
      BY <3>1, OrdersConstants
    <3> QED
      BY <3>2 DEF Rows
  <2>2. next.state = "submitted" /\ next.pf # 0
    BY <2>1 DEF Rows
  <2>3. PICK l \in Locals : l = [local[r] EXCEPT !.rec = next, !.owned = owned]
    <3>1. owned \in 0..Shares
      OBVIOUS
    <3> QED
      BY <1>2, <3>1 DEF Locals
  <2>4. l.rec = next /\ l.owned = owned
    BY <1>2, <2>3 DEF Locals
  <2>5. row' = next /\ pc' = [pc EXCEPT ![r] = "post pf"] /\ local' = [local EXCEPT ![r] = l]
    BY <1>4, <2>1, <2>3 DEF StartFlatten, Saves, GoesTo
  <2>6. Final(orders'[Entry])
    BY <1>2 DEF Moves
  <2>7. Honest(r, "post pf", l)'
    <3>1. owned # 0
      BY OrdersConstants
    <3>2. row'.state = "submitted"
      BY <2>2, <2>5
    <3>3. "post pf" \in CheckSteps \ {"post px", "confirm px", "x post", "post entry", "look up entry"}
      BY DEF CheckSteps
    <3> QED
      BY <2>2, <2>4, <2>6, <3>1, <3>2, <3>3 DEF Honest
  <2>8. "post pf" \in Steps
    BY DEF Steps
  <2>9. phase' \in Phases \cup {"closing"} /\ overlaps' \in 0..MaxOverlaps
    BY DEF EntryInv, OrdersTypeOK
  <2> QED
    BY <1>2, <2>2, <2>5, <2>7, <2>8, <2>9, JobStep
<1> QED
  BY <1>3, <1>4

\* A deadline check starts with a copy of the row (cancel_unfilled_entries).
LEMMA StartCheckEntry ==
  ASSUME EntryInv, NEW r \in Runners, StartCheck(r) PROVE EntryInv'
<1>1. row \in Rows /\ row.state = "submitted" /\ (row.checked => Final(orders[Entry])) /\ local[r] \in Locals
  BY DEF EntryInv, OrdersTypeOK, RowTrue, StartCheck
<1>2. PICK l \in Locals : l = [local[r] EXCEPT !.rec = row]
  BY <1>1 DEF Locals
<1>3. l.rec = row
  BY <1>1, <1>2 DEF Locals
<1>4. row' = row /\ pc' = [pc EXCEPT ![r] = "read"] /\ local' = [local EXCEPT ![r] = l] /\ orders' = orders
  BY <1>2 DEF StartCheck, GoesTo
<1>5. Honest(r, "read", l)'
  BY <1>1, <1>3, <1>4 DEF Honest, CheckSteps, ExitSteps, AfterEntry
<1>6. "read" \in Steps /\ Moves
  BY <1>4, Still DEF Steps
<1>7. /\ phase' \in Phases \cup {"closing"} /\ overlaps' \in 0..MaxOverlaps /\ actual' = actual
      /\ mishaps' \in 0..MaxMishaps
  BY OrdersConstants DEF EntryInv, OrdersTypeOK, StartCheck, Comes
<1> QED
  BY <1>1, <1>4, <1>5, <1>6, <1>7, JobStep

\* The calls that a deadline check makes before it knows that the entry has ended.
LEMMA ReadEntry ==
  ASSUME EntryInv, NEW r \in Runners, Read(r) PROVE EntryInv'
<1>1. pc[r] \in CheckSteps \cup ExitSteps /\ UNCHANGED <<phase, orders, actual, overlaps>>
  BY DEF Read, CheckSteps
<1>2. CASE CannotSee(r)
  BY <1>1, <1>2, CannotSeeStep
<1>3. CASE Final(orders[Entry]) /\ Sees(r, "judge")
  BY <1>1, <1>3, SeesStep DEF CheckSteps
<1>4. CASE Sees(r, "cancel entry")
  BY <1>1, <1>4, SeesStep DEF CheckSteps
<1> QED
  BY <1>2, <1>3, <1>4 DEF Read

\* The entry is asked to end, and the request recorded.
LEMMA CancelEntryEntry ==
  ASSUME EntryInv, NEW r \in Runners, CancelEntry(r) PROVE EntryInv'
<1>1. pc[r] \in CheckSteps \cup ExitSteps
  BY DEF CancelEntry, CheckSteps
<1>2. Moves
  BY Still, CancelsMove DEF CancelEntry, EntryInv
<1>3. mishaps' \in 0..MaxMishaps
  <2>1. Mishap \/ NoMishap
    BY DEF CancelEntry, Cancels
  <2> QED
    BY <2>1, MishapTyped DEF EntryInv
<1>4. row' = local[r].rec /\ local' = local /\ UNCHANGED <<phase, actual, overlaps>> /\ GoesTo(r, "reread")
  BY DEF CancelEntry, Saves
<1>5. Honest(r, "reread", local[r])'
  <2>1. local[r].rec.state = "submitted" /\ (local[r].rec.checked => Final(orders[Entry]))
    BY <1>1, AtWork
  <2>2. Final(orders[Entry]) => Final(orders'[Entry])
    BY <1>2 DEF Moves
  <2> QED
    BY <1>4, <2>1, <2>2 DEF Honest, CheckSteps, ExitSteps, AfterEntry
<1>6. "reread" \in Steps
  BY DEF Steps
<1> QED
  BY <1>1, <1>2, <1>3, <1>4, <1>5, <1>6, GoesOn

\* The entry is judged from a fresh read.
LEMMA RereadEntry ==
  ASSUME EntryInv, NEW r \in Runners, Reread(r) PROVE EntryInv'
<1>1. pc[r] \in CheckSteps \cup ExitSteps /\ UNCHANGED <<phase, orders, actual, overlaps>>
  BY DEF Reread, CheckSteps
<1>2. CASE CannotSee(r)
  BY <1>1, <1>2, CannotSeeStep
<1>3. CASE Final(orders[Entry]) /\ Sees(r, "judge")
  BY <1>1, <1>3, SeesStep DEF CheckSteps
<1>4. CASE LeftOpen(r) /\ NoMishap
  <2>1. mishaps' \in 0..MaxMishaps
    BY <1>4, MishapTyped DEF EntryInv
  <2> QED
    BY <1>1, <1>4, <2>1, Still, PassEnds
<1> QED
  BY <1>2, <1>3, <1>4 DEF Reread, Ended

\* What a deadline check makes of an entry that has ended.
LEMMA JudgeEntry ==
  ASSUME EntryInv, NEW r \in Runners, Judge(r) PROVE EntryInv'
<1>1. pc[r] \in CheckSteps \cup ExitSteps /\ pc[r] \in AfterEntry /\ UNCHANGED <<phase, orders, actual, overlaps>>
  BY DEF Judge, CheckSteps, AfterEntry
<1>2. mishaps' \in 0..MaxMishaps
  BY DEF Judge, EntryInv, OrdersTypeOK
<1>3. Final(orders[Entry]) /\ Moves
  BY <1>1, AtWork, Still
<1>4. CASE Checked(r)
  BY <1>1, <1>2, <1>3, <1>4, PassEnds
<1>5. ASSUME NEW step \in {"cancel legs", "protect"}, GoesTo(r, step), UNCHANGED <<row, local>>
      PROVE  EntryInv'
  <2>1. step \in Steps
    BY DEF Steps
  <2>2. Honest(r, step, local[r])'
    <3>1. local[r].rec.state = "submitted" /\ row.state = "submitted"
      BY <1>1, AtWork
    <3>2. /\ step \in CheckSteps
          /\ step \notin {"post px", "confirm px", "post pf", "confirm pf", "x post", "x close", "post entry", "look up entry"}
      BY DEF CheckSteps
    <3>3. Final(orders'[Entry])
      BY <1>1, <1>3
    <3> QED
      BY <1>5, <3>1, <3>2, <3>3 DEF Honest
  <2> QED
    BY <1>1, <1>2, <1>3, <1>5, <2>1, <2>2, GoesOn
<1> QED
  BY <1>4, <1>5 DEF Judge

\* The legs are asked to end (_cancel_all).
LEMMA CancelLegsEntry ==
  ASSUME EntryInv, NEW r \in Runners, CancelLegs(r) PROVE EntryInv'
<1>1. pc[r] \in CheckSteps \cup ExitSteps /\ pc[r] \in AfterEntry
  BY DEF CancelLegs, CheckSteps, AfterEntry
<1>2. Moves
  BY CancelsMove DEF CancelLegs, EntryInv
<1>3. mishaps' \in 0..MaxMishaps
  <2>1. Mishap \/ NoMishap
    BY DEF CancelLegs, Cancels
  <2> QED
    BY <2>1, MishapTyped DEF EntryInv
<1>4. UNCHANGED <<phase, row, actual, local, overlaps>> /\ GoesTo(r, "reread legs")
  BY DEF CancelLegs
<1>5. Honest(r, "reread legs", local[r])'
  <2>1. local[r].rec.state = "submitted" /\ row.state = "submitted"
    BY <1>1, AtWork
  <2>2. Final(orders'[Entry])
    BY <1>1, <1>2, AtWork DEF Moves
  <2>3. "reread legs" \in CheckSteps
    BY DEF CheckSteps
  <2> QED
    BY <1>4, <2>1, <2>2, <2>3 DEF Honest
<1>6. "reread legs" \in Steps
  BY DEF Steps
<1> QED
  BY <1>1, <1>2, <1>3, <1>4, <1>5, <1>6, GoesOn

\* The legs are judged from a fresh read.
LEMMA RereadLegsEntry ==
  ASSUME EntryInv, NEW r \in Runners, RereadLegs(r) PROVE EntryInv'
<1>1. /\ pc[r] \in CheckSteps \cup ExitSteps /\ pc[r] \in AfterEntry
      /\ UNCHANGED <<phase, orders, actual, overlaps>>
  BY DEF RereadLegs, CheckSteps, AfterEntry
<1>2. CASE CannotSee(r)
  BY <1>1, <1>2, CannotSeeStep
<1>3. CASE Sees(r, "protect")
  <2>1. Final(orders[Entry])
    BY <1>1, AtWork
  <2> QED
    BY <1>1, <1>3, <2>1, SeesStep DEF CheckSteps
<1>4. CASE LeftOpen(r) /\ NoMishap
  <2>1. mishaps' \in 0..MaxMishaps
    BY <1>4, MishapTyped DEF EntryInv
  <2> QED
    BY <1>1, <1>4, <2>1, Still, PassEnds
<1> QED
  BY <1>2, <1>3, <1>4 DEF RereadLegs

\* A part is protected, or flattened, or left to the next pass.
LEMMA ProtectPartEntry ==
  ASSUME EntryInv, NEW r \in Runners, ProtectPart(r) PROVE EntryInv'
<1> DEFINE l == local[r]
           owned == Bought(l.snap) - SoldBy(l.snap, l.rec)
<1>1. /\ pc[r] \in CheckSteps \cup ExitSteps /\ pc[r] \in AfterEntry
      /\ UNCHANGED <<phase, actual, overlaps>>
  BY DEF ProtectPart, CheckSteps, AfterEntry
<1>2. /\ Final(orders[Entry]) /\ l.rec \in Rows /\ l.snap \in [Ids -> Order] /\ l \in Locals
      /\ l.rec.state = "submitted" /\ row.state = "submitted"
  BY <1>1, AtWork DEF Locals
<1>3. Mishap \/ NoMishap
  BY DEF ProtectPart, Cancels
<1>4. mishaps' \in 0..MaxMishaps
  BY <1>3, MishapTyped DEF EntryInv
<1>5. Moves
  <2>1. UNCHANGED orders \/ \E live : Cancels(live)
    BY DEF ProtectPart
  <2> QED
    BY <2>1, Still, CancelsMove DEF EntryInv
<1>6. CASE Alarm(r) \/ Checked(r) \/ LeftOpen(r)
  BY <1>1, <1>2, <1>4, <1>5, <1>6, PassEnds
<1>7. CASE /\ owned > 0 /\ l.rec.px < MaxTries
           /\ Saves(r, ProtectRecord(l.rec))
           /\ local' = [local EXCEPT ![r].rec = [l.rec EXCEPT !.px = @ + 1], ![r].owned = owned]
           /\ GoesTo(r, "post px")
  <2>1. PICK next \in Rows : next = [l.rec EXCEPT !.px = @ + 1]
    <3>1. l.rec.px \in 0..MaxTries /\ l.rec.px < MaxTries
      BY <1>2, <1>7 DEF Rows
    <3>2. l.rec.px + 1 \in 0..MaxTries
      BY <3>1, OrdersConstants
    <3> QED
      BY <1>2, <3>2 DEF Rows
  <2>2. next.state = "submitted" /\ next.px # 0 /\ next.checked = l.rec.checked
    BY <1>2, <2>1 DEF Rows
  <2>3. owned \in 1..Shares
    BY <1>2, <1>7, OwnedTyped
  <2> HIDE DEF owned
  <2>4. PICK m \in Locals : m = [local[r] EXCEPT !.rec = next, !.owned = owned]
    <3>1. owned \in 0..Shares
      BY <2>3, OrdersConstants
    <3> QED
      BY <1>2, <3>1 DEF Locals
  <2>5. m.rec = next /\ m.owned = owned
    BY <1>2, <2>4 DEF Locals
  <2>6. row' = next /\ pc' = [pc EXCEPT ![r] = "post px"] /\ local' = [local EXCEPT ![r] = m]
    BY <1>7, <2>1, <2>4 DEF ProtectRecord, Saves, GoesTo
  <2>7. Honest(r, "post px", m)'
    <3>1. owned # 0
      BY <2>3, OrdersConstants
    <3>2. row'.state = "submitted"
      BY <2>2, <2>6
    <3>3. "post px" \in CheckSteps \ {"post pf", "confirm pf", "x post", "post entry", "look up entry"}
      BY DEF CheckSteps
    <3>4. Final(orders'[Entry])
      BY <1>2, <1>5 DEF Moves
    <3> QED
      BY <2>2, <2>5, <3>1, <3>2, <3>3, <3>4 DEF Honest
  <2>8. "post px" \in Steps
    BY DEF Steps
  <2>9. phase' \in Phases \cup {"closing"} /\ overlaps' \in 0..MaxOverlaps
    BY <1>1 DEF EntryInv, OrdersTypeOK
  <2> QED
    BY <1>1, <1>2, <1>4, <1>5, <2>2, <2>6, <2>7, <2>8, <2>9, JobStep
<1>8. CASE owned > 0 /\ StartFlatten(r, l.rec, owned)
  <2>1. owned \in 1..Shares
    BY <1>2, <1>8, OwnedTyped
  <2> HIDE DEF owned
  <2> QED
    BY <1>1, <1>2, <1>4, <1>5, <1>8, <2>1, FlattenStep
<1>9. Alarm(r) \/ Checked(r) \/ LeftOpen(r)
        \/ (/\ owned > 0 /\ l.rec.px < MaxTries
            /\ Saves(r, ProtectRecord(l.rec))
            /\ local' = [local EXCEPT ![r].rec = [l.rec EXCEPT !.px = @ + 1], ![r].owned = owned]
            /\ GoesTo(r, "post px"))
        \/ (owned > 0 /\ StartFlatten(r, l.rec, owned))
  BY DEF ProtectPart
<1> HIDE DEF owned
<1> QED
  BY <1>6, <1>7, <1>8, <1>9

\* What a post and its answer leave (the faults).
LEMMA PostsTyped ==
  ASSUME EntryInv, NEW id, NEW qty, NEW answer, Posts(id, qty, answer)
  PROVE  mishaps' \in 0..MaxMishaps
<1>1. Mishap \/ NoMishap
  BY DEF Posts
<1> QED
  BY <1>1, MishapTyped DEF EntryInv

\* A protective exit is posted for what is owned, or refused and flattened.
LEMMA PostProtectEntry ==
  ASSUME EntryInv, NEW r \in Runners, PostProtect(r) PROVE EntryInv'
<1> DEFINE l == local[r]
<1>1. /\ pc[r] = "post px" /\ pc[r] \in CheckSteps \cup ExitSteps /\ pc[r] \in AfterEntry
      /\ UNCHANGED <<phase, actual, overlaps>>
  BY DEF PostProtect, CheckSteps, AfterEntry
<1>2. /\ Final(orders[Entry]) /\ l.rec \in Rows /\ l \in Locals
      /\ l.rec.state = "submitted" /\ row.state = "submitted"
  BY <1>1, AtWork
<1>3. l.rec.px \in 1..MaxTries /\ l.owned \in 1..Shares
  <2>1. l.rec.px # 0 /\ l.owned # 0
    BY <1>1 DEF EntryInv, JobsHonest, Honest
  <2> QED
    BY <1>2, <2>1, OrdersConstants DEF Rows, Locals
<1>4. PICK answer \in {"accepted", "transient", "refused"} :
        /\ Posts(<<"px", l.rec.px>>, l.owned, answer)
        /\ IF answer = "refused"
           THEN StartFlatten(r, [l.rec EXCEPT !.refused = TRUE], l.owned)
           ELSE GoesTo(r, "confirm px") /\ UNCHANGED <<row, local>>
  BY DEF PostProtect
<1>5. Moves
  <2>1. <<"px", l.rec.px>> \in Ids \ {Legs} /\ <<"px", l.rec.px>> # Entry
    BY <1>3, IdFacts
  <2> QED
    BY <1>3, <1>4, <2>1, PostsMove DEF EntryInv
<1>6. mishaps' \in 0..MaxMishaps
  BY <1>4, PostsTyped
<1>7. CASE answer = "refused"
  <2>1. PICK rec \in Rows : rec = [l.rec EXCEPT !.refused = TRUE]
    BY <1>2 DEF Rows
  <2>2. rec.state = "submitted"
    BY <1>2, <2>1 DEF Rows
  <2>3. StartFlatten(r, rec, l.owned)
    BY <1>4, <1>7, <2>1
  <2>4. PICK owned \in 1..Shares : owned = l.owned
    BY <1>3
  <2> QED
    BY <1>1, <1>2, <1>5, <1>6, <2>2, <2>3, <2>4, FlattenStep
<1>8. CASE GoesTo(r, "confirm px") /\ UNCHANGED <<row, local>>
  <2>1. Honest(r, "confirm px", local[r])'
    <3>1. l.rec.px # 0 /\ l.owned # 0
      BY <1>3, OrdersConstants
    <3>2. "confirm px" \in CheckSteps \ {"post pf", "confirm pf", "x post", "post entry", "look up entry"}
      BY DEF CheckSteps
    <3>3. Final(orders'[Entry])
      BY <1>2, <1>5 DEF Moves
    <3> QED
      BY <1>2, <1>8, <3>1, <3>2, <3>3 DEF Honest
  <2>2. "confirm px" \in Steps
    BY DEF Steps
  <2> QED
    BY <1>1, <1>5, <1>6, <1>8, <2>1, <2>2, GoesOn
<1> QED
  BY <1>4, <1>7, <1>8

\* A protective exit counts once the broker shows it.
LEMMA ConfirmProtectEntry ==
  ASSUME EntryInv, NEW r \in Runners, ConfirmProtect(r) PROVE EntryInv'
<1> DEFINE l == local[r]
<1>1. /\ pc[r] = "confirm px" /\ pc[r] \in CheckSteps \cup ExitSteps /\ pc[r] \in AfterEntry
      /\ UNCHANGED <<phase, orders, actual, overlaps>>
  BY DEF ConfirmProtect, CheckSteps, AfterEntry
<1>2. /\ Final(orders[Entry]) /\ l.rec \in Rows /\ l \in Locals
      /\ l.rec.state = "submitted" /\ row.state = "submitted"
  BY <1>1, AtWork
<1>3. CASE CannotSee(r)
  BY <1>1, <1>3, CannotSeeStep
<1>4. CASE NoMishap /\ (Checked(r) \/ LeftOpen(r))
  <2>1. mishaps' \in 0..MaxMishaps
    BY <1>4, MishapTyped DEF EntryInv
  <2> QED
    BY <1>1, <1>2, <1>4, <2>1, Still, PassEnds
<1>5. CASE NoMishap /\ StartFlatten(r, l.rec, l.owned)
  <2>1. l.owned # 0
    BY <1>1 DEF EntryInv, JobsHonest, Honest
  <2>2. PICK owned \in 1..Shares : owned = l.owned
    BY <1>2, <2>1, OrdersConstants DEF Locals
  <2>3. mishaps' \in 0..MaxMishaps
    BY <1>5, MishapTyped DEF EntryInv
  <2>4. PICK rec \in Rows : rec = l.rec
    BY <1>2
  <2>5. StartFlatten(r, rec, owned)
    BY <1>5, <2>2, <2>4
  <2> QED
    BY <1>1, <1>2, <2>3, <2>4, <2>5, Still, FlattenStep
<1> QED
  BY <1>3, <1>4, <1>5 DEF ConfirmProtect

\* A flatten is posted for what is owned.
LEMMA PostFlattenEntry ==
  ASSUME EntryInv, NEW r \in Runners, PostFlatten(r) PROVE EntryInv'
<1> DEFINE l == local[r]
<1>1. /\ pc[r] = "post pf" /\ pc[r] \in CheckSteps \cup ExitSteps /\ pc[r] \in AfterEntry
      /\ UNCHANGED <<phase, actual, overlaps>>
  BY DEF PostFlatten, CheckSteps, AfterEntry
<1>2. /\ Final(orders[Entry]) /\ l.rec \in Rows /\ l \in Locals
      /\ l.rec.state = "submitted" /\ row.state = "submitted"
  BY <1>1, AtWork
<1>3. l.rec.pf \in 1..MaxTries /\ l.owned \in 1..Shares
  <2>1. l.rec.pf # 0 /\ l.owned # 0
    BY <1>1 DEF EntryInv, JobsHonest, Honest
  <2> QED
    BY <1>2, <2>1, OrdersConstants DEF Rows, Locals
<1>4. PICK answer \in {"accepted", "transient", "refused"} :
        /\ Posts(<<"pf", l.rec.pf>>, l.owned, answer)
        /\ IF answer = "refused" THEN Alarm(r)
           ELSE GoesTo(r, "confirm pf") /\ UNCHANGED <<row, local>>
  BY DEF PostFlatten
<1>5. Moves
  <2>1. <<"pf", l.rec.pf>> \in Ids \ {Legs} /\ <<"pf", l.rec.pf>> # Entry
    BY <1>3, IdFacts
  <2> QED
    BY <1>3, <1>4, <2>1, PostsMove DEF EntryInv
<1>6. mishaps' \in 0..MaxMishaps
  BY <1>4, PostsTyped
<1>7. CASE Alarm(r)
  BY <1>1, <1>5, <1>6, <1>7, PassEnds
<1>8. CASE GoesTo(r, "confirm pf") /\ UNCHANGED <<row, local>>
  <2>1. Honest(r, "confirm pf", local[r])'
    <3>1. l.rec.pf # 0 /\ l.owned # 0
      BY <1>3, OrdersConstants
    <3>2. "confirm pf" \in CheckSteps \ {"post px", "confirm px", "x post", "post entry", "look up entry"}
      BY DEF CheckSteps
    <3>3. Final(orders'[Entry])
      BY <1>2, <1>5 DEF Moves
    <3> QED
      BY <1>2, <1>8, <3>1, <3>2, <3>3 DEF Honest
  <2>2. "confirm pf" \in Steps
    BY DEF Steps
  <2> QED
    BY <1>1, <1>5, <1>6, <1>8, <2>1, <2>2, GoesOn
<1> QED
  BY <1>4, <1>7, <1>8

\* A flatten counts once the broker shows its fill.
LEMMA ConfirmFlattenEntry ==
  ASSUME EntryInv, NEW r \in Runners, ConfirmFlatten(r) PROVE EntryInv'
<1>1. /\ pc[r] \in CheckSteps \cup ExitSteps /\ pc[r] \in AfterEntry
      /\ UNCHANGED <<phase, orders, actual, overlaps>>
  BY DEF ConfirmFlatten, CheckSteps, AfterEntry
<1>2. Final(orders[Entry])
  BY <1>1, AtWork
<1>3. Alarm(r) \/ Checked(r)
  BY DEF ConfirmFlatten
<1>4. Mishap \/ NoMishap
  BY DEF ConfirmFlatten
<1>5. mishaps' \in 0..MaxMishaps
  BY <1>4, MishapTyped DEF EntryInv
<1> QED
  BY <1>1, <1>2, <1>3, <1>5, Still, PassEnds

\* A time exit that has not sold leaves the row, or says that it is not flat.
LEMMA RetriedEntry ==
  ASSUME EntryInv, pc["tick"] \in ExitSteps, Moves, Retried,
         UNCHANGED <<phase, actual, overlaps>>, mishaps' \in 0..MaxMishaps
  PROVE  EntryInv'
<1> DEFINE rec == local["tick"].rec
<1>1. "tick" \in Runners /\ pc["tick"] \in CheckSteps \cup ExitSteps
  BY DEF Runners
<1>2. /\ rec \in Rows /\ rec.state = "submitted" /\ row \in Rows /\ row.state = "submitted"
      /\ (rec.checked => Final(orders[Entry])) /\ (row.checked => Final(orders[Entry]))
  BY <1>1, AtWork
<1>3. CASE UNCHANGED row /\ EndsPass("tick")
  BY <1>1, <1>2, <1>3, Finishes
<1>4. CASE row' = [rec EXCEPT !.notFlat = TRUE] /\ EndsPass("tick")
  <2>1. row' \in Rows /\ row'.state = "submitted" /\ row'.checked = rec.checked
    BY <1>2, <1>4 DEF Rows
  <2> QED
    BY <1>1, <1>2, <1>4, <2>1, Finishes
<1> QED
  BY <1>3, <1>4 DEF Retried, Saves, T

\* The time exit starts with a copy of the row (time_exit).
LEMMA StartExitEntry ==
  ASSUME EntryInv, StartExit PROVE EntryInv'
<1>0. "tick" \in Runners
  BY DEF Runners
<1>1. /\ row \in Rows /\ row.state = "submitted" /\ (row.checked => Final(orders[Entry]))
      /\ local["tick"] \in Locals
  BY <1>0 DEF EntryInv, OrdersTypeOK, RowTrue, StartExit
<1>2. PICK l \in Locals : l = [local["tick"] EXCEPT !.rec = row, !.last = (phase = "last")]
  BY <1>1 DEF Locals
<1>3. l.rec = row
  BY <1>1, <1>2 DEF Locals
<1>4. /\ row' = row /\ pc' = [pc EXCEPT !["tick"] = "x read"] /\ local' = [local EXCEPT !["tick"] = l]
      /\ orders' = orders
  BY <1>1, <1>2 DEF StartExit, GoesTo, EntryInv, OrdersTypeOK
<1>5. Honest("tick", "x read", l)'
  <2>1. "x read" \in ExitSteps /\ "x read" \notin AfterEntry
    BY DEF ExitSteps, AfterEntry
  <2> QED
    BY <1>1, <1>3, <1>4, <2>1 DEF Honest
<1>6. "x read" \in Steps /\ Moves
  BY <1>4, Still DEF Steps
<1>7. /\ phase' \in Phases \cup {"closing"} /\ overlaps' \in 0..MaxOverlaps /\ actual' = actual
      /\ mishaps' \in 0..MaxMishaps
  <2>1. phase' \in Phases \cup {"closing"}
    BY DEF StartExit, EntryInv, OrdersTypeOK, Phases
  <2>2. overlaps' \in 0..MaxOverlaps
    <3>1. overlaps \in 0..MaxOverlaps
      BY DEF EntryInv, OrdersTypeOK
    <3>2. overlaps' = overlaps \/ (overlaps < MaxOverlaps /\ overlaps' = overlaps + 1)
      BY DEF StartExit, Comes
    <3> QED
      BY <3>1, <3>2, OrdersConstants
  <2> QED
    BY <2>1, <2>2 DEF StartExit, EntryInv, OrdersTypeOK
<1> QED
  BY <1>0, <1>1, <1>4, <1>5, <1>6, <1>7, JobStep

\* The first reads of the time exit.
LEMMA ExitReadEntry ==
  ASSUME EntryInv, ExitRead PROVE EntryInv'
<1>1. /\ "tick" \in Runners /\ "tick" # "guard" /\ pc["tick"] \in ExitSteps
      /\ UNCHANGED <<phase, orders, actual, overlaps>>
  BY DEF Runners, ExitRead, ExitSteps
<1>2. ASSUME NEW step \in {"x sell", "x cancel"}, Sees("tick", step) PROVE EntryInv'
  BY <1>1, <1>2, SeesStep
<1>3. CASE Mishap /\ Retried
  <2>1. mishaps' \in 0..MaxMishaps
    BY <1>3, MishapTyped DEF EntryInv
  <2> QED
    BY <1>1, <1>3, <2>1, Still, RetriedEntry
<1> QED
  BY <1>2, <1>3 DEF ExitRead

\* What still works is asked to end.
LEMMA ExitCancelEntry ==
  ASSUME EntryInv, ExitCancel PROVE EntryInv'
<1>1. /\ "tick" \in Runners /\ pc["tick"] \in CheckSteps \cup ExitSteps
      /\ UNCHANGED <<phase, row, actual, local, overlaps>>
  BY DEF Runners, ExitCancel, ExitSteps
<1>2. PICK ids : Cancels(ids)
  BY DEF ExitCancel
<1>3. Moves
  BY <1>2, CancelsMove DEF EntryInv
<1>4. Mishap \/ NoMishap
  BY <1>2 DEF Cancels
<1>5. mishaps' \in 0..MaxMishaps
  BY <1>4, MishapTyped DEF EntryInv
<1>6. GoesTo("tick", "x reread") /\ "x reread" \in Steps
  BY DEF ExitCancel, Steps
<1>7. Honest("tick", "x reread", local["tick"])'
  <2>1. local["tick"].rec.state = "submitted" /\ row.state = "submitted"
        /\ (local["tick"].rec.checked => Final(orders[Entry]))
    BY <1>1, AtWork
  <2>2. Final(orders[Entry]) => Final(orders'[Entry])
    BY <1>3 DEF Moves
  <2>3. "x reread" \in ExitSteps /\ "x reread" \notin AfterEntry
    BY DEF ExitSteps, AfterEntry
  <2> QED
    BY <1>1, <2>1, <2>2, <2>3 DEF Honest
<1> QED
  BY <1>1, <1>3, <1>5, <1>6, <1>7, GoesOn

\* The shares are counted once all is final.
LEMMA ExitRereadEntry ==
  ASSUME EntryInv, ExitReread PROVE EntryInv'
<1>1. /\ "tick" \in Runners /\ pc["tick"] \in ExitSteps /\ pc["tick"] \in CheckSteps \cup ExitSteps
      /\ UNCHANGED <<phase, orders, actual, overlaps>>
  BY DEF Runners, ExitReread, ExitSteps
<1>2. CASE Retried /\ (Mishap \/ NoMishap)
  <2>1. mishaps' \in 0..MaxMishaps
    BY <1>2, MishapTyped DEF EntryInv
  <2> QED
    BY <1>1, <1>2, <2>1, Still, RetriedEntry
<1>3. CASE /\ local' = [local EXCEPT !["tick"].snap = CountedFrom]
           /\ GoesTo("tick", "x sell") /\ UNCHANGED row /\ NoMishap
  <2>1. local["tick"] \in Locals /\ local["tick"].rec.state = "submitted" /\ row.state = "submitted"
        /\ (local["tick"].rec.checked => Final(orders[Entry])) /\ row \in Rows
        /\ (row.checked => Final(orders[Entry]))
    BY <1>1, AtWork
  <2>2. CountedFrom \in [Ids -> Order]
    BY FreshTyped DEF CountedFrom, EntryInv, OrdersTypeOK
  <2>3. PICK l \in Locals : l = [local["tick"] EXCEPT !.snap = CountedFrom]
    BY <2>1, <2>2 DEF Locals
  <2>4. l.rec = local["tick"].rec
    BY <2>1, <2>3 DEF Locals
  <2>5. local' = [local EXCEPT !["tick"] = l] /\ pc' = [pc EXCEPT !["tick"] = "x sell"]
    BY <1>1, <1>3, <2>3 DEF GoesTo, EntryInv, OrdersTypeOK
  <2>6. Honest("tick", "x sell", l)'
    <3>1. "x sell" \in ExitSteps /\ "x sell" \notin AfterEntry
      BY DEF ExitSteps, AfterEntry
    <3> QED
      BY <1>1, <1>3, <2>1, <2>4, <3>1 DEF Honest
  <2>7. "x sell" \in Steps
    BY DEF Steps
  <2>8. /\ phase' \in Phases \cup {"closing"} /\ overlaps' \in 0..MaxOverlaps /\ mishaps' \in 0..MaxMishaps
    BY <1>1, <1>3 DEF EntryInv, OrdersTypeOK, NoMishap
  <2> QED
    BY <1>1, <1>3, <2>1, <2>5, <2>6, <2>7, <2>8, Still, JobStep
<1> QED
  BY <1>2, <1>3 DEF ExitReread

\* The exits that are asked about are ids of the forecast.
LEMMA TriedTyped ==
  ASSUME EntryInv, pc["tick"] \in ExitSteps
  PROVE  ExitsSeen \in SUBSET Ids /\ SoldAtExit \in Nat /\ Tried \in 0..MaxSells
<1>1. "tick" \in Runners /\ pc["tick"] \in CheckSteps \cup ExitSteps
  BY DEF Runners
<1>2. T.rec \in Rows
  BY <1>1, AtWork DEF T
<1>3. ExitsSeen \in SUBSET Ids
  BY DEF ExitsSeen, ExitsTried, Ids, ExitIds
<1>4. Tried \in 0..MaxSells
  BY <1>2, OrdersConstants DEF Tried, Rows
<1> QED
  BY <1>3, <1>4, FilledTyped DEF SoldAtExit

\* What is left is sold once, or the forecast is called flat, or there is an alarm.
LEMMA ExitSellEntry ==
  ASSUME EntryInv, ExitSell PROVE EntryInv'
<1> DEFINE remaining == Bought(T.snap) - SoldBy(T.snap, T.rec) - SoldAtExit
           rec == [T.rec EXCEPT !.tx = Tried]
<1>1. /\ "tick" \in Runners /\ pc["tick"] \in ExitSteps /\ pc["tick"] \in CheckSteps \cup ExitSteps
      /\ UNCHANGED <<phase, orders, actual, overlaps>>
  BY DEF Runners, ExitSell, ExitSteps
<1>2. /\ T \in Locals /\ T.rec \in Rows /\ T.rec.state = "submitted" /\ T.snap \in [Ids -> Order]
      /\ row \in Rows /\ row.state = "submitted"
      /\ (T.rec.checked => Final(orders[Entry])) /\ (row.checked => Final(orders[Entry]))
  BY <1>1, AtWork DEF T, Locals
<1>3. SoldAtExit \in Nat /\ Tried \in 0..MaxSells
  BY <1>1, TriedTyped
<1>4. mishaps' \in 0..MaxMishaps /\ Moves
  <2>1. Mishap \/ NoMishap
    BY DEF ExitSell
  <2> QED
    BY <1>1, <2>1, MishapTyped, Still DEF EntryInv
<1>5. CASE Retried
  BY <1>1, <1>4, <1>5, RetriedEntry
<1>6. CASE Saves("tick", [T.rec EXCEPT !.notFlat = TRUE]) /\ EndsPass("tick")
  <2>1. row' = [T.rec EXCEPT !.notFlat = TRUE]
    BY <1>6 DEF Saves
  <2>2. row' \in Rows /\ row'.state = "submitted" /\ row'.checked = T.rec.checked
    BY <1>2, <2>1 DEF Rows
  <2> QED
    BY <1>1, <1>2, <1>4, <1>6, <2>2, Finishes
<1>7. CASE Saves("tick", [rec EXCEPT !.done = TRUE]) /\ EndsPass("tick")
  <2>1. row' = [rec EXCEPT !.done = TRUE]
    BY <1>7 DEF Saves
  <2>2. row' \in Rows /\ row'.state = "submitted" /\ row'.checked = T.rec.checked
    BY <1>2, <1>3, <2>1 DEF Rows
  <2> QED
    BY <1>1, <1>2, <1>4, <1>7, <2>2, Finishes
<1>8. CASE /\ remaining > 0 /\ Tried < MaxSells
           /\ Saves("tick", [rec EXCEPT !.tx = Tried + 1])
           /\ local' = [local EXCEPT !["tick"].rec = row', !["tick"].owned = remaining]
           /\ GoesTo("tick", "x post")
  <2>1. Tried + 1 \in 0..MaxSells /\ Tried + 1 # 0
    <3>1. PICK n \in 0..MaxSells : n = Tried
      BY <1>3
    <3>2. n < MaxSells
      BY <1>8, <3>1, Zenon
    <3>3. n + 1 \in 0..MaxSells /\ n + 1 # 0
      BY <3>2, OrdersConstants
    <3> QED
      BY <3>1, <3>3
  <2>2. row' = [rec EXCEPT !.tx = Tried + 1]
    BY <1>8 DEF Saves
  <2>3. row' \in Rows /\ row'.state = "submitted" /\ row'.tx # 0 /\ row'.checked = T.rec.checked
    BY <1>2, <1>3, <2>1, <2>2 DEF Rows
  <2>4. remaining \in 1..Shares
    <3>1. Bought(T.snap) - SoldBy(T.snap, T.rec) \in Int
          /\ (Bought(T.snap) - SoldBy(T.snap, T.rec) > 0
                => Bought(T.snap) - SoldBy(T.snap, T.rec) \in 1..Shares)
      BY <1>2, OwnedTyped
    <3>2. PICK m \in Int : m = Bought(T.snap) - SoldBy(T.snap, T.rec)
      BY <3>1
    <3>3. PICK n \in Nat : n = SoldAtExit
      BY <1>3
    <3>4. m - n > 0 /\ (m > 0 => m \in 1..Shares)
      BY <1>8, <3>1, <3>2, <3>3
    <3>5. m - n \in 1..Shares
      BY <3>4, OrdersConstants
    <3> QED
      BY <3>2, <3>3, <3>5
  <2> HIDE DEF remaining, rec
  <2>5. PICK next \in Rows : next = row'
    BY <2>3
  <2>6. PICK l \in Locals : l = [local["tick"] EXCEPT !.rec = next, !.owned = remaining]
    <3>1. remaining \in 0..Shares
      BY <2>4, OrdersConstants
    <3> QED
      BY <1>2, <3>1 DEF Locals, T
  <2>7. l.rec = next /\ l.owned = remaining
    BY <1>2, <2>6 DEF Locals, T
  <2>8. pc' = [pc EXCEPT !["tick"] = "x post"] /\ local' = [local EXCEPT !["tick"] = l]
    BY <1>8, <2>5, <2>6 DEF GoesTo
  <2>9. Honest("tick", "x post", l)'
    <3>1. "x post" \in ExitSteps /\ "x post" \notin AfterEntry
      BY DEF ExitSteps, AfterEntry
    <3>2. remaining # 0
      BY <2>4, OrdersConstants
    <3> QED
      BY <1>1, <1>2, <2>3, <2>5, <2>7, <3>1, <3>2 DEF Honest
  <2>10. "x post" \in Steps
    BY DEF Steps
  <2>11. phase' \in Phases \cup {"closing"} /\ overlaps' \in 0..MaxOverlaps
    BY <1>1 DEF EntryInv, OrdersTypeOK
  <2>12. row'.checked => Final(orders[Entry])
    BY <1>2, <2>3
  <2> QED
    BY <1>1, <1>2, <1>4, <2>3, <2>8, <2>9, <2>10, <2>11, <2>12, JobStep
<1>9. \/ Retried
      \/ Saves("tick", [T.rec EXCEPT !.notFlat = TRUE]) /\ EndsPass("tick")
      \/ Saves("tick", [rec EXCEPT !.done = TRUE]) /\ EndsPass("tick")
      \/ /\ remaining > 0 /\ Tried < MaxSells
         /\ Saves("tick", [rec EXCEPT !.tx = Tried + 1])
         /\ local' = [local EXCEPT !["tick"].rec = row', !["tick"].owned = remaining]
         /\ GoesTo("tick", "x post")
  BY DEF ExitSell
<1> HIDE DEF remaining, rec
<1> QED
  BY <1>5, <1>6, <1>7, <1>8, <1>9

\* A time exit is posted for what is left.
LEMMA ExitPostEntry ==
  ASSUME EntryInv, ExitPost PROVE EntryInv'
<1>1. /\ "tick" \in Runners /\ pc["tick"] = "x post" /\ pc["tick"] \in CheckSteps \cup ExitSteps
      /\ UNCHANGED <<phase, row, actual, overlaps>>
  BY DEF Runners, ExitPost, ExitSteps
<1>2. /\ T \in Locals /\ T.rec \in Rows /\ T.rec.state = "submitted"
      /\ row \in Rows /\ row.state = "submitted"
      /\ (T.rec.checked => Final(orders[Entry])) /\ (row.checked => Final(orders[Entry]))
  BY <1>1, AtWork DEF T
<1>3. T.rec.tx \in 1..MaxSells /\ T.owned \in 1..Shares
  <2>1. T.rec.tx # 0 /\ T.owned # 0
    BY <1>1 DEF T, EntryInv, JobsHonest, Honest
  <2> QED
    BY <1>2, <2>1, OrdersConstants DEF Rows, Locals
<1>4. PICK answer \in {"accepted", "transient", "refused"} :
        /\ Posts(<<"tx", T.rec.tx>>, T.owned, answer)
        /\ \/ EndsPass("tick")
           \/ GoesTo("tick", "x close") /\ UNCHANGED local
  BY DEF ExitPost
<1>5. Moves
  <2>1. <<"tx", T.rec.tx>> \in Ids \ {Legs} /\ <<"tx", T.rec.tx>> # Entry
    BY <1>3, IdFacts
  <2> QED
    BY <1>3, <1>4, <2>1, PostsMove DEF EntryInv
<1>6. mishaps' \in 0..MaxMishaps
  BY <1>4, PostsTyped
<1>7. CASE EndsPass("tick")
  BY <1>1, <1>2, <1>5, <1>6, <1>7, Finishes
<1>8. CASE GoesTo("tick", "x close") /\ UNCHANGED local
  <2>1. Honest("tick", "x close", local["tick"])'
    <3>1. T.owned # 0
      BY <1>3, OrdersConstants
    <3>2. "x close" \in ExitSteps /\ "x close" \notin AfterEntry
      BY DEF ExitSteps, AfterEntry
    <3>3. Final(orders[Entry]) => Final(orders'[Entry])
      BY <1>5 DEF Moves
    <3> QED
      BY <1>1, <1>2, <1>8, <3>1, <3>2, <3>3 DEF Honest, T
  <2>2. "x close" \in Steps
    BY DEF Steps
  <2> QED
    BY <1>1, <1>5, <1>6, <1>8, <2>1, <2>2, GoesOn
<1> QED
  BY <1>4, <1>7, <1>8

\* The last resort closes some of the shares that are left.
LEMMA ExitCloseEntry ==
  ASSUME EntryInv, ExitClose PROVE EntryInv'
<1>1. /\ "tick" \in Runners /\ pc["tick"] = "x close" /\ pc["tick"] \in CheckSteps \cup ExitSteps
      /\ pc["tick"] \in ExitSteps /\ UNCHANGED <<phase, actual, overlaps>>
  BY DEF Runners, ExitClose, ExitSteps
<1>2. /\ T \in Locals /\ T.rec \in Rows /\ T.rec.state = "submitted"
      /\ row \in Rows /\ row.state = "submitted"
      /\ (T.rec.checked => Final(orders[Entry])) /\ (row.checked => Final(orders[Entry]))
  BY <1>1, AtWork DEF T
<1>3. T.owned \in 1..Shares
  <2>1. T.owned # 0
    BY <1>1 DEF T, EntryInv, JobsHonest, Honest
  <2> QED
    BY <1>2, <2>1, OrdersConstants DEF Locals
<1>4. CASE Saves("tick", [T.rec EXCEPT !.done = TRUE]) /\ EndsPass("tick") /\ UNCHANGED orders /\ NoMishap
  <2>1. row' = [T.rec EXCEPT !.done = TRUE]
    BY <1>4 DEF Saves
  <2>2. row' \in Rows /\ row'.state = "submitted" /\ row'.checked = T.rec.checked
    BY <1>2, <2>1 DEF Rows
  <2>3. mishaps' \in 0..MaxMishaps
    BY <1>4, MishapTyped DEF EntryInv
  <2> QED
    BY <1>1, <1>2, <1>4, <2>2, <2>3, Still, Finishes
<1>5. CASE /\ Position > 0
           /\ \E answer \in {"accepted", "transient", "refused"} :
                /\ Posts(Close, IF Position < T.owned THEN Position ELSE T.owned, answer)
                /\ IF answer = "accepted" THEN GoesTo("tick", "x record") /\ UNCHANGED <<row, local>> ELSE Retried
  <2>1. Position \in Int
    <3>1. Bought(orders) \in 0..Shares
      BY IdFacts DEF Bought, Order, EntryInv, OrdersTypeOK
    <3>2. ExitIds \in SUBSET Ids
      BY DEF Ids
    <3>3. FilledOf(orders, ExitIds) \in Nat
      BY <3>2, FilledTyped
    <3> QED
      BY <3>1, <3>3, OrdersConstants DEF Position
  <2>2. PICK qty \in 1..Shares : qty = IF Position < T.owned THEN Position ELSE T.owned
    <3>1. PICK p \in Int : p = Position
      BY <2>1
    <3>2. PICK n \in 1..Shares : n = T.owned
      BY <1>3
    <3>3. p > 0
      BY <1>5, <3>1, Zenon
    <3>4. (IF p < n THEN p ELSE n) \in 1..Shares
      BY <3>3, OrdersConstants
    <3> QED
      BY <3>1, <3>2, <3>4
  <2>3. PICK answer \in {"accepted", "transient", "refused"} :
          /\ Posts(Close, qty, answer)
          /\ \/ GoesTo("tick", "x record") /\ UNCHANGED <<row, local>>
             \/ Retried
    BY <1>5, <2>2
  <2>4. Moves
    <3>1. Close \in Ids \ {Legs} /\ Close # Entry
      BY IdFacts
    <3> QED
      BY <2>3, <3>1, PostsMove DEF EntryInv
  <2>5. mishaps' \in 0..MaxMishaps
    BY <2>3, PostsTyped
  <2>6. CASE Retried
    BY <1>1, <2>4, <2>5, <2>6, RetriedEntry
  <2>7. CASE GoesTo("tick", "x record") /\ UNCHANGED <<row, local>>
    <3>1. Honest("tick", "x record", local["tick"])'
      <4>1. "x record" \in ExitSteps /\ "x record" \notin AfterEntry
        BY DEF ExitSteps, AfterEntry
      <4>2. Final(orders[Entry]) => Final(orders'[Entry])
        BY <2>4 DEF Moves
      <4> QED
        BY <1>2, <2>7, <4>1, <4>2 DEF Honest, T
    <3>2. "x record" \in Steps
      BY DEF Steps
    <3> QED
      BY <1>1, <2>4, <2>5, <2>7, <3>1, <3>2, GoesOn
  <2> QED
    BY <2>3, <2>6, <2>7
<1> QED
  BY <1>4, <1>5 DEF ExitClose

\* The close is recorded, flat or not.
LEMMA ExitRecordEntry ==
  ASSUME EntryInv, ExitRecord PROVE EntryInv'
<1>1. /\ "tick" \in Runners /\ pc["tick"] \in CheckSteps \cup ExitSteps
      /\ UNCHANGED <<phase, orders, actual, overlaps>> /\ EndsPass("tick")
  BY DEF Runners, ExitRecord, ExitSteps
<1>2. /\ T.rec \in Rows /\ T.rec.state = "submitted" /\ row.state = "submitted"
      /\ (T.rec.checked => Final(orders[Entry]))
  BY <1>1, AtWork DEF T
<1>3. PICK flat \in BOOLEAN : /\ NoMishap \/ Mishap
                              /\ row' = [T.rec EXCEPT !.closes = TRUE, !.notFlat = @ \/ ~flat]
  BY DEF ExitRecord, Saves
<1>4. PICK word \in BOOLEAN : word = (T.rec.notFlat \/ ~flat)
  OBVIOUS
<1>5. row' = [T.rec EXCEPT !.closes = TRUE, !.notFlat = word]
  BY <1>3, <1>4
<1>6. row' \in Rows /\ row'.state = "submitted" /\ row'.checked = T.rec.checked
  BY <1>2, <1>5 DEF Rows
<1>7. mishaps' \in 0..MaxMishaps
  BY <1>3, MishapTyped DEF EntryInv
<1> QED
  BY <1>1, <1>2, <1>6, <1>7, Still, Finishes

\* A step that leaves the row as it is, of a job that is not at the deadline or the
\* exit: submit, a death, the day and the broker.
LEMMA OtherStep ==
  ASSUME EntryInv, NEW r \in Runners, NEW step \in Steps, NEW l \in Locals,
         pc' = [pc EXCEPT ![r] = step], local' = [local EXCEPT ![r] = l],
         Moves, row' \in Rows,
         row' = row \/ ~(\E q \in Runners : pc[q] \in CheckSteps \cup ExitSteps),
         Honest(r, step, l)', RowTrue',
         r = "guard" => row' = row,
         phase' \in Phases \cup {"closing"},
         actual' \in {"none", "UNRESOLVED", "NO_FILL", "CLOSED"}, overlaps' \in 0..MaxOverlaps,
         mishaps' \in 0..MaxMishaps
  PROVE  EntryInv'
<1>1. OrdersTypeOK'
  BY DEF EntryInv, OrdersTypeOK, Moves
<1>2. Shaped(orders)'
  BY DEF Moves
<1>3. Final(orders[Entry]) => Final(orders'[Entry])
  BY DEF Moves
<1>4. ASSUME NEW q \in Runners PROVE Honest(q, pc[q], local[q])'
  <2>1. CASE q = r
    <3>1. pc'[q] = step /\ local'[q] = l
      BY <2>1 DEF EntryInv, OrdersTypeOK
    <3> QED
      BY <2>1, <3>1 DEF Honest
  <2>2. CASE q # r
    <3>1. pc'[q] = pc[q] /\ local'[q] = local[q]
      BY <2>2 DEF EntryInv, OrdersTypeOK
    <3>2. Honest(q, pc[q], local[q])
      BY DEF EntryInv, JobsHonest
    <3>3. CASE row' = row
      BY <1>3, <3>1, <3>2, <3>3 DEF Honest
    <3>4. CASE ~(\E p \in Runners : pc[p] \in CheckSteps \cup ExitSteps) /\ r = "tick"
      <4>1. q = "guard" /\ pc[q] = "idle"
        <5>1. q = "guard"
          BY <2>2, <3>4 DEF Runners
        <5> QED
          BY <3>2, <3>4, <5>1 DEF Honest
      <4> QED
        BY <1>3, <3>1, <3>2, <4>1 DEF Honest, CheckSteps, ExitSteps, AfterEntry
    <3> QED
      BY <3>3, <3>4 DEF Runners
  <2> QED
    BY <2>1, <2>2
<1>5. JobsHonest'
  BY <1>4 DEF JobsHonest
<1> QED
  BY <1>1, <1>2, <1>5 DEF EntryInv

\* No other job is in a forecast that has no row.
LEMMA RowlessIsQuiet ==
  ASSUME EntryInv, row.state = "none"
  PROVE  ~(\E q \in Runners : pc[q] \in CheckSteps \cup ExitSteps)
BY DEF EntryInv, JobsHonest, Honest

\* A job that dies leaves the row; a lost answer is not counted twice.
LEMMA DiesEntry ==
  ASSUME EntryInv, NEW r \in Runners, Dies(r) PROVE EntryInv'
<1>1. UNCHANGED <<phase, orders, row, actual, overlaps>> /\ Mishap
      /\ pc' = [pc EXCEPT ![r] = "idle"] /\ local' = [local EXCEPT ![r] = Fresh]
  BY DEF Dies, EndsPass, GoesTo
<1>2. "idle" \in Steps /\ Fresh \in Locals
  BY FreshTyped DEF Steps
<1>3. mishaps \in Nat /\ mishaps' = mishaps + 1 /\ mishaps' \in 0..MaxMishaps
  BY <1>1, MishapTyped, OrdersConstants DEF Mishap, EntryInv, OrdersTypeOK
<1>4. Honest(r, "idle", Fresh)'
  BY DEF Honest, Fresh, NoRow, CheckSteps, ExitSteps, AfterEntry
<1>5. RowTrue'
  <2>1. mishaps' >= 1 /\ (mishaps >= 2 => mishaps' >= 2)
    BY <1>3
  <2> QED
    BY <1>1, <2>1 DEF RowTrue, EntryInv
<1>6. row' \in Rows /\ phase' \in Phases \cup {"closing"} /\ overlaps' \in 0..MaxOverlaps
      /\ actual' \in {"none", "UNRESOLVED", "NO_FILL", "CLOSED"}
  BY <1>1 DEF EntryInv, OrdersTypeOK
<1>7. Moves
  BY <1>1, Still
<1> QED
  BY <1>1, <1>2, <1>3, <1>4, <1>5, <1>6, <1>7, OtherStep

\* submit starts for a forecast that has no row.
LEMMA StartSubmitEntry ==
  ASSUME EntryInv, StartSubmit PROVE EntryInv'
<1>0. "tick" \in Runners /\ pc["tick"] = "idle"
  BY DEF Runners, StartSubmit, Comes
<1>1. UNCHANGED <<phase, orders, row, actual, local, mishaps>> /\ row.state = "none"
      /\ pc' = [pc EXCEPT !["tick"] = "post entry"]
  BY DEF StartSubmit, GoesTo
<1>2. PICK l \in Locals : l = local["tick"]
  BY <1>0 DEF EntryInv, OrdersTypeOK
<1>3. local' = [local EXCEPT !["tick"] = l]
  BY <1>1, <1>2 DEF EntryInv, OrdersTypeOK
<1>4. Honest("tick", "post entry", l)'
  <2>1. l.rec.checked => Final(orders[Entry])
    BY <1>0, <1>2 DEF EntryInv, JobsHonest, Honest
  <2> QED
    BY <1>1, <2>1 DEF Honest, CheckSteps, ExitSteps, AfterEntry
<1>5. RowTrue'
  <2>1. pc["tick"] # "look up entry"
    BY <1>0
  <2> QED
    BY <1>1, <2>1 DEF RowTrue, EntryInv
<1>6. overlaps' \in 0..MaxOverlaps
  <2>1. overlaps \in 0..MaxOverlaps
    BY DEF EntryInv, OrdersTypeOK
  <2>2. overlaps' = overlaps \/ (overlaps < MaxOverlaps /\ overlaps' = overlaps + 1)
    BY DEF StartSubmit, Comes
  <2> QED
    BY <2>1, <2>2, OrdersConstants
<1>7. /\ row' \in Rows /\ phase' \in Phases \cup {"closing"} /\ mishaps' \in 0..MaxMishaps
      /\ actual' \in {"none", "UNRESOLVED", "NO_FILL", "CLOSED"} /\ "post entry" \in Steps
  BY <1>1 DEF EntryInv, OrdersTypeOK, Steps
<1>8. Moves
  BY <1>1, Still
<1> QED
  BY <1>0, <1>1, <1>3, <1>4, <1>5, <1>6, <1>7, <1>8, OtherStep

\* An entry that is placed is accepted, or its answer is lost: a fault.
LEMMA PostEntryEntry ==
  ASSUME EntryInv, PostEntry PROVE EntryInv'
<1>0. "tick" \in Runners /\ pc["tick"] = "post entry"
  BY DEF Runners, PostEntry
<1>1. UNCHANGED <<phase, row, actual, overlaps>> /\ pc' = [pc EXCEPT !["tick"] = "look up entry"]
  BY DEF PostEntry, GoesTo
<1>2. PICK answer \in {"accepted", "transient", "refused"} :
        Posts(Entry, Shares, answer) /\ local' = [local EXCEPT !["tick"].code = answer]
  BY DEF PostEntry
<1>3. local["tick"] \in Locals /\ row.state = "none"
      /\ (local["tick"].rec.checked => Final(orders[Entry]))
  BY <1>0 DEF EntryInv, OrdersTypeOK, JobsHonest, Honest
<1>4. PICK l \in Locals : l = [local["tick"] EXCEPT !.code = answer]
  BY <1>3 DEF Locals
<1>5. l.code = answer /\ l.rec = local["tick"].rec /\ local' = [local EXCEPT !["tick"] = l]
  BY <1>2, <1>3, <1>4 DEF Locals, EntryInv, OrdersTypeOK
<1>6. Moves
  <2>1. Entry \in Ids \ {Legs} /\ Shares \in 1..Shares
    BY IdFacts, OrdersConstants
  <2> QED
    BY <1>2, <2>1, PostsMove DEF EntryInv
<1>7. mishaps' \in 0..MaxMishaps
  BY <1>2, PostsTyped
<1>8. Honest("tick", "look up entry", l)'
  <2>1. Final(orders[Entry]) => Final(orders'[Entry])
    BY <1>6 DEF Moves
  <2> QED
    BY <1>1, <1>3, <1>5, <2>1 DEF Honest, CheckSteps, ExitSteps, AfterEntry
<1>9. RowTrue'
  <2>1. row'.state = "none" /\ (row'.checked => Final(orders'[Entry]))
    <3>1. Final(orders[Entry]) => Final(orders'[Entry])
      BY <1>6 DEF Moves
    <3> QED
      BY <1>1, <1>3, <3>1 DEF RowTrue, EntryInv
  <2>2. pc'["tick"] = "look up entry" /\ local'["tick"].code = answer
    BY <1>0, <1>1, <1>5 DEF EntryInv, OrdersTypeOK
  <2>3. orders'[Entry] # Never /\ answer # "accepted" => mishaps' >= 1
    <3>1. mishaps \in Nat
      BY OrdersConstants DEF EntryInv, OrdersTypeOK
    <3>2. CASE Mishap
      BY <3>1, <3>2 DEF Mishap
    <3>3. CASE answer = "accepted"
      BY <3>3
    <3>4. CASE UNCHANGED orders /\ orders[Entry] # Never /\ NoMishap
      <4>1. mishaps >= 1
        BY <1>0, <1>3, <3>4 DEF EntryInv, RowTrue
      <4> QED
        BY <3>4, <4>1 DEF NoMishap
    <3>5. CASE ~(orders[Entry] = Never /\ Available(Entry, Shares)) /\ UNCHANGED orders /\ NoMishap
      <4>1. orders[Entry] # Never
        BY <3>5 DEF Available
      <4> QED
        BY <3>4, <3>5, <4>1
    <3> QED
      BY <1>2, <3>2, <3>3, <3>5 DEF Posts
  <2> QED
    BY <2>1, <2>2, <2>3 DEF RowTrue
<1>10. row' \in Rows /\ phase' \in Phases \cup {"closing"} /\ overlaps' \in 0..MaxOverlaps
       /\ actual' \in {"none", "UNRESOLVED", "NO_FILL", "CLOSED"} /\ "look up entry" \in Steps
  BY <1>1 DEF EntryInv, OrdersTypeOK, Steps
<1> QED
  BY <1>0, <1>1, <1>5, <1>6, <1>7, <1>8, <1>9, <1>10, OtherStep

\* A refusal is recorded of an order that the broker does not show: of one that is
\* placed, only if the answer to the look-up is lost too.
LEMMA RecordEntryEntry ==
  ASSUME EntryInv, RecordEntry PROVE EntryInv'
<1>0. "tick" \in Runners /\ pc["tick"] = "look up entry"
  BY DEF Runners, RecordEntry
<1>1. UNCHANGED <<phase, orders, actual, overlaps>> /\ pc' = [pc EXCEPT !["tick"] = "idle"]
      /\ local' = [local EXCEPT !["tick"] = Fresh]
  BY DEF RecordEntry, EndsPass, GoesTo
<1>2. row.state = "none" /\ mishaps \in Nat /\ row \in Rows /\ orders' = orders
  <2>1. row.state = "none"
    BY <1>0 DEF EntryInv, JobsHonest, Honest
  <2>2. mishaps \in Nat /\ row \in Rows
    BY OrdersConstants DEF EntryInv, OrdersTypeOK
  <2> QED
    BY <1>1, <2>1, <2>2
<1>3. PICK answered \in BOOLEAN :
       /\ IF answered \/ local["tick"].code = "accepted" THEN NoMishap ELSE Mishap
       /\ \/ /\ local["tick"].code = "accepted" \/ EntryHeld(answered)
             /\ row' = [NoRow EXCEPT !.state = "submitted"]
          \/ /\ local["tick"].code = "refused" /\ ~EntryHeld(answered)
             /\ row' = [NoRow EXCEPT !.state = "rejected"]
          \/ /\ local["tick"].code = "transient" /\ ~EntryHeld(answered)
             /\ UNCHANGED row
  BY DEF RecordEntry
<1>4. mishaps' \in 0..MaxMishaps
  BY <1>3, MishapTyped DEF EntryInv
<1>5. Honest("tick", "idle", Fresh)'
  BY DEF Honest, Fresh, NoRow, CheckSteps, ExitSteps, AfterEntry
<1>6. orders[Entry] # Never /\ local["tick"].code # "accepted" => mishaps >= 1
  BY <1>0, <1>2 DEF EntryInv, RowTrue
<1>7. RowTrue' /\ row' \in Rows
  <2>1. CASE row' = [NoRow EXCEPT !.state = "submitted"]
    <3>1. row' \in Rows /\ row'.state = "submitted" /\ row'.checked = FALSE
      BY <2>1, FreshTyped DEF NoRow, Rows
    <3> QED
      BY <3>1 DEF RowTrue
  <2>2. CASE local["tick"].code = "refused" /\ ~EntryHeld(answered) /\ row' = [NoRow EXCEPT !.state = "rejected"]
    <3>1. row' \in Rows /\ row'.state = "rejected" /\ row'.checked = FALSE
      BY <2>2, FreshTyped DEF NoRow, Rows
    <3>2. orders[Entry] # Never => Mishap
      BY <1>3, <2>2 DEF EntryHeld
    <3>3. orders'[Entry] # Never => mishaps' >= 2
      BY <1>2, <1>6, <2>2, <3>2 DEF Mishap
    <3> QED
      BY <3>1, <3>3 DEF RowTrue
  <2>3. CASE local["tick"].code = "transient" /\ UNCHANGED row
    <3>1. mishaps' >= mishaps /\ mishaps' \in Nat
      BY <1>3, MishapTyped, OrdersConstants DEF EntryInv
    <3>2. orders'[Entry] # Never => mishaps' >= 1
      BY <1>2, <1>6, <2>3, <3>1
    <3>3. row' = row /\ (row.checked => Final(orders[Entry]))
      BY <2>3 DEF EntryInv, RowTrue
    <3> QED
      BY <1>2, <3>2, <3>3 DEF RowTrue
  <2> QED
    BY <1>3, <2>1, <2>2, <2>3
<1>8. phase' \in Phases \cup {"closing"} /\ overlaps' \in 0..MaxOverlaps
      /\ actual' \in {"none", "UNRESOLVED", "NO_FILL", "CLOSED"} /\ "idle" \in Steps /\ Fresh \in Locals
  BY <1>1, FreshTyped DEF EntryInv, OrdersTypeOK, Steps
<1>9. Moves /\ ~(\E q \in Runners : pc[q] \in CheckSteps \cup ExitSteps)
  BY <1>1, <1>2, Still, RowlessIsQuiet
<1> QED
  BY <1>0, <1>1, <1>4, <1>5, <1>7, <1>8, <1>9, OtherStep

\* The broker and the day change no job and no row.
LEMMA OutsideEntry ==
  ASSUME EntryInv, TimePasses \/ Broker \/ Reconcile PROVE EntryInv'
<1>0. "tick" \in Runners
  BY DEF Runners
<1>1. UNCHANGED <<row, pc, local, overlaps>>
  BY DEF TimePasses, Broker, Fills, Stops, Reconcile
<1>2. Moves
  <2>1. CASE TimePasses
    BY <2>1, TimeMoves DEF EntryInv
  <2>2. CASE Reconcile
    BY <2>2, Still DEF Reconcile
  <2>3. CASE Broker
    <3>1. PICK i \in Ids : Fills(i) \/ Stops(i, "canceled") \/ Stops(i, "rejected")
      BY <2>3 DEF Broker
    <3> QED
      BY <3>1, FillsMove, StopsMove DEF EntryInv
  <2> QED
    BY <2>1, <2>2, <2>3
<1>3. mishaps' \in 0..MaxMishaps /\ mishaps' >= mishaps /\ mishaps \in Nat
  <2>1. Mishap \/ NoMishap
    BY DEF TimePasses, Broker, Fills, Stops, Reconcile, Mishap, NoMishap
  <2> QED
    BY <2>1, MishapTyped, OrdersConstants DEF EntryInv, OrdersTypeOK
<1>4. phase' \in Phases \cup {"closing"}
  BY DEF TimePasses, Broker, Fills, Stops, Reconcile, EntryInv, OrdersTypeOK, Phases
<1>5. actual' \in {"none", "UNRESOLVED", "NO_FILL", "CLOSED"}
  BY DEF TimePasses, Broker, Fills, Stops, Reconcile, Verdict, EntryInv, OrdersTypeOK
<1>6. orders'[Entry] # Never => orders[Entry] # Never
  <2>1. CASE UNCHANGED orders
    BY <2>1
  <2>2. CASE TimePasses
    BY <2>2, IdFacts DEF TimePasses, Never, Working
  <2>3. CASE Broker
    <3>1. PICK i \in Ids : Fills(i) \/ Stops(i, "canceled") \/ Stops(i, "rejected")
      BY <2>3 DEF Broker
    <3>2. orders[i] # Never
      BY <3>1 DEF Fills, Stops, Never
    <3>3. i # Entry => orders'[Entry] = orders[Entry]
      BY <3>1, IdFacts DEF Fills, Stops, EntryInv, OrdersTypeOK
    <3> QED
      BY <3>2, <3>3
  <2> QED
    BY <2>1, <2>2, <2>3 DEF Reconcile
<1>7. RowTrue'
  <2>1. Final(orders[Entry]) => Final(orders'[Entry])
    BY <1>2 DEF Moves
  <2>2. (mishaps >= 1 => mishaps' >= 1) /\ (mishaps >= 2 => mishaps' >= 2)
    BY <1>3
  <2> QED
    BY <1>1, <1>6, <2>1, <2>2 DEF EntryInv, RowTrue
<1>8. PICK l \in Locals, step \in Steps : l = local["tick"] /\ step = pc["tick"]
  BY <1>0 DEF EntryInv, OrdersTypeOK
<1>9. pc' = [pc EXCEPT !["tick"] = step] /\ local' = [local EXCEPT !["tick"] = l]
  BY <1>0, <1>1, <1>8 DEF EntryInv, OrdersTypeOK
<1>10. Honest("tick", step, l)'
  <2>1. Honest("tick", step, l)
    BY <1>0, <1>8 DEF EntryInv, JobsHonest
  <2>2. Final(orders[Entry]) => Final(orders'[Entry])
    BY <1>2 DEF Moves
  <2> QED
    BY <1>1, <2>1, <2>2 DEF Honest
<1>11. row' \in Rows /\ overlaps' \in 0..MaxOverlaps
  BY <1>1 DEF EntryInv, OrdersTypeOK
<1> QED
  BY <1>0, <1>1, <1>2, <1>3, <1>4, <1>5, <1>7, <1>9, <1>10, <1>11, OtherStep

\* All of it holds before the entry.
LEMMA EntryInit == OrdersInit => EntryInv
<1> SUFFICES ASSUME OrdersInit PROVE EntryInv
  OBVIOUS
<1>1. OrdersTypeOK
  BY FreshTyped, OrdersConstants DEF OrdersInit, OrdersTypeOK, Phases, Steps
<1>2. Shaped(orders)
  <2>1. orders = Unread /\ Entry \in Ids /\ Legs \in Ids
    BY IdFacts DEF OrdersInit
  <2>2. \A i \in Ids : orders[i] = Never
    BY <2>1 DEF Unread
  <2>3. \A i \in Ids : ShapedOrder(i, Never)
    BY DEF ShapedOrder, Never
  <2> QED
    BY <2>1, <2>2, <2>3 DEF Shaped, Never
<1>3. JobsHonest
  BY DEF OrdersInit, JobsHonest, Honest, Fresh, NoRow, CheckSteps, ExitSteps, AfterEntry
<1>4. RowTrue
  BY IdFacts DEF OrdersInit, RowTrue, NoRow, Unread
<1> QED
  BY <1>1, <1>2, <1>3, <1>4 DEF EntryInv

\* And every step of the jobs, the broker and the day keeps it.
LEMMA EntryStep == EntryInv /\ [OrdersNext]_orderVars => EntryInv'
<1> SUFFICES ASSUME EntryInv, [OrdersNext]_orderVars PROVE EntryInv'
  OBVIOUS
<1>1. CASE TimePasses \/ Broker \/ Reconcile
  BY <1>1, OutsideEntry
<1>2. CASE SubmitStep
  BY <1>2, StartSubmitEntry, PostEntryEntry, RecordEntryEntry DEF SubmitStep
<1>3. CASE ExitStep
  BY <1>3, StartExitEntry, ExitReadEntry, ExitCancelEntry, ExitRereadEntry, ExitSellEntry, ExitPostEntry,
     ExitCloseEntry, ExitRecordEntry DEF ExitStep
<1>4. ASSUME NEW r \in Runners, CheckStep(r) PROVE EntryInv'
  BY <1>4, StartCheckEntry, ReadEntry, CancelEntryEntry, RereadEntry, JudgeEntry, CancelLegsEntry,
     RereadLegsEntry, ProtectPartEntry, PostProtectEntry, ConfirmProtectEntry, PostFlattenEntry,
     ConfirmFlattenEntry DEF CheckStep
<1>5. ASSUME NEW r \in Runners, Dies(r) PROVE EntryInv'
  BY <1>5, DiesEntry
<1>6. CASE UNCHANGED orderVars
  BY <1>6 DEF orderVars, EntryInv, OrdersTypeOK, Shaped, ShapedOrder, JobsHonest, Honest, RowTrue, Final
<1> QED
  BY <1>1, <1>2, <1>3, <1>4, <1>5, <1>6 DEF OrdersNext

\* Whatever is lost, and whichever job is in the forecast, the row says of the entry
\* what is so at the broker: called ended it can buy nothing more, and called
\* refused it was never placed, unless two answers were lost.
THEOREM RowIsTrueOfEntry == OrdersSpec => []EntryHolds
<1>1. EntryInv => EntryHolds
  BY DEF EntryInv, EntryHolds, RowTrue, EntryEndsFirst, PlacedIsNotRefused
<1> QED
  BY <1>1, EntryInit, EntryStep, PTL DEF OrdersSpec

-----------------------------------------------------------------------------
(* EdgePaper: the shares, while the jobs come one at a time.               *)

Morning == {"entry", "due", "overdue"}

\* Where in the day a job can be.
InPhase(step) ==
  /\ step \in CheckSteps => phase \in {"due", "overdue"}
  /\ step \in ExitSteps => phase \in {"exit", "last", "closing"}
  /\ step \in {"post entry", "look up entry"} => phase \in Morning

DayInv ==
  /\ EntryInv
  /\ \A r \in Runners : InPhase(pc[r])
  /\ phase \in Morning => orders[Close] = Never

\* The shares that an order offers: those it has sold and those it still works on.
OfferedBy(o) == IF o.status \in {"working", "canceling"} THEN o.qty ELSE o.filled
Pile(g, ids) == {share \in ids \X (1..Shares) : share[2] <= g[share[1]]}
Counted(g, ids) == Cardinality(Pile(g, ids))
Offers(os) == [i \in Ids |-> OfferedBy(os[i])]
Trades(os) == [i \in Ids |-> os[i].filled]
OfferedOf(os, ids) == Counted(Offers(os), ids)

\* Once a flatten is recorded no protective exit is at work, or will be posted.
Flattened(rec) ==
  rec.pf # 0 => /\ \A i \in Protect : ~Working(orders[i])
                /\ rec.refused \/ rec.px = MaxTries \/ \E i \in Protect : Final(orders[i])

\* What the row says of the exits: every one that was placed is recorded.
RowKnows ==
  /\ row.state = "none" => row = NoRow
  /\ row.state = "submitted" => orders[Entry] # Never
  /\ pc["tick"] = "look up entry" /\ local["tick"].code = "accepted" => orders[Entry] # Never
  /\ ~row.closes
  /\ row.checked => phase # "entry"
  /\ \A n \in 1..MaxTries : /\ orders[<<"px", n>>] # Never => n <= row.px
                            /\ orders[<<"pf", n>>] # Never => n <= row.pf
  /\ \A n \in 1..MaxSells : orders[<<"tx", n>>] # Never => n <= row.tx
  /\ Flattened(row)

\* How the exits follow each other: legs while the entry works, then one protective
\* exit at most, and time exits in their phase.
InTurn ==
  /\ orders[Entry] # Never => orders[Legs] # Never
  /\ \A i \in Protect \cup Flatten \cup TimeExit : orders[i] # Never => Final(orders[Entry]) /\ Final(orders[Legs])
  /\ \A i \in Protect : orders[i] # Never =>
       /\ orders[i].qty + orders[Legs].filled = Bought(orders)
       /\ \A j \in Protect \ {i} : orders[j] = Never
  /\ Final(orders[Entry]) /\ orders[Legs].status \in {"working", "canceling", "filled"} =>
       orders[Legs].qty = Bought(orders)
  /\ phase \in Morning =>
       /\ orders[Entry].status \in {"working", "canceling"} => orders[Legs].status = "held"
       /\ orders[Entry].status = "filled" => orders[Legs].status \in {"working", "filled"}
       /\ \A i \in TimeExit : orders[i] = Never

\* What the exits offer fits into what was bought.
Fit ==
  /\ OfferedOf(orders, ExitIds \ Flatten) <= Bought(orders)
  /\ OfferedOf(orders, ExitIds) <= Bought(orders) \/ \E i \in Protect : orders[i].filled > 0

\* What a done deadline step has left.
Covers ==
  phase \in {"due", "overdue"} /\ row.checked =>
    \/ Bought(orders) <= FilledOf(orders, ExitIds)
    \/ orders[Legs].status = "working"
    \/ \E i \in Protect : orders[i].status = "working"
    \/ \E i \in ExitIds : orders[i].status = "rejected"

\* What a done forecast has left.
Over ==
  /\ row.done => /\ row.state = "submitted" /\ phase \notin Morning
                 /\ \A r \in Runners : pc[r] = "idle"
                 /\ \A i \in Ids : ~Working(orders[i])
                 /\ Bought(orders) = FilledOf(orders, ExitIds)
  /\ actual # "none" => phase = "after"
  /\ row.done /\ actual # "none" => actual = IF Bought(orders) = 0 THEN "NO_FILL" ELSE "CLOSED"

Counting == {"judge", "cancel legs", "reread legs", "protect", "x cancel", "x reread", "x sell"}

\* What the one job that is at step, with what it holds in l, relies on.
Relies(step, l) ==
  /\ step \in CheckSteps \cup ExitSteps => l.rec = row /\ ~row.done
  /\ step \in CheckSteps => ~row.checked
  /\ step # "x record"
  /\ step \in Counting => \A i \in Known(row) :
       /\ ShapedOrder(i, l.snap[i])
       /\ ~Working(l.snap[i]) => orders[i] = l.snap[i]
  /\ step \in {"judge", "cancel legs", "reread legs", "protect"} => Final(l.snap[Entry])
  /\ step = "protect" => ~Working(l.snap[Legs])
  /\ step = "x sell" => \A i \in Known(row) : ~Working(l.snap[i])
  /\ step \in {"judge", "protect"} => \A i \in Known(row) :
       l.snap[i].status = "working" => orders[i].status \in {"working", "filled", "rejected"}
  /\ step = "cancel legs" => orders[Entry].status # "filled"
  /\ step \in {"protect", "post px", "confirm px", "post pf", "confirm pf"} => Final(orders[Legs])
  /\ step = "post px" =>
       /\ \A i \in Protect : orders[i] = Never
       /\ row.pf = 0
       /\ l.owned + orders[Legs].filled = Bought(orders)
       /\ OfferedOf(orders, ExitIds) + l.owned <= Bought(orders)
       /\ Bought(orders) <= FilledOf(orders, ExitIds) + l.owned
  /\ step = "confirm px" =>
       /\ \A i \in Protect \ {<<"px", row.px>>} : orders[i] = Never
       /\ row.pf = 0
       /\ orders[<<"px", row.px>>].status # "canceling"
       /\ OfferedOf(orders, ExitIds \ {<<"px", row.px>>}) + l.owned <= Bought(orders)
       /\ Bought(orders) <= FilledOf(orders, ExitIds \ {<<"px", row.px>>}) + l.owned
  /\ step = "post pf" =>
       OfferedOf(orders, ExitIds) + l.owned <= Bought(orders) \/ \E i \in Protect : orders[i].filled > 0
  /\ step \in {"post pf", "confirm pf"} =>
       Bought(orders) <= FilledOf(orders, ExitIds \ {<<"pf", row.pf>>}) + l.owned
  /\ step \in {"x sell", "x post", "x close"} =>
       /\ Final(orders[Entry]) /\ Final(orders[Legs])
       /\ \A i \in Protect \cup Flatten : ~Working(orders[i])
  /\ step = "x post" =>
       /\ \A i \in TimeExit : ~Working(orders[i])
       /\ OfferedOf(orders, ExitIds) + l.owned <= Bought(orders)
  /\ step = "x close" => OfferedOf(orders, ExitIds) <= Bought(orders)

Solo ==
  /\ pc["tick"] = "idle" \/ pc["guard"] = "idle"
  /\ \A r \in Runners : Relies(pc[r], local[r])
  /\ RowKnows /\ InTurn /\ Fit /\ Covers /\ Over

OneByOne == overlaps = 0 /\ orders[Close] = Never

SoloInv == DayInv /\ (OneByOne => Solo)

\* Orders move without a post: what does not work stays, and what works offers no more
\* than before.
Drifts ==
  /\ Moves
  /\ \A i \in Ids :
       /\ ~Working(orders[i]) => orders'[i] = orders[i]
       /\ Working(orders[i]) => orders'[i].status # "none"
       /\ orders'[i].status = "held" => orders[i].status = "held"
       /\ orders'[i].qty = orders[i].qty /\ orders[i].filled <= orders'[i].filled
       /\ OfferedBy(orders'[i]) <= OfferedBy(orders[i])
  /\ orders'[Entry].status = "filled" => orders[Entry].status = "filled"
  /\ orders[Legs].status = "held" => orders'[Legs].status \in {"held", "canceled"}

\* And nobody has asked what works to end.
Works == \A i \in Ids : orders[i].status = "working" => orders'[i].status \in {"working", "filled", "rejected"}

\* In the morning the legs wait for the entry, and then work.
LegsKept ==
  phase \in Morning =>
    /\ orders[Legs].status = "held" /\ ~Final(orders[Entry]) => orders'[Legs].status = "held"
    /\ orders[Legs].status = "working" /\ orders[Entry].status = "filled" =>
         orders'[Legs].status \in {"working", "filled"}

\* An order is placed.
Places(id, qty) ==
  /\ orders[id] = Never
  /\ orders' = [orders EXCEPT ![id] = [status |-> "working", qty |-> qty, filled |-> 0]]

\* A job at work on a placed forecast writes its row.
Writes ==
  /\ row' \in Rows /\ row'.state = "submitted" /\ ~row'.closes
  /\ row.px <= row'.px /\ row.pf <= row'.pf /\ row.tx <= row'.tx

-----------------------------------------------------------------------------
(* Counts of shares, by order.                                             *)

\* The number of the shares of some orders.
LEMMA CountedTyped ==
  ASSUME NEW g, NEW S \in SUBSET Ids
  PROVE  IsFiniteSet(Pile(g, S)) /\ Counted(g, S) \in Nat
<1>1. Pile(g, S) \subseteq Ids \X (1..Shares)
  BY DEF Pile
<1>2. IsFiniteSet(Pile(g, S))
  BY <1>1, IdsFinite, FS_Subset
<1> QED
  BY <1>2, FS_CardinalityType DEF Counted

\* That of one order.
LEMMA CountedOne ==
  ASSUME NEW g \in [Ids -> 0..Shares], NEW i \in Ids
  PROVE  Counted(g, {i}) = g[i]
<1> DEFINE k == g[i]
<1>1. k \in 0..Shares /\ k \in Nat
  BY OrdersConstants
<1>2. Pile(g, {i}) = {i} \X (1..k)
  <2>1. ASSUME NEW p \in Pile(g, {i}) PROVE p \in {i} \X (1..k)
    <3>1. p \in {i} \X (1..Shares) /\ p[2] <= g[p[1]]
      BY <2>1 DEF Pile
    <3>2. p[1] = i /\ p[2] \in 1..Shares /\ p = <<p[1], p[2]>>
      BY <3>1
    <3>3. p[2] \in 1..k
      BY <1>1, <3>1, <3>2, OrdersConstants
    <3> QED
      BY <3>2, <3>3
  <2>2. ASSUME NEW p \in {i} \X (1..k) PROVE p \in Pile(g, {i})
    <3>1. p[1] = i /\ p[2] \in 1..k /\ p = <<p[1], p[2]>>
      BY <2>2
    <3>2. p[2] \in 1..Shares /\ p[2] <= g[p[1]]
      BY <1>1, <3>1, OrdersConstants
    <3>3. p \in {i} \X (1..Shares)
      BY <3>1, <3>2
    <3> QED
      BY <3>2, <3>3 DEF Pile
  <2> QED
    BY <2>1, <2>2
<1> HIDE DEF k
<1>3. IsFiniteSet({i}) /\ Cardinality({i}) = 1
  BY FS_Singleton
<1>4. IsFiniteSet(1..k) /\ Cardinality(1..k) = k
  BY <1>1, FS_Interval
<1>5. Cardinality({i} \X (1..k)) = 1 * k
  BY <1>3, <1>4, FS_Product
<1>6. Cardinality({i} \X (1..k)) = k
  BY <1>1, <1>5
<1>7. Counted(g, {i}) = k
  BY <1>2, <1>6, Zenon DEF Counted
<1> QED
  BY <1>7 DEF k

\* That of two sets of orders.
LEMMA CountedUnion ==
  ASSUME NEW g, NEW S \in SUBSET Ids, NEW R \in SUBSET Ids, S \cap R = {}
  PROVE  Counted(g, S \cup R) = Counted(g, S) + Counted(g, R)
<1>1. Pile(g, S \cup R) = Pile(g, S) \cup Pile(g, R)
  BY DEF Pile
<1>2. Pile(g, S) \cap Pile(g, R) = {}
  BY DEF Pile
<1>3. /\ IsFiniteSet(Pile(g, S)) /\ IsFiniteSet(Pile(g, R))
      /\ Cardinality(Pile(g, S)) \in Nat /\ Cardinality(Pile(g, R)) \in Nat
  BY CountedTyped DEF Counted
<1>4. Cardinality(Pile(g, S) \cup Pile(g, R)) =
        Cardinality(Pile(g, S)) + Cardinality(Pile(g, R)) - Cardinality(Pile(g, S) \cap Pile(g, R))
  BY <1>3, FS_Union
<1>5. Cardinality(Pile(g, S) \cap Pile(g, R)) = 0
  BY <1>2, FS_EmptySet
<1>6. PICK m \in Nat, n \in Nat : m = Cardinality(Pile(g, S)) /\ n = Cardinality(Pile(g, R))
  BY <1>3
<1>7. m + n - 0 = m + n
  OBVIOUS
<1>8. Cardinality(Pile(g, S) \cup Pile(g, R)) = m + n
  BY <1>4, <1>5, <1>6, <1>7, Zenon
<1> QED
  BY <1>1, <1>6, <1>8, Zenon DEF Counted

\* More shares, or of more orders, are not fewer.
LEMMA CountedMonotone ==
  ASSUME NEW g \in [Ids -> 0..Shares], NEW h \in [Ids -> 0..Shares],
         NEW S \in SUBSET Ids, NEW R \in SUBSET Ids, S \subseteq R,
         \A i \in S : g[i] <= h[i]
  PROVE  Counted(g, S) <= Counted(h, R)
<1>1. ASSUME NEW p \in Pile(g, S) PROVE p \in Pile(h, R)
  <2>1. p \in S \X (1..Shares) /\ p[2] <= g[p[1]]
    BY <1>1 DEF Pile
  <2>2. p[1] \in S /\ p[2] \in 1..Shares /\ p[1] \in Ids
    BY <2>1
  <2>3. g[p[1]] \in Int /\ h[p[1]] \in Int /\ p[2] \in Int /\ g[p[1]] <= h[p[1]]
    BY <2>2, OrdersConstants
  <2>4. p[2] <= h[p[1]]
    BY <2>1, <2>3
  <2>5. p \in R \X (1..Shares)
    BY <2>1
  <2> QED
    BY <2>4, <2>5 DEF Pile
<1>2. Pile(g, S) \in SUBSET Pile(h, R)
  BY <1>1
<1>3. IsFiniteSet(Pile(h, R))
  BY CountedTyped
<1>4. Cardinality(Pile(g, S)) <= Cardinality(Pile(h, R))
  BY <1>2, <1>3, FS_Subset
<1> QED
  BY <1>4 DEF Counted

\* The same shares are as many.
LEMMA CountedSame ==
  ASSUME NEW g, NEW h, NEW S \in SUBSET Ids, \A i \in S : g[i] = h[i]
  PROVE  Counted(g, S) = Counted(h, S)
<1>1. Pile(g, S) = Pile(h, S)
  BY DEF Pile
<1> QED
  BY <1>1 DEF Counted

\* One order among others.
LEMMA CountedSplit ==
  ASSUME NEW g \in [Ids -> 0..Shares], NEW S \in SUBSET Ids, NEW i \in S
  PROVE  /\ Counted(g, S) = Counted(g, S \ {i}) + g[i]
         /\ Counted(g, S) \in Nat /\ Counted(g, S \ {i}) \in Nat /\ g[i] \in Nat
<1>1. S = (S \ {i}) \cup {i} /\ (S \ {i}) \cap {i} = {}
  OBVIOUS
<1>2. Counted(g, (S \ {i}) \cup {i}) = Counted(g, S \ {i}) + Counted(g, {i})
  BY <1>1, CountedUnion
<1>3. Counted(g, {i}) = g[i] /\ g[i] \in 0..Shares
  BY CountedOne
<1>4. Counted(g, S) \in Nat /\ Counted(g, S \ {i}) \in Nat
  BY CountedTyped
<1>5. g[i] \in Nat
  BY <1>3, OrdersConstants
<1> QED
  BY <1>1, <1>2, <1>3, <1>4, <1>5

\* Orders without shares do not count.
LEMMA CountedNone ==
  ASSUME NEW g \in [Ids -> 0..Shares], NEW S \in SUBSET Ids, \A i \in S : g[i] = 0
  PROVE  Counted(g, S) = 0
<1>1. ASSUME NEW p \in Pile(g, S) PROVE FALSE
  <2>1. p \in S \X (1..Shares) /\ p[2] <= g[p[1]]
    BY <1>1 DEF Pile
  <2>2. p[1] \in S /\ p[2] \in 1..Shares
    BY <2>1
  <2>3. g[p[1]] = 0
    BY <2>2
  <2> QED
    BY <2>1, <2>2, <2>3, OrdersConstants
<1>2. Pile(g, S) = {}
  BY <1>1
<1> QED
  BY <1>2, FS_EmptySet DEF Counted

\* The rest of a set of orders does not count when it has no shares.
LEMMA CountedPart ==
  ASSUME NEW g \in [Ids -> 0..Shares], NEW S \in SUBSET Ids, NEW R \in SUBSET Ids, S \subseteq R,
         \A i \in R \ S : g[i] = 0
  PROVE  Counted(g, R) = Counted(g, S)
<1>1. R = S \cup (R \ S) /\ S \cap (R \ S) = {} /\ R \ S \in SUBSET Ids
  OBVIOUS
<1>2. Counted(g, S \cup (R \ S)) = Counted(g, S) + Counted(g, R \ S)
  BY <1>1, CountedUnion
<1>3. Counted(g, R \ S) = 0
  BY <1>1, CountedNone
<1>4. Counted(g, S) \in Nat
  BY CountedTyped
<1>5. Counted(g, R) = Counted(g, S) + 0
  BY <1>1, <1>2, <1>3, Zenon
<1> QED
  BY <1>4, <1>5

\* What has traded, and what is offered.
LEMMA TradesTyped ==
  ASSUME NEW os \in [Ids -> Order]
  PROVE  /\ Trades(os) \in [Ids -> 0..Shares] /\ Offers(os) \in [Ids -> 0..Shares]
         /\ \A i \in Ids : Trades(os)[i] = os[i].filled /\ Offers(os)[i] = OfferedBy(os[i])
         /\ \A S \in SUBSET Ids : FilledOf(os, S) = Counted(Trades(os), S)
<1>1. \A i \in Ids : os[i].filled \in 0..Shares /\ os[i].qty \in 0..Shares
  BY DEF Order
<1>2. \A i \in Ids : OfferedBy(os[i]) \in 0..Shares
  BY <1>1 DEF OfferedBy
<1>3. /\ Trades(os) \in [Ids -> 0..Shares] /\ Offers(os) \in [Ids -> 0..Shares]
      /\ \A i \in Ids : Trades(os)[i] = os[i].filled /\ Offers(os)[i] = OfferedBy(os[i])
  BY <1>1, <1>2 DEF Trades, Offers
<1>4. ASSUME NEW S \in SUBSET Ids PROVE FilledOf(os, S) = Counted(Trades(os), S)
  <2>1. {share \in S \X (1..Shares) : share[2] <= os[share[1]].filled} = Pile(Trades(os), S)
    BY <1>3 DEF Pile
  <2> QED
    BY <2>1 DEF FilledOf, Counted
<1> QED
  BY <1>3, <1>4

-----------------------------------------------------------------------------
(* How orders drift.                                                       *)

\* No order moves.
LEMMA StillDrifts ==
  ASSUME EntryInv, UNCHANGED orders PROVE Drifts /\ Works /\ LegsKept
<1>1. \A i \in Ids : orders[i] \in Order
  BY DEF EntryInv, OrdersTypeOK
<1>2. \A i \in Ids : OfferedBy(orders[i]) \in Int /\ orders[i].filled \in Int
  BY <1>1, OrdersConstants DEF OfferedBy, Order
<1>3. \A i \in Ids : OfferedBy(orders[i]) <= OfferedBy(orders[i]) /\ orders[i].filled <= orders[i].filled
  BY <1>2
<1>4. Drifts
  BY <1>3, Still DEF Drifts, Working
<1> QED
  BY <1>4 DEF Works, LegsKept

\* Some are asked to end.
LEMMA CancelsDrift ==
  ASSUME EntryInv, NEW ids, Cancels(ids)
  PROVE  Drifts /\ \A i \in Ids \ ids : orders'[i] = orders[i]
<1>0. Entry \in Ids /\ Legs \in Ids
  BY IdFacts
<1>1. PICK taken \in SUBSET ids :
        orders' = [i \in Ids |-> IF i \in taken THEN Asked(orders[i]) ELSE orders[i]]
  BY DEF Cancels
<1>2. ASSUME NEW i \in Ids
      PROVE  /\ orders'[i].filled = orders[i].filled /\ orders'[i].qty = orders[i].qty
             /\ \/ orders'[i] = orders[i]
                \/ orders[i].status = "held" /\ orders'[i].status = "canceled" /\ i \in ids
                \/ orders[i].status = "working" /\ orders'[i].status = "canceling" /\ i \in ids
  <2>1. orders[i] \in Order
    BY DEF EntryInv, OrdersTypeOK
  <2>2. orders'[i] = IF i \in taken THEN Asked(orders[i]) ELSE orders[i]
    BY <1>1
  <2>3. CASE i \in taken
    BY <2>1, <2>2, <2>3 DEF Asked, Order
  <2> QED
    BY <2>2, <2>3
<1>3. ASSUME NEW i \in Ids
      PROVE  /\ ~Working(orders[i]) => orders'[i] = orders[i]
             /\ Working(orders[i]) => orders'[i].status # "none"
             /\ orders'[i].status = "held" => orders[i].status = "held"
             /\ orders'[i].qty = orders[i].qty /\ orders[i].filled <= orders'[i].filled
             /\ OfferedBy(orders'[i]) <= OfferedBy(orders[i])
             /\ i \notin ids => orders'[i] = orders[i]
             /\ orders'[i].status = "filled" => orders[i].status = "filled"
             /\ orders[i].status = "held" => orders'[i].status \in {"held", "canceled"}
  <2>1. orders[i].filled \in Int /\ orders[i].qty \in Int /\ orders[i].status \in Statuses
    BY OrdersConstants DEF EntryInv, OrdersTypeOK, Order
  <2>2. CASE orders'[i] = orders[i]
    <3>1. OfferedBy(orders[i]) \in Int
      BY <2>1 DEF OfferedBy
    <3> QED
      BY <2>1, <2>2, <3>1 DEF Working
  <2>3. CASE orders[i].status = "held" /\ orders'[i].status = "canceled" /\ i \in ids
    BY <1>2, <2>1, <2>3 DEF Working, OfferedBy
  <2>4. CASE orders[i].status = "working" /\ orders'[i].status = "canceling" /\ i \in ids
    BY <1>2, <2>1, <2>4 DEF Working, OfferedBy
  <2> QED
    BY <1>2, <2>2, <2>3, <2>4
<1>4. Moves
  BY CancelsMove DEF EntryInv
<1>5. Drifts
  BY <1>0, <1>3, <1>4 DEF Drifts
<1> QED
  BY <1>3, <1>5

\* One share of an exit trades.
LEMMA FillsDrift ==
  ASSUME EntryInv, NEW i \in Ids, i # Entry, Fills(i) PROVE Drifts /\ Works /\ LegsKept
<1>0. Entry \in Ids /\ Legs \in Ids
  BY IdFacts
<1>1. /\ orders[i] \in Order /\ orders[i].status \in {"working", "canceling"}
      /\ orders[i].filled < orders[i].qty
  BY DEF EntryInv, OrdersTypeOK, Fills, Shaped, ShapedOrder
<1>2. orders' = [orders EXCEPT ![i] = OneMore(orders[i])]
  BY DEF Fills
<1>3. \A j \in Ids \ {i} : orders'[j] = orders[j]
  BY <1>2 DEF EntryInv, OrdersTypeOK
<1>4. orders'[i] = OneMore(orders[i])
  BY <1>2 DEF EntryInv, OrdersTypeOK
<1>5. /\ orders'[i].filled = orders[i].filled + 1 /\ orders'[i].qty = orders[i].qty
      /\ orders'[i].status = IF orders[i].filled + 1 = orders[i].qty THEN "filled" ELSE orders[i].status
  <2> DEFINE status == IF orders[i].filled + 1 = orders[i].qty THEN "filled" ELSE orders[i].status
  <2>1. orders'[i] = [orders[i] EXCEPT !.filled = orders[i].filled + 1, !.status = status]
    BY <1>4 DEF OneMore
  <2> HIDE DEF status
  <2>2. orders'[i].filled = orders[i].filled + 1 /\ orders'[i].qty = orders[i].qty /\ orders'[i].status = status
    BY <1>1, <2>1 DEF Order
  <2> QED
    BY <2>2 DEF status
<1>6. orders[i].filled \in Int /\ orders[i].qty \in Int
  BY <1>1, OrdersConstants DEF Order
<1>7. OfferedBy(orders'[i]) = orders[i].qty /\ OfferedBy(orders[i]) = orders[i].qty
  BY <1>1, <1>5, <1>6 DEF OfferedBy
<1>8. ASSUME NEW j \in Ids
      PROVE  /\ ~Working(orders[j]) => orders'[j] = orders[j]
             /\ Working(orders[j]) => orders'[j].status # "none"
             /\ orders'[j].status = "held" => orders[j].status = "held"
             /\ orders'[j].qty = orders[j].qty /\ orders[j].filled <= orders'[j].filled
             /\ OfferedBy(orders'[j]) <= OfferedBy(orders[j])
             /\ orders[j].status = "working" => orders'[j].status \in {"working", "filled"}
             /\ orders[j].status = "held" => orders'[j].status = "held"
  <2>1. CASE j = i
    BY <1>1, <1>5, <1>6, <1>7, <2>1 DEF Working
  <2>2. CASE j # i
    <3>1. orders[j].filled \in Int /\ orders[j].qty \in Int
      BY OrdersConstants DEF EntryInv, OrdersTypeOK, Order
    <3>2. orders'[j] = orders[j] /\ OfferedBy(orders[j]) \in Int
      BY <1>3, <2>2, <3>1 DEF OfferedBy
    <3> QED
      BY <3>1, <3>2 DEF Working
  <2> QED
    BY <2>1, <2>2
<1>9. Moves
  BY FillsMove DEF EntryInv
<1>10. orders'[Entry] = orders[Entry]
  BY <1>0, <1>3
<1> QED
  BY <1>0, <1>8, <1>9, <1>10 DEF Drifts, Works, LegsKept

\* An exit ends.
LEMMA StopsDrift ==
  ASSUME EntryInv, NEW i \in Ids, i # Entry, NEW status \in {"canceled", "rejected"}, Stops(i, status)
  PROVE  Drifts /\ Works /\ LegsKept
<1>0. Entry \in Ids /\ Legs \in Ids
  BY IdFacts
<1>1. /\ orders[i] \in Order /\ orders[i].filled <= orders[i].qty
      /\ \/ orders[i].status = "canceling" /\ status = "canceled"
         \/ orders[i].status = "working" /\ status = "rejected" /\ i # Legs
  BY DEF EntryInv, OrdersTypeOK, Stops, Shaped, ShapedOrder
<1>2. orders' = [orders EXCEPT ![i].status = status]
  BY DEF Stops
<1>3. \A j \in Ids \ {i} : orders'[j] = orders[j]
  BY <1>2 DEF EntryInv, OrdersTypeOK
<1>4. orders'[i] = [orders[i] EXCEPT !.status = status]
  BY <1>2 DEF EntryInv, OrdersTypeOK
<1>5. orders'[i].filled = orders[i].filled /\ orders'[i].qty = orders[i].qty /\ orders'[i].status = status
  BY <1>1, <1>4 DEF Order
<1>6. orders[i].filled \in Int /\ orders[i].qty \in Int
  BY <1>1, OrdersConstants DEF Order
<1>7. OfferedBy(orders'[i]) = orders[i].filled /\ OfferedBy(orders[i]) = orders[i].qty
  BY <1>1, <1>5 DEF OfferedBy
<1>8. ASSUME NEW j \in Ids
      PROVE  /\ ~Working(orders[j]) => orders'[j] = orders[j]
             /\ Working(orders[j]) => orders'[j].status # "none"
             /\ orders'[j].status = "held" => orders[j].status = "held"
             /\ orders'[j].qty = orders[j].qty /\ orders[j].filled <= orders'[j].filled
             /\ OfferedBy(orders'[j]) <= OfferedBy(orders[j])
             /\ orders[j].status = "working" => orders'[j].status \in {"working", "rejected"}
             /\ orders[j].status = "working" /\ j = Legs => orders'[j].status = "working"
             /\ orders[j].status = "held" => orders'[j].status = "held"
  <2>1. CASE j = i
    BY <1>1, <1>5, <1>6, <1>7, <2>1 DEF Working
  <2>2. CASE j # i
    <3>1. orders[j].filled \in Int /\ orders[j].qty \in Int
      BY OrdersConstants DEF EntryInv, OrdersTypeOK, Order
    <3>2. orders'[j] = orders[j] /\ OfferedBy(orders[j]) \in Int
      BY <1>3, <2>2, <3>1 DEF OfferedBy
    <3> QED
      BY <3>1, <3>2 DEF Working
  <2> QED
    BY <2>1, <2>2
<1>9. Moves
  BY StopsMove DEF EntryInv
<1>10. orders'[Entry] = orders[Entry]
  BY <1>0, <1>3
<1> QED
  BY <1>0, <1>8, <1>9, <1>10 DEF Drifts, Works, LegsKept

\* The close ends what still works.
LEMMA TimeDrifts ==
  ASSUME EntryInv, TimePasses
  PROVE  Drifts /\ (UNCHANGED orders \/ phase' = "after")
<1>0. Entry \in Ids /\ Legs \in Ids
  BY IdFacts
<1>1. CASE UNCHANGED orders
  BY <1>1, StillDrifts
<1>2. CASE /\ phase' = "after"
           /\ orders' = [i \in Ids |-> IF Working(orders[i]) THEN [orders[i] EXCEPT !.status = "canceled"]
                                       ELSE orders[i]]
  <2>1. ASSUME NEW i \in Ids
        PROVE  /\ ~Working(orders[i]) => orders'[i] = orders[i]
               /\ Working(orders[i]) => orders'[i].status = "canceled"
               /\ orders'[i].qty = orders[i].qty /\ orders[i].filled <= orders'[i].filled
               /\ OfferedBy(orders'[i]) <= OfferedBy(orders[i])
    <3>1. /\ orders[i] \in Order /\ orders[i].filled <= orders[i].qty
          /\ orders[i].filled \in Int /\ orders[i].qty \in Int
      BY OrdersConstants DEF EntryInv, OrdersTypeOK, Shaped, ShapedOrder, Order
    <3>2. CASE Working(orders[i])
      <4>1. orders'[i] = [orders[i] EXCEPT !.status = "canceled"]
        BY <1>2, <3>2
      <4>2. orders'[i].filled = orders[i].filled /\ orders'[i].qty = orders[i].qty /\ orders'[i].status = "canceled"
        BY <3>1, <4>1 DEF Order
      <4> QED
        BY <3>1, <3>2, <4>2 DEF OfferedBy
    <3>3. CASE ~Working(orders[i])
      <4>1. orders'[i] = orders[i] /\ OfferedBy(orders[i]) \in Int
        BY <1>2, <3>1, <3>3 DEF OfferedBy
      <4> QED
        BY <3>1, <3>3, <4>1
    <3> QED
      BY <3>2, <3>3
  <2>2. \A i \in Ids : /\ Working(orders[i]) => orders'[i].status # "none"
                       /\ orders'[i].status = "held" => orders[i].status = "held"
                       /\ orders'[i].status = "filled" => orders[i].status = "filled"
                       /\ orders[i].status = "held" => orders'[i].status \in {"held", "canceled"}
    BY <2>1 DEF Working
  <2>3. Moves
    BY TimeMoves DEF EntryInv
  <2> QED
    BY <1>0, <1>2, <2>1, <2>2, <2>3 DEF Drifts
<1> QED
  BY <1>1, <1>2 DEF TimePasses

-----------------------------------------------------------------------------
(* What drifting orders leave as it was.                                   *)

\* What orders keep.
LEMMA DriftKeeps ==
  ASSUME EntryInv, Drifts
  PROVE  /\ \A i \in Ids : /\ orders[i] \in Order /\ orders'[i] \in Order
                           /\ orders'[i] = Never <=> orders[i] = Never
                           /\ ~Working(orders[i]) => orders'[i] = orders[i] /\ ~Working(orders'[i])
                           /\ Final(orders[i]) => orders'[i] = orders[i] /\ Final(orders'[i])
         /\ Bought(orders) <= Bought(orders') /\ Bought(orders) \in Int /\ Bought(orders') \in Int
         /\ Final(orders[Entry]) => Bought(orders') = Bought(orders)
<1>1. ASSUME NEW i \in Ids
      PROVE  /\ orders[i] \in Order /\ orders'[i] \in Order
             /\ orders'[i] = Never <=> orders[i] = Never
             /\ ~Working(orders[i]) => orders'[i] = orders[i] /\ ~Working(orders'[i])
             /\ Final(orders[i]) => orders'[i] = orders[i] /\ Final(orders'[i])
  <2>1. orders[i] \in Order /\ orders'[i] \in Order
    BY DEF EntryInv, OrdersTypeOK, Drifts, Moves
  <2>2. ~Working(orders[i]) => orders'[i] = orders[i]
    BY DEF Drifts
  <2>3. Working(orders[i]) => orders'[i].status # "none"
    BY DEF Drifts
  <2>4. orders[i] = Never => ~Working(orders[i])
    BY DEF Never, Working
  <2>5. Working(orders[i]) => orders[i] # Never /\ orders'[i] # Never
    BY <2>3, <2>4 DEF Never
  <2>6. Final(orders[i]) => ~Working(orders[i])
    BY DEF Final, Working
  <2> QED
    BY <2>1, <2>2, <2>4, <2>5, <2>6
<1>2. Entry \in Ids
  BY IdFacts
<1>3. orders[Entry].filled \in Int /\ orders'[Entry].filled \in Int
  BY <1>1, <1>2, OrdersConstants DEF Order
<1>4. orders[Entry].filled <= orders'[Entry].filled
  BY <1>2 DEF Drifts
<1> QED
  BY <1>1, <1>2, <1>3, <1>4 DEF Bought

\* What they have sold grows, and what they offer shrinks.
LEMMA DriftCounts ==
  ASSUME EntryInv, Drifts, NEW S \in SUBSET Ids
  PROVE  /\ OfferedOf(orders', S) <= OfferedOf(orders, S)
         /\ FilledOf(orders, S) <= FilledOf(orders', S)
         /\ OfferedOf(orders, S) \in Int /\ OfferedOf(orders', S) \in Int
         /\ FilledOf(orders, S) \in Int /\ FilledOf(orders', S) \in Int
<1>1. orders \in [Ids -> Order] /\ orders' \in [Ids -> Order]
  BY DEF EntryInv, OrdersTypeOK, Drifts, Moves
<1>2. /\ Trades(orders) \in [Ids -> 0..Shares] /\ Offers(orders) \in [Ids -> 0..Shares]
      /\ \A i \in Ids : Trades(orders)[i] = orders[i].filled /\ Offers(orders)[i] = OfferedBy(orders[i])
      /\ FilledOf(orders, S) = Counted(Trades(orders), S)
  BY <1>1, TradesTyped
<1>3. /\ Trades(orders') \in [Ids -> 0..Shares] /\ Offers(orders') \in [Ids -> 0..Shares]
      /\ \A i \in Ids : Trades(orders')[i] = orders'[i].filled /\ Offers(orders')[i] = OfferedBy(orders'[i])
      /\ FilledOf(orders', S) = Counted(Trades(orders'), S)
  BY <1>1, TradesTyped
<1>4. \A i \in S : Offers(orders')[i] <= Offers(orders)[i] /\ Trades(orders)[i] <= Trades(orders')[i]
  BY <1>2, <1>3 DEF Drifts
<1>5. Counted(Offers(orders'), S) <= Counted(Offers(orders), S)
  BY <1>2, <1>3, <1>4, CountedMonotone
<1>6. Counted(Trades(orders), S) <= Counted(Trades(orders'), S)
  BY <1>2, <1>3, <1>4, CountedMonotone
<1>7. /\ Counted(Offers(orders), S) \in Int /\ Counted(Offers(orders'), S) \in Int
      /\ Counted(Trades(orders), S) \in Int /\ Counted(Trades(orders'), S) \in Int
  BY CountedTyped
<1> QED
  BY <1>2, <1>3, <1>5, <1>6, <1>7 DEF OfferedOf

\* The exits are ids, of different kinds.
LEMMA ExitsAreIds ==
  /\ ExitIds \in SUBSET Ids /\ Protect \in SUBSET ExitIds /\ Flatten \in SUBSET ExitIds
  /\ TimeExit \in SUBSET ExitIds /\ Legs \in ExitIds /\ Close \in ExitIds
  /\ Entry \notin ExitIds
  /\ Legs \notin Protect \cup Flatten \cup TimeExit /\ Close \notin Protect \cup Flatten \cup TimeExit
  /\ Protect \cap Flatten = {} /\ Protect \cap TimeExit = {} /\ Flatten \cap TimeExit = {}
  /\ Legs # Close
<1>1. /\ Legs \notin Protect \cup Flatten \cup TimeExit /\ Close \notin Protect \cup Flatten \cup TimeExit
      /\ Entry \notin Protect \cup Flatten \cup TimeExit
  BY DEF Legs, Close, Entry, Protect, Flatten, TimeExit
<1>2. Protect \cap Flatten = {} /\ Protect \cap TimeExit = {} /\ Flatten \cap TimeExit = {}
  BY DEF Protect, Flatten, TimeExit
<1>3. Legs # Close /\ Entry # Legs /\ Entry # Close
  BY DEF Legs, Close, Entry
<1> QED
  BY <1>1, <1>2, <1>3 DEF ExitIds, Ids

\* The exits still follow each other.
LEMMA DriftInTurn ==
  ASSUME EntryInv, InTurn, Drifts, LegsKept, phase' \in Morning => phase \in Morning
  PROVE  InTurn'
<1>0. Entry \in Ids /\ Legs \in Ids /\ Protect \cup Flatten \cup TimeExit \subseteq Ids
  BY IdFacts, ExitsAreIds
<1>1. \A i \in Ids : /\ orders'[i] = Never <=> orders[i] = Never
                     /\ Final(orders[i]) => orders'[i] = orders[i] /\ Final(orders'[i])
                     /\ ~Working(orders[i]) => orders'[i] = orders[i]
  BY DriftKeeps
<1>2. orders'[Entry] # Never => orders'[Legs] # Never
  BY <1>0, <1>1 DEF InTurn
<1>3. \A i \in Protect \cup Flatten \cup TimeExit :
        orders'[i] # Never => Final(orders'[Entry]) /\ Final(orders'[Legs])
  BY <1>0, <1>1 DEF InTurn
<1>4. ASSUME NEW i \in Protect, orders'[i] # Never
      PROVE  /\ orders'[i].qty + orders'[Legs].filled = Bought(orders')
             /\ \A j \in Protect \ {i} : orders'[j] = Never
  <2>1. i \in Ids /\ orders[i] # Never
    BY <1>0, <1>1, <1>4
  <2>2. Final(orders[Entry]) /\ Final(orders[Legs])
    BY <2>1 DEF InTurn
  <2>3. orders'[Legs] = orders[Legs] /\ Bought(orders') = Bought(orders)
    BY <1>0, <1>1, <2>2 DEF Bought
  <2>4. orders'[i].qty = orders[i].qty
    BY <2>1 DEF Drifts
  <2>5. /\ orders[i].qty + orders[Legs].filled = Bought(orders)
        /\ \A j \in Protect \ {i} : orders[j] = Never
    BY <2>1 DEF InTurn
  <2> QED
    BY <1>0, <1>1, <2>3, <2>4, <2>5
<1>5. Final(orders'[Entry]) /\ orders'[Legs].status \in {"working", "canceling", "filled"} =>
        orders'[Legs].qty = Bought(orders')
  <2> SUFFICES ASSUME orders'[Legs].status \in {"working", "canceling", "filled"}
               PROVE  orders'[Legs].qty = Bought(orders')
    OBVIOUS
  <2>1. orders[Legs] \in Order
    BY <1>0, DriftKeeps
  <2>2. orders[Legs].status \notin {"none", "held", "canceled"}
    <3>1. orders[Legs].status = "none" \/ orders[Legs].status = "canceled" => ~Working(orders[Legs])
      BY DEF Working
    <3>2. orders[Legs].status = "none" \/ orders[Legs].status = "canceled" => orders'[Legs] = orders[Legs]
      BY <1>0, <1>1, <3>1
    <3>3. orders[Legs].status = "held" => orders'[Legs].status \in {"held", "canceled"}
      BY DEF Drifts
    <3> QED
      BY <3>2, <3>3
  <2>3. Final(orders[Entry])
    BY <2>2 DEF EntryInv, Shaped
  <2>4. orders[Legs].status \in {"working", "canceling", "filled", "rejected"}
    BY <2>1, <2>2 DEF Order, Statuses
  <2>5. orders[Legs].status # "rejected"
    <3>1. orders[Legs].status = "rejected" => ~Working(orders[Legs])
      BY DEF Working
    <3> QED
      BY <1>0, <1>1, <3>1
  <2>6. orders[Legs].qty = Bought(orders)
    BY <2>3, <2>4, <2>5 DEF InTurn
  <2>7. orders'[Legs].qty = orders[Legs].qty /\ orders'[Entry] = orders[Entry]
    BY <1>0, <1>1, <2>3 DEF Drifts
  <2> QED
    BY <2>6, <2>7 DEF Bought
<1>6. ASSUME phase' \in Morning
      PROVE  /\ orders'[Entry].status \in {"working", "canceling"} => orders'[Legs].status = "held"
             /\ orders'[Entry].status = "filled" => orders'[Legs].status \in {"working", "filled"}
             /\ \A i \in TimeExit : orders'[i] = Never
  <2>1. phase \in Morning
    BY <1>6
  <2>2. /\ orders[Entry].status \in {"working", "canceling"} => orders[Legs].status = "held"
        /\ orders[Entry].status = "filled" => orders[Legs].status \in {"working", "filled"}
        /\ \A i \in TimeExit : orders[i] = Never
    BY <2>1 DEF InTurn
  <2>3. ASSUME orders'[Entry].status \in {"working", "canceling"} PROVE orders'[Legs].status = "held"
    <3>1. Working(orders[Entry]) /\ orders[Entry].status # "held"
      <4>1. Working(orders[Entry])
        BY <1>0, <1>1, <2>3 DEF Working
      <4>2. ShapedOrder(Entry, orders[Entry]) /\ Entry # Legs
        BY IdFacts DEF EntryInv, Shaped
      <4> QED
        BY <4>1, <4>2 DEF ShapedOrder
    <3>2. orders[Entry].status \in {"working", "canceling"} /\ ~Final(orders[Entry])
      BY <3>1 DEF Working, Final
    <3> QED
      BY <2>1, <2>2, <3>2 DEF LegsKept
  <2>4. ASSUME orders'[Entry].status = "filled" PROVE orders'[Legs].status \in {"working", "filled"}
    <3>1. orders[Entry].status = "filled"
      BY <2>4 DEF Drifts
    <3>2. orders[Legs].status = "filled" => orders'[Legs] = orders[Legs]
      BY <1>0, <1>1 DEF Final
    <3> QED
      BY <2>1, <2>2, <3>1, <3>2 DEF LegsKept
  <2>5. \A i \in TimeExit : orders'[i] = Never
    BY <1>0, <1>1, <2>2
  <2> QED
    BY <2>3, <2>4, <2>5
<1> QED
  BY <1>2, <1>3, <1>4, <1>5, <1>6 DEF InTurn

\* What is offered still fits.
LEMMA DriftFit ==
  ASSUME EntryInv, Fit, Drifts PROVE Fit'
<1>0. ExitIds \in SUBSET Ids /\ ExitIds \ Flatten \in SUBSET Ids /\ Protect \subseteq Ids
  BY ExitsAreIds
<1>1. Bought(orders) <= Bought(orders') /\ Bought(orders) \in Int /\ Bought(orders') \in Int
  BY DriftKeeps
<1>2. /\ OfferedOf(orders', ExitIds) <= OfferedOf(orders, ExitIds)
      /\ OfferedOf(orders, ExitIds) \in Int /\ OfferedOf(orders', ExitIds) \in Int
  BY <1>0, DriftCounts
<1>3. /\ OfferedOf(orders', ExitIds \ Flatten) <= OfferedOf(orders, ExitIds \ Flatten)
      /\ OfferedOf(orders, ExitIds \ Flatten) \in Int /\ OfferedOf(orders', ExitIds \ Flatten) \in Int
  BY <1>0, DriftCounts
<1>4. ASSUME NEW i \in Protect, orders[i].filled > 0 PROVE orders'[i].filled > 0
  <2>1. orders[i].filled <= orders'[i].filled
    BY <1>0 DEF Drifts
  <2>2. orders[i].filled \in Int /\ orders'[i].filled \in Int
    BY <1>0, DriftKeeps, OrdersConstants DEF Order
  <2> QED
    BY <1>4, <2>1, <2>2
<1>5. OfferedOf(orders', ExitIds \ Flatten) <= Bought(orders')
  BY <1>1, <1>3 DEF Fit
<1>6. OfferedOf(orders', ExitIds) <= Bought(orders') \/ \E i \in Protect : orders'[i].filled > 0
  BY <1>1, <1>2, <1>4 DEF Fit
<1> QED
  BY <1>5, <1>6 DEF Fit

\* What a done deadline step has left still covers.
LEMMA DriftCovers ==
  ASSUME EntryInv, InTurn, Covers, Drifts, Works, row' = row,
         phase' \in {"due", "overdue"} /\ row.checked => phase \in {"due", "overdue"}
  PROVE  Covers'
<1> SUFFICES ASSUME phase' \in {"due", "overdue"}, row.checked
             PROVE  \/ Bought(orders') <= FilledOf(orders', ExitIds)
                    \/ orders'[Legs].status = "working"
                    \/ \E i \in Protect : orders'[i].status = "working"
                    \/ \E i \in ExitIds : orders'[i].status = "rejected"
  BY DEF Covers
<1>0. /\ ExitIds \in SUBSET Ids /\ Protect \subseteq ExitIds /\ Legs \in ExitIds /\ Legs \notin Protect
      /\ Entry \in Ids
  BY ExitsAreIds, IdFacts
<1>1. Final(orders[Entry])
  BY DEF EntryInv, RowTrue
<1>2. Bought(orders') = Bought(orders) /\ Bought(orders) \in Int
  BY <1>1, DriftKeeps
<1>3. /\ FilledOf(orders, ExitIds) <= FilledOf(orders', ExitIds)
      /\ FilledOf(orders, ExitIds) \in Int /\ FilledOf(orders', ExitIds) \in Int
  BY <1>0, DriftCounts
<1>4. orders' \in [Ids -> Order] /\ Trades(orders') \in [Ids -> 0..Shares]
      /\ FilledOf(orders', ExitIds) = Counted(Trades(orders'), ExitIds)
      /\ \A i \in Ids : Trades(orders')[i] = orders'[i].filled
  <2>1. orders' \in [Ids -> Order]
    BY DEF Drifts, Moves
  <2> QED
    BY <1>0, <2>1, TradesTyped
<1>5. CASE Bought(orders) <= FilledOf(orders, ExitIds)
  BY <1>2, <1>3, <1>5
<1>6. CASE orders[Legs].status = "working"
  <2>1. orders'[Legs].status \in {"working", "filled", "rejected"}
    BY <1>0, <1>6 DEF Works
  <2>2. CASE orders'[Legs].status = "filled"
    <3>1. orders'[Legs].filled = orders'[Legs].qty
      BY <1>0, <2>2 DEF Drifts, Moves, Shaped, ShapedOrder
    <3>2. orders'[Legs].qty = orders[Legs].qty /\ orders[Legs].qty = Bought(orders)
      BY <1>0, <1>1, <1>6 DEF Drifts, InTurn
    <3>3. FilledOf(orders', ExitIds) = Counted(Trades(orders'), ExitIds \ {Legs}) + orders'[Legs].filled
          /\ Counted(Trades(orders'), ExitIds \ {Legs}) \in Nat /\ orders'[Legs].filled \in Nat
      BY <1>0, <1>4, CountedSplit
    <3>4. FilledOf(orders', ExitIds) >= orders'[Legs].filled
      BY <1>3, <3>3
    <3> QED
      BY <1>2, <1>3, <3>1, <3>2, <3>3, <3>4
  <2> QED
    BY <1>0, <2>1, <2>2
<1>7. CASE \E i \in Protect : orders[i].status = "working"
  <2>1. PICK i \in Protect : orders[i].status = "working"
    BY <1>7
  <2>2. orders'[i].status \in {"working", "filled", "rejected"} /\ i \in ExitIds /\ i \in Ids /\ i # Legs
    BY <1>0, <2>1 DEF Works
  <2>3. CASE orders'[i].status = "filled"
    <3>1. orders'[i].filled = orders'[i].qty
      BY <2>2, <2>3 DEF Drifts, Moves, Shaped, ShapedOrder
    <3>2. orders[i] # Never
      BY <2>1 DEF Never
    <3>3. orders'[i].qty = orders[i].qty /\ orders[i].qty + orders[Legs].filled = Bought(orders)
          /\ Final(orders[Legs])
      BY <2>1, <2>2, <3>2 DEF Drifts, InTurn
    <3>4. orders'[Legs] = orders[Legs]
      BY <1>0, <3>3, DriftKeeps
    <3>5. /\ FilledOf(orders', ExitIds) = Counted(Trades(orders'), ExitIds \ {i}) + orders'[i].filled
          /\ Counted(Trades(orders'), ExitIds \ {i}) \in Nat /\ orders'[i].filled \in Nat
      BY <1>0, <1>4, <2>2, CountedSplit
    <3>6. /\ Counted(Trades(orders'), ExitIds \ {i})
                = Counted(Trades(orders'), (ExitIds \ {i}) \ {Legs}) + orders'[Legs].filled
          /\ Counted(Trades(orders'), (ExitIds \ {i}) \ {Legs}) \in Nat /\ orders'[Legs].filled \in Nat
      <4>1. ExitIds \ {i} \in SUBSET Ids /\ Legs \in ExitIds \ {i}
        BY <1>0, <2>2
      <4> QED
        BY <1>0, <1>4, <4>1, CountedSplit
    <3> DEFINE rest == Counted(Trades(orders'), (ExitIds \ {i}) \ {Legs})
    <3>7. FilledOf(orders', ExitIds) = rest + orders'[Legs].filled + orders'[i].filled /\ rest \in Nat
      BY <3>5, <3>6
    <3> HIDE DEF rest
    <3>8. orders[i].qty \in Nat /\ orders[Legs].filled \in Nat
      BY <3>1, <3>3, <3>4, <3>5, <3>6
    <3>9. orders[i].qty + orders[Legs].filled <= FilledOf(orders', ExitIds)
      BY <3>1, <3>3, <3>4, <3>7, <3>8
    <3> QED
      BY <1>2, <3>3, <3>9
  <2> QED
    BY <2>2, <2>3
<1>8. CASE \E i \in ExitIds : orders[i].status = "rejected"
  <2>1. PICK i \in ExitIds : orders[i].status = "rejected"
    BY <1>8
  <2>2. orders'[i] = orders[i]
    BY <1>0, <2>1, DriftKeeps DEF Final
  <2> QED
    BY <2>1, <2>2
<1>9. phase \in {"due", "overdue"}
  OBVIOUS
<1> QED
  BY <1>5, <1>6, <1>7, <1>8, <1>9 DEF Covers

-----------------------------------------------------------------------------
(* How orders are placed.                                                  *)

\* A post places an order, or is not accepted.
LEMMA PostsPlace ==
  ASSUME EntryInv, NEW id \in Ids \ {Entry}, NEW qty, NEW answer, Posts(id, qty, answer)
  PROVE  \/ UNCHANGED orders /\ answer # "accepted"
         \/ Places(id, qty) /\ answer \in {"accepted", "transient"}
<1>1. CASE orders[id] = Never /\ orders' = Accepted(id, qty) /\ answer \in {"accepted", "transient"}
  <2>1. orders' = [orders EXCEPT ![id] = [status |-> "working", qty |-> qty, filled |-> 0]]
    BY <1>1 DEF Accepted
  <2> QED
    BY <1>1, <2>1 DEF Places
<1>2. CASE UNCHANGED orders /\ answer \in {"transient", "refused"}
  BY <1>2
<1> QED
  BY <1>1, <1>2 DEF Posts

\* What a placed order changes.
LEMMA PlacesOne ==
  ASSUME EntryInv, NEW id \in Ids \ {Entry}, NEW qty \in 1..Shares, Places(id, qty)
  PROVE  /\ orders[id] = Never /\ orders'[id] # Never
         /\ orders'[id] = [status |-> "working", qty |-> qty, filled |-> 0]
         /\ orders'[id].status = "working" /\ orders'[id].qty = qty /\ orders'[id].filled = 0
         /\ \A i \in Ids \ {id} : orders'[i] = orders[i]
         /\ \A i \in Ids : orders'[i].filled = orders[i].filled
         /\ orders' \in [Ids -> Order]
         /\ Bought(orders') = Bought(orders)
<1> DEFINE new == [status |-> "working", qty |-> qty, filled |-> 0]
<1>1. new \in Order /\ new.filled = 0 /\ new.status = "working" /\ new.qty = qty
  BY OrdersConstants DEF Order, Statuses
<1>2. orders[id] = Never /\ orders' = [orders EXCEPT ![id] = new] /\ orders \in [Ids -> Order]
  BY DEF Places, EntryInv, OrdersTypeOK
<1>3. new # Never /\ Never.filled = 0
  BY <1>1 DEF Never
<1> HIDE DEF new
<1>4. orders'[id] = new /\ (\A i \in Ids \ {id} : orders'[i] = orders[i]) /\ orders' \in [Ids -> Order]
  BY <1>1, <1>2
<1>5. \A i \in Ids : orders'[i].filled = orders[i].filled
  BY <1>1, <1>2, <1>3, <1>4
<1>6. Bought(orders') = Bought(orders)
  BY <1>5, IdFacts DEF Bought
<1>7. orders'[id] # Never
  BY <1>3, <1>4
<1>8. orders'[id].status = "working" /\ orders'[id].qty = qty /\ orders'[id].filled = 0
  BY <1>1, <1>4
<1> QED
  BY <1>2, <1>4, <1>5, <1>6, <1>7, <1>8 DEF new

\* It offers its shares, and has sold none.
LEMMA PlacesCounts ==
  ASSUME EntryInv, NEW id \in Ids \ {Entry}, NEW qty \in 1..Shares, Places(id, qty), NEW S \in SUBSET Ids
  PROVE  /\ FilledOf(orders', S) = FilledOf(orders, S) /\ FilledOf(orders, S) \in Int
         /\ id \notin S => OfferedOf(orders', S) = OfferedOf(orders, S)
         /\ id \in S => OfferedOf(orders', S) = OfferedOf(orders, S) + qty
         /\ OfferedOf(orders, S) \in Int
<1>1. orders \in [Ids -> Order] /\ orders' \in [Ids -> Order]
  BY PlacesOne DEF EntryInv, OrdersTypeOK
<1>2. /\ Trades(orders) \in [Ids -> 0..Shares] /\ Offers(orders) \in [Ids -> 0..Shares]
      /\ \A i \in Ids : Trades(orders)[i] = orders[i].filled /\ Offers(orders)[i] = OfferedBy(orders[i])
      /\ FilledOf(orders, S) = Counted(Trades(orders), S)
  BY <1>1, TradesTyped
<1>3. /\ Trades(orders') \in [Ids -> 0..Shares] /\ Offers(orders') \in [Ids -> 0..Shares]
      /\ \A i \in Ids : Trades(orders')[i] = orders'[i].filled /\ Offers(orders')[i] = OfferedBy(orders'[i])
      /\ FilledOf(orders', S) = Counted(Trades(orders'), S)
  BY <1>1, TradesTyped
<1>4. \A i \in S : Trades(orders')[i] = Trades(orders)[i]
  BY <1>2, <1>3, PlacesOne
<1>5. Counted(Trades(orders'), S) = Counted(Trades(orders), S)
  BY <1>4, CountedSame
<1>6. /\ Counted(Trades(orders), S) \in Int /\ Counted(Offers(orders), S) \in Int
      /\ Counted(Offers(orders), S \ {id}) \in Int
  BY CountedTyped
<1>11. /\ orders[id] = Never
       /\ orders'[id].status = "working" /\ orders'[id].qty = qty
       /\ \A i \in Ids \ {id} : orders'[i] = orders[i]
  BY PlacesOne
<1>7. ASSUME NEW i \in S \ {id} PROVE Offers(orders')[i] = Offers(orders)[i]
  <2>1. i \in Ids /\ orders'[i] = orders[i]
    BY <1>7, <1>11
  <2> QED
    BY <1>2, <1>3, <2>1
<1>8. Counted(Offers(orders'), S \ {id}) = Counted(Offers(orders), S \ {id})
  BY <1>7, CountedSame
<1>9. CASE id \notin S
  <2>1. S \ {id} = S
    BY <1>9
  <2> QED
    BY <1>2, <1>3, <1>5, <1>6, <1>8, <1>9, <2>1 DEF OfferedOf
<1>10. CASE id \in S
  <2>1. Counted(Offers(orders'), S) = Counted(Offers(orders'), S \ {id}) + Offers(orders')[id]
    BY <1>3, <1>10, CountedSplit
  <2>2. Counted(Offers(orders), S) = Counted(Offers(orders), S \ {id}) + Offers(orders)[id]
    BY <1>2, <1>10, CountedSplit
  <2>3. Offers(orders)[id] = 0
    <3>1. OfferedBy(orders[id]) = 0
      BY <1>11 DEF OfferedBy, Never
    <3> QED
      BY <1>2, <3>1
  <2>4. Offers(orders')[id] = qty
    <3>1. OfferedBy(orders'[id]) = qty
      BY <1>11 DEF OfferedBy
    <3> QED
      BY <1>3, <3>1
  <2>5. Counted(Offers(orders'), S) = Counted(Offers(orders), S) + qty
    BY <1>6, <1>8, <2>1, <2>2, <2>3, <2>4
  <2> QED
    BY <1>2, <1>3, <1>5, <1>6, <1>10, <2>5 DEF OfferedOf
<1> QED
  BY <1>9, <1>10

\* A new exit follows those before it.
LEMMA PlacesInTurn ==
  ASSUME EntryInv, InTurn, NEW id \in Protect \cup Flatten \cup TimeExit, NEW qty \in 1..Shares,
         Places(id, qty), Final(orders[Entry]), Final(orders[Legs]), phase' = phase,
         id \in TimeExit => phase \notin Morning,
         id \in Protect => /\ qty + orders[Legs].filled = Bought(orders)
                           /\ \A j \in Protect : orders[j] = Never
  PROVE  InTurn'
<1>0. /\ Entry \in Ids /\ Legs \in Ids /\ Protect \cup Flatten \cup TimeExit \subseteq Ids
      /\ id \in Ids \ {Entry} /\ id # Legs /\ id # Entry
  BY IdFacts, ExitsAreIds
<1>1. /\ \A i \in Ids \ {id} : orders'[i] = orders[i]
      /\ orders'[id].qty = qty /\ Bought(orders') = Bought(orders)
  BY <1>0, PlacesOne
<1>2. orders'[Entry] = orders[Entry] /\ orders'[Legs] = orders[Legs]
  BY <1>0, <1>1
<1>3. ASSUME NEW i \in Protect, orders'[i] # Never
      PROVE  /\ orders'[i].qty + orders'[Legs].filled = Bought(orders')
             /\ \A j \in Protect \ {i} : orders'[j] = Never
  <2>1. CASE i = id
    BY <1>0, <1>1, <1>2, <2>1
  <2>2. CASE i # id
    <3>1. orders[i] # Never /\ i \in Ids
      BY <1>0, <1>1, <1>3, <2>2
    <3>2. id \notin Protect
      BY <3>1
    <3> QED
      BY <1>0, <1>1, <1>2, <2>2, <3>1, <3>2 DEF InTurn
  <2> QED
    BY <2>1, <2>2
<1>4. phase \in Morning => \A i \in TimeExit : orders'[i] = Never
  BY <1>0, <1>1 DEF InTurn
<1>5. orders'[Entry] # Never => orders'[Legs] # Never
  BY <1>2 DEF InTurn
<1>6. \A i \in Protect \cup Flatten \cup TimeExit :
        orders'[i] # Never => Final(orders'[Entry]) /\ Final(orders'[Legs])
  BY <1>2
<1>7. Final(orders'[Entry]) /\ orders'[Legs].status \in {"working", "canceling", "filled"} =>
        orders'[Legs].qty = Bought(orders')
  BY <1>1, <1>2 DEF InTurn
<1>8. phase' \in Morning =>
        /\ orders'[Entry].status \in {"working", "canceling"} => orders'[Legs].status = "held"
        /\ orders'[Entry].status = "filled" => orders'[Legs].status \in {"working", "filled"}
        /\ \A i \in TimeExit : orders'[i] = Never
  BY <1>2, <1>4 DEF InTurn
<1> QED
  BY <1>3, <1>5, <1>6, <1>7, <1>8 DEF InTurn

\* What it offers fits.
LEMMA PlacesFit ==
  ASSUME EntryInv, Fit, NEW id \in Protect \cup Flatten \cup TimeExit, NEW qty \in 1..Shares,
         Places(id, qty),
         \/ OfferedOf(orders, ExitIds) + qty <= Bought(orders)
         \/ id \in Flatten /\ \E i \in Protect : orders[i].filled > 0
  PROVE  Fit'
<1>0. /\ ExitIds \in SUBSET Ids /\ ExitIds \ Flatten \in SUBSET Ids /\ Protect \subseteq Ids
      /\ id \in Ids \ {Entry} /\ id \in ExitIds /\ ExitIds \ Flatten \subseteq ExitIds
  BY ExitsAreIds
<1>1. Bought(orders') = Bought(orders) /\ \A i \in Ids : orders'[i].filled = orders[i].filled
  BY <1>0, PlacesOne
<1>2. OfferedOf(orders', ExitIds) = OfferedOf(orders, ExitIds) + qty
  BY <1>0, PlacesCounts
<1>3. /\ id \in Flatten => OfferedOf(orders', ExitIds \ Flatten) = OfferedOf(orders, ExitIds \ Flatten)
      /\ id \notin Flatten => OfferedOf(orders', ExitIds \ Flatten) = OfferedOf(orders, ExitIds \ Flatten) + qty
      /\ OfferedOf(orders, ExitIds \ Flatten) \in Int
  BY <1>0, PlacesCounts
<1>4. OfferedOf(orders, ExitIds \ Flatten) <= OfferedOf(orders, ExitIds) /\ OfferedOf(orders, ExitIds) \in Int
  <2>1. orders \in [Ids -> Order]
    BY DEF EntryInv, OrdersTypeOK
  <2>2. Offers(orders) \in [Ids -> 0..Shares]
    BY <2>1, TradesTyped
  <2>3. \A i \in ExitIds \ Flatten : Offers(orders)[i] <= Offers(orders)[i]
    BY <1>0, <2>2, OrdersConstants
  <2>4. Counted(Offers(orders), ExitIds \ Flatten) <= Counted(Offers(orders), ExitIds)
    BY <1>0, <2>2, <2>3, CountedMonotone
  <2>5. Counted(Offers(orders), ExitIds) \in Int
    BY <1>0, CountedTyped
  <2> QED
    BY <2>4, <2>5 DEF OfferedOf
<1>5. Bought(orders) \in Int /\ qty \in Int
  BY IdFacts, OrdersConstants DEF Bought, EntryInv, OrdersTypeOK, Order
<1>6. OfferedOf(orders', ExitIds \ Flatten) <= Bought(orders')
  <2>1. CASE id \in Flatten
    BY <1>1, <1>3, <2>1 DEF Fit
  <2>2. CASE id \notin Flatten
    BY <1>1, <1>3, <1>4, <1>5, <2>2
  <2> QED
    BY <2>1, <2>2
<1>7. OfferedOf(orders', ExitIds) <= Bought(orders') \/ \E i \in Protect : orders'[i].filled > 0
  <2>1. CASE OfferedOf(orders, ExitIds) + qty <= Bought(orders)
    BY <1>1, <1>2, <2>1
  <2>2. CASE \E i \in Protect : orders[i].filled > 0
    BY <1>0, <1>1, <2>2
  <2> QED
    BY <2>1, <2>2
<1> QED
  BY <1>6, <1>7 DEF Fit

-----------------------------------------------------------------------------
(* A job and the shares.                                                   *)

\* A job that is elsewhere relies on nothing.
LEMMA IdleRelies ==
  ASSUME NEW l PROVE Relies("idle", l) /\ Relies("idle", l)'
BY DEF Relies, CheckSteps, ExitSteps, Counting

\* The other job is elsewhere.
LEMMA OneAtWork ==
  ASSUME EntryInv, Solo, NEW r \in Runners, pc[r] # "idle"
  PROVE  /\ \A q \in Runners \ {r} : pc[q] = "idle"
         /\ r = "guard" => pc["tick"] = "idle"
         /\ Relies(pc[r], local[r]) /\ ~row.done
<1>1. \A q \in Runners \ {r} : pc[q] = "idle"
  BY DEF Solo, Runners
<1>2. r = "guard" => pc["tick"] = "idle"
  BY <1>1 DEF Runners
<1>3. Relies(pc[r], local[r])
  BY DEF Solo
<1>4. ~row.done
  BY DEF Solo, Over
<1> QED
  BY <1>1, <1>2, <1>3, <1>4

\* A job's step, the other one being elsewhere.
LEMMA SoloFrom ==
  ASSUME EntryInv, NEW r \in Runners, \A q \in Runners \ {r} : pc[q] = "idle",
         NEW step, NEW l, pc' = [pc EXCEPT ![r] = step], local' = [local EXCEPT ![r] = l],
         Relies(step, l)', RowKnows', InTurn', Fit', Covers', Over'
  PROVE  Solo'
<1>1. pc \in [Runners -> Steps] /\ local \in [Runners -> Locals]
  BY DEF EntryInv, OrdersTypeOK
<1>2. pc'[r] = step /\ local'[r] = l /\ \A q \in Runners \ {r} : pc'[q] = "idle"
  BY <1>1
<1>3. ASSUME NEW q \in Runners PROVE Relies(pc[q], local[q])'
  <2>1. CASE q = r
    BY <1>2, <2>1
  <2>2. CASE q # r
    <3>1. PICK m : m = local'[q]
      OBVIOUS
    <3>2. Relies("idle", m)'
      BY IdleRelies
    <3> QED
      BY <1>2, <2>2, <3>1, <3>2
  <2> QED
    BY <2>1, <2>2
<1>4. (pc["tick"] = "idle" \/ pc["guard"] = "idle")'
  BY <1>2 DEF Runners
<1> QED
  BY <1>3, <1>4 DEF Solo

\* The numbers of the tries are numbers.
LEMMA TryTyped == (\A n \in 1..MaxTries : n \in Int) /\ (\A n \in 1..MaxSells : n \in Int)
BY OrdersConstants

\* At most is transitive.
LEMMA AtMost ==
  ASSUME NEW a \in Int, NEW b \in Int, NEW c \in Int, a <= b, b <= c PROVE a <= c
OBVIOUS

\* What the row counts are numbers.
LEMMA RowNumbers ==
  ASSUME NEW rec \in Rows
  PROVE  /\ rec.px \in Int /\ rec.pf \in Int /\ rec.tx \in Int
         /\ rec.px >= 0 /\ rec.px <= MaxTries /\ rec.pf >= 0 /\ rec.pf <= MaxTries
         /\ rec.tx >= 0 /\ rec.tx <= MaxSells
         /\ rec.px <= rec.px /\ rec.pf <= rec.pf /\ rec.tx <= rec.tx
<1>1. rec.px \in 0..MaxTries /\ rec.pf \in 0..MaxTries /\ rec.tx \in 0..MaxSells
  BY DEF Rows
<1> QED
  BY <1>1, OrdersConstants

\* An order that is placed, and none other, was placed before.
LEMMA RowMoves ==
  ASSUME EntryInv, RowKnows, Writes, row.state = "submitted", Drifts, pc'["tick"] # "look up entry",
         row'.checked => phase' # "entry",
         row'.pf # 0 => /\ \A i \in Protect : ~Working(orders[i])
                        /\ row'.refused \/ row'.px = MaxTries \/ \E i \in Protect : Final(orders[i])
  PROVE  RowKnows'
<1>0. /\ Entry \in Ids /\ Protect \subseteq Ids
      /\ \A n \in 1..MaxTries : <<"px", n>> \in Ids /\ <<"pf", n>> \in Ids
      /\ \A n \in 1..MaxSells : <<"tx", n>> \in Ids
  BY IdFacts, ExitsAreIds
<1>1. \A i \in Ids : /\ orders'[i] = Never <=> orders[i] = Never
                     /\ ~Working(orders[i]) => orders'[i] = orders[i] /\ ~Working(orders'[i])
                     /\ Final(orders[i]) => orders'[i] = orders[i] /\ Final(orders'[i])
  BY DriftKeeps
<1>2. /\ row.px \in Int /\ row.pf \in Int /\ row.tx \in Int
      /\ row'.px \in Int /\ row'.pf \in Int /\ row'.tx \in Int
  <2>1. row \in Rows /\ row' \in Rows
    BY DEF EntryInv, OrdersTypeOK, Writes
  <2> QED
    BY <2>1, RowNumbers
<1>8. row.px <= row'.px /\ row.pf <= row'.pf /\ row.tx <= row'.tx
  BY DEF Writes
<1>9. /\ \A n \in 1..MaxTries : /\ orders[<<"px", n>>] # Never => n <= row.px
                                /\ orders[<<"pf", n>>] # Never => n <= row.pf
      /\ \A n \in 1..MaxSells : orders[<<"tx", n>>] # Never => n <= row.tx
  BY DEF RowKnows
<1>3. orders'[Entry] # Never
  BY <1>0, <1>1 DEF RowKnows
<1>4. ASSUME NEW n \in 1..MaxTries
      PROVE  /\ orders'[<<"px", n>>] # Never => n <= row'.px
             /\ orders'[<<"pf", n>>] # Never => n <= row'.pf
  <2>1. /\ orders'[<<"px", n>>] # Never => n <= row.px
        /\ orders'[<<"pf", n>>] # Never => n <= row.pf
    BY <1>0, <1>1, <1>9, Zenon
  <2>2. n \in Int
    BY TryTyped, Zenon
  <2>3. (n <= row.px => n <= row'.px) /\ (n <= row.pf => n <= row'.pf)
    BY <1>2, <1>8, <2>2, AtMost, Zenon
  <2> QED
    BY <2>1, <2>3, Zenon
<1>5. ASSUME NEW n \in 1..MaxSells PROVE orders'[<<"tx", n>>] # Never => n <= row'.tx
  <2>1. orders'[<<"tx", n>>] # Never => n <= row.tx
    BY <1>0, <1>1, <1>9, Zenon
  <2>2. n \in Int
    BY TryTyped, Zenon
  <2>3. n <= row.tx => n <= row'.tx
    BY <1>2, <1>8, <2>2, AtMost, Zenon
  <2> QED
    BY <2>1, <2>3, Zenon
<1>6. Flattened(row)'
  BY <1>0, <1>1 DEF Flattened
<1>7. ~row'.closes /\ row'.state = "submitted"
  BY DEF Writes
<1> QED
  BY <1>3, <1>4, <1>5, <1>6, <1>7 DEF RowKnows

\* The same row, when orders drift.
LEMMA RowStays ==
  ASSUME EntryInv, RowKnows, Drifts, row' = row, row.state = "submitted", pc'["tick"] # "look up entry",
         row.checked => phase' # "entry"
  PROVE  RowKnows'
<1>1. Writes
  <2>1. row \in Rows /\ ~row.closes
    BY DEF RowKnows, EntryInv, OrdersTypeOK
  <2>2. row.px <= row.px /\ row.pf <= row.pf /\ row.tx <= row.tx
    BY <2>1, RowNumbers
  <2> QED
    BY <2>1, <2>2 DEF Writes
<1>2. row.pf # 0 => /\ \A i \in Protect : ~Working(orders[i])
                    /\ row.refused \/ row.px = MaxTries \/ \E i \in Protect : Final(orders[i])
  BY DEF RowKnows, Flattened
<1> QED
  BY <1>1, <1>2, RowMoves

\* A new exit is one that the row has recorded.
LEMMA RowPlaces ==
  ASSUME EntryInv, RowKnows, row' = row, row.state = "submitted", pc'["tick"] # "look up entry", phase' = phase,
         NEW id \in Protect \cup Flatten \cup TimeExit, NEW qty \in 1..Shares, Places(id, qty),
         id \in Protect => id[2] <= row.px /\ row.pf = 0,
         id \in Flatten => id[2] <= row.pf,
         id \in TimeExit => id[2] <= row.tx
  PROVE  RowKnows'
<1>0. /\ Entry \in Ids /\ Protect \subseteq Ids /\ id \in Ids \ {Entry}
      /\ \A n \in 1..MaxTries : <<"px", n>> \in Ids /\ <<"pf", n>> \in Ids
      /\ \A n \in 1..MaxSells : <<"tx", n>> \in Ids
  BY IdFacts, ExitsAreIds
<1>1. /\ \A i \in Ids \ {id} : orders'[i] = orders[i]
      /\ orders[id] = Never
  BY <1>0, PlacesOne
<1>2. orders'[Entry] # Never
  BY <1>0, <1>1 DEF RowKnows
<1>3. ASSUME NEW n \in 1..MaxTries
      PROVE  /\ orders'[<<"px", n>>] # Never => n <= row.px
             /\ orders'[<<"pf", n>>] # Never => n <= row.pf
  <2>1. <<"px", n>> \in Protect /\ <<"pf", n>> \in Flatten
    BY DEF Protect, Flatten
  <2>2. <<"px", n>> # id => orders'[<<"px", n>>] = orders[<<"px", n>>]
    BY <1>0, <1>1
  <2>3. <<"pf", n>> # id => orders'[<<"pf", n>>] = orders[<<"pf", n>>]
    BY <1>0, <1>1
  <2>7. <<"px", n>>[2] = n /\ <<"pf", n>>[2] = n
    OBVIOUS
  <2>4. <<"px", n>> = id => n <= row.px
    BY <2>1, <2>7, Zenon
  <2>5. <<"pf", n>> = id => n <= row.pf
    BY <2>1, <2>7, Zenon
  <2>6. /\ orders[<<"px", n>>] # Never => n <= row.px
        /\ orders[<<"pf", n>>] # Never => n <= row.pf
    BY DEF RowKnows
  <2> QED
    BY <2>2, <2>3, <2>4, <2>5, <2>6
<1>4. ASSUME NEW n \in 1..MaxSells PROVE orders'[<<"tx", n>>] # Never => n <= row.tx
  <2>1. <<"tx", n>> \in TimeExit
    BY DEF TimeExit
  <2>2. <<"tx", n>> # id => orders'[<<"tx", n>>] = orders[<<"tx", n>>]
    BY <1>0, <1>1
  <2>5. <<"tx", n>>[2] = n
    OBVIOUS
  <2>3. <<"tx", n>> = id => n <= row.tx
    BY <2>1, <2>5, Zenon
  <2>4. orders[<<"tx", n>>] # Never => n <= row.tx
    BY DEF RowKnows
  <2> QED
    BY <2>2, <2>3, <2>4
<1>5. row.pf # 0 => /\ \A i \in Protect : ~Working(orders'[i])
                    /\ row.refused \/ row.px = MaxTries \/ \E i \in Protect : Final(orders'[i])
  <2> SUFFICES ASSUME row.pf # 0
               PROVE  /\ \A i \in Protect : ~Working(orders'[i])
                      /\ row.refused \/ row.px = MaxTries \/ \E i \in Protect : Final(orders'[i])
    OBVIOUS
  <2>1. id \notin Protect
    BY Zenon
  <2>2. \A i \in Protect : orders'[i] = orders[i]
    BY <1>0, <1>1, <2>1
  <2> QED
    BY <2>2 DEF RowKnows, Flattened
<1>6. Flattened(row)'
  BY <1>5 DEF Flattened
<1>7. ~row.closes /\ (row.checked => phase # "entry")
  BY DEF RowKnows
<1> QED
  BY <1>2, <1>3, <1>4, <1>6, <1>7 DEF RowKnows

\* A forecast that is not done is not over.
LEMMA OverOpen ==
  ASSUME Over, ~row'.done, actual' = actual, phase' = phase
  PROVE  Over'
BY DEF Over

\* A check that is not done covers nothing yet.
LEMMA CoversOpen ==
  ASSUME ~row'.checked \/ phase' \notin {"due", "overdue"}
  PROVE  Covers'
BY DEF Covers

\* A job's step, when orders drift.
LEMMA JobMoves ==
  ASSUME EntryInv, Solo, NEW r \in Runners, pc[r] \in CheckSteps \cup ExitSteps,
         NEW step \in Steps \ {"look up entry"}, NEW l,
         pc' = [pc EXCEPT ![r] = step], local' = [local EXCEPT ![r] = l],
         Drifts, LegsKept, Writes, phase' = phase,
         row'.checked => phase # "entry",
         row'.pf # 0 => /\ \A i \in Protect : ~Working(orders[i])
                        /\ row'.refused \/ row'.px = MaxTries \/ \E i \in Protect : Final(orders[i]),
         Relies(step, l)', Covers', Over'
  PROVE  Solo'
<1>1. row.state = "submitted"
  BY AtWork
<1>2. pc[r] # "idle"
  BY DEF CheckSteps, ExitSteps
<1>3. (\A q \in Runners \ {r} : pc[q] = "idle") /\ (r = "guard" => pc["tick"] = "idle")
  BY <1>2, OneAtWork
<1>4. pc'["tick"] # "look up entry"
  <2>1. "tick" \in Runners /\ pc \in [Runners -> Steps]
    BY DEF Runners, EntryInv, OrdersTypeOK
  <2> QED
    BY <1>3, <2>1
<1>5. RowKnows'
  BY <1>1, <1>4, RowMoves DEF Solo
<1>6. InTurn' /\ Fit'
  BY DriftInTurn, DriftFit DEF Solo
<1> QED
  BY <1>3, <1>5, <1>6, SoloFrom

\* A job's step that writes its row as it is.
LEMMA JobGoesOn ==
  ASSUME EntryInv, Solo, NEW r \in Runners, pc[r] \in CheckSteps \cup ExitSteps,
         NEW step \in Steps \ {"look up entry"}, NEW l,
         pc' = [pc EXCEPT ![r] = step], local' = [local EXCEPT ![r] = l],
         Drifts, LegsKept, row' = row, UNCHANGED <<phase, actual>>,
         pc[r] \in CheckSteps \/ phase \notin Morning,
         Relies(step, l)'
  PROVE  Solo'
<1>1. row.state = "submitted" /\ row \in Rows
  BY AtWork
<1>2. pc[r] # "idle"
  BY DEF CheckSteps, ExitSteps
<1>3. Relies(pc[r], local[r]) /\ ~row.done
  BY <1>2, OneAtWork
<1>4. Writes /\ (row.checked => phase # "entry")
  <2>1. ~row.closes /\ (row.checked => phase # "entry")
    BY DEF Solo, RowKnows
  <2>2. row.px <= row.px /\ row.pf <= row.pf /\ row.tx <= row.tx
    BY <1>1, RowNumbers
  <2> QED
    BY <1>1, <2>1, <2>2 DEF Writes
<1>5. row.pf # 0 => /\ \A i \in Protect : ~Working(orders[i])
                    /\ row.refused \/ row.px = MaxTries \/ \E i \in Protect : Final(orders[i])
  BY DEF Solo, RowKnows, Flattened
<1>6. ~row.checked \/ phase \notin {"due", "overdue"}
  BY <1>3 DEF Relies, Morning
<1>7. Covers' /\ Over'
  BY <1>3, <1>6, CoversOpen, OverOpen DEF Solo
<1> QED
  BY <1>4, <1>5, <1>7, JobMoves

\* A pass that ends with an alarm, or in silence.
LEMMA JobLeaves ==
  ASSUME EntryInv, Solo, NEW r \in Runners, pc[r] \in CheckSteps \cup ExitSteps,
         EndsPass(r), row' \in {row, [row EXCEPT !.unprotected = TRUE], [row EXCEPT !.notFlat = TRUE]},
         Drifts, LegsKept, UNCHANGED <<phase, actual>>,
         pc[r] \in CheckSteps \/ phase \notin Morning
  PROVE  Solo'
<1>1. row.state = "submitted" /\ row \in Rows
  BY AtWork
<1>2. pc[r] # "idle"
  BY DEF CheckSteps, ExitSteps
<1>3. Relies(pc[r], local[r]) /\ ~row.done
  BY <1>2, OneAtWork
<1>4. /\ row' \in Rows /\ row'.state = row.state /\ row'.checked = row.checked /\ row'.refused = row.refused
      /\ row'.px = row.px /\ row'.pf = row.pf /\ row'.tx = row.tx /\ row'.closes = row.closes
      /\ row'.done = row.done
  BY <1>1 DEF Rows
<1>5. Writes /\ (row'.checked => phase # "entry")
  <2>1. ~row.closes /\ (row.checked => phase # "entry")
    BY DEF Solo, RowKnows
  <2>2. row.px <= row.px /\ row.pf <= row.pf /\ row.tx <= row.tx
    BY <1>1, RowNumbers
  <2> QED
    BY <1>1, <1>4, <2>1, <2>2 DEF Writes
<1>6. row'.pf # 0 => /\ \A i \in Protect : ~Working(orders[i])
                     /\ row'.refused \/ row'.px = MaxTries \/ \E i \in Protect : Final(orders[i])
  BY <1>4 DEF Solo, RowKnows, Flattened
<1>7. ~row'.checked \/ phase \notin {"due", "overdue"}
  BY <1>3, <1>4 DEF Relies, Morning
<1>8. Covers' /\ Over'
  BY <1>3, <1>4, <1>7, CoversOpen, OverOpen DEF Solo
<1>9. Relies("idle", Fresh)'
  BY IdleRelies
<1>10. "idle" \in Steps \ {"look up entry"} /\ pc' = [pc EXCEPT ![r] = "idle"] /\ local' = [local EXCEPT ![r] = Fresh]
  BY DEF Steps, EndsPass, GoesTo
<1> QED
  BY <1>5, <1>6, <1>8, <1>9, <1>10, JobMoves

-----------------------------------------------------------------------------
(* The day and its jobs.                                                   *)

\* The close of last resort is what one step posts.
LEMMA PostsNoClose ==
  ASSUME EntryInv, NEW id, id # Close, NEW qty, NEW answer, Posts(id, qty, answer)
  PROVE  orders'[Close] = orders[Close]
<1>1. orders \in [Ids -> Order] /\ Close \in Ids /\ Close # Legs
  BY IdFacts DEF EntryInv, OrdersTypeOK
<1>2. Accepted(id, qty)[Close] = orders[Close]
  BY <1>1 DEF Accepted
<1> QED
  BY <1>2 DEF Posts

\* Nor does a cancel place a close, or remove one.
LEMMA CancelsNoClose ==
  ASSUME EntryInv, NEW ids, Cancels(ids)
  PROVE  orders'[Close] = Never <=> orders[Close] = Never
BY CancelsDrift, DriftKeeps, IdFacts

\* A job's step stays in the day.
LEMMA DayFrom ==
  ASSUME DayInv, EntryInv', NEW r \in Runners, NEW step, pc' = [pc EXCEPT ![r] = step], phase' = phase,
         InPhase(step), phase \in Morning => orders'[Close] = Never
  PROVE  DayInv'
<1>1. pc \in [Runners -> Steps]
  BY DEF DayInv, EntryInv, OrdersTypeOK
<1>2. \A q \in Runners : pc'[q] = IF q = r THEN step ELSE pc[q]
  BY <1>1
<1>3. ASSUME NEW q \in Runners PROVE InPhase(pc[q])'
  <2>1. InPhase(pc[q]) /\ (q = r => pc'[q] = step) /\ (q # r => pc'[q] = pc[q])
    BY <1>2 DEF DayInv
  <2>2. CASE q = r
    BY <2>1, <2>2 DEF InPhase
  <2>3. CASE q # r
    BY <2>1, <2>3 DEF InPhase
  <2> QED
    BY <2>2, <2>3
<1> QED
  BY <1>3 DEF DayInv

\* A step of a deadline check.
LEMMA CheckDay ==
  ASSUME DayInv, NEW r \in Runners, CheckStep(r)
  PROVE  /\ DayInv' /\ phase' = phase /\ phase \in {"due", "overdue"}
         /\ orders'[Close] = Never <=> orders[Close] = Never
         /\ overlaps' # overlaps => StartCheck(r)
<1> DEFINE LandsOn(step) == step \in CheckSteps \cup {"idle"} /\ pc' = [pc EXCEPT ![r] = step]
<1>1. EntryInv /\ InPhase(pc[r])
  BY DEF DayInv
<1>2. EntryInv'
  <2>1. OrdersNext
    BY DEF OrdersNext
  <2> QED
    BY <1>1, <2>1, EntryStep
<1>4. LeftOpen(r) \/ Alarm(r) \/ Checked(r) \/ CannotSee(r) => LandsOn("idle")
  BY DEF LeftOpen, Alarm, Checked, CannotSee, EndsPass, GoesTo
<1>5. \A step \in CheckSteps : GoesTo(r, step) \/ Sees(r, step) => LandsOn(step)
  BY DEF Sees, GoesTo
<1>6. "read" \in CheckSteps /\ "cancel entry" \in CheckSteps /\ "reread" \in CheckSteps /\ "judge" \in CheckSteps
      /\ "cancel legs" \in CheckSteps /\ "reread legs" \in CheckSteps /\ "protect" \in CheckSteps
      /\ "post px" \in CheckSteps /\ "confirm px" \in CheckSteps
      /\ "post pf" \in CheckSteps /\ "confirm pf" \in CheckSteps
  BY DEF CheckSteps
<1>7. ASSUME NEW rec, NEW owned, StartFlatten(r, rec, owned) PROVE \E step : LandsOn(step)
  <2>1. EndsPass(r) \/ GoesTo(r, "post pf")
    BY <1>7 DEF StartFlatten
  <2>2. CASE EndsPass(r)
    BY <2>2 DEF EndsPass, GoesTo
  <2>3. CASE GoesTo(r, "post pf")
    BY <1>5, <1>6, <2>3
  <2> QED
    BY <2>1, <2>2, <2>3
<1>8. pc[r] \in CheckSteps => phase \in {"due", "overdue"}
  BY <1>1 DEF InPhase
<1>9. /\ \E step : LandsOn(step)
      /\ phase' = phase /\ phase \in {"due", "overdue"}
      /\ orders'[Close] = Never <=> orders[Close] = Never
      /\ overlaps' # overlaps => StartCheck(r)
  <2>1. CASE StartCheck(r)
    <3>1. LandsOn("read") /\ UNCHANGED <<phase, orders>> /\ phase \in {"due", "overdue"}
      BY <1>5, <1>6, <2>1 DEF StartCheck
    <3> QED
      BY <2>1, <3>1
  <2>2. CASE Read(r)
    <3>1. /\ pc[r] \in CheckSteps /\ UNCHANGED <<phase, orders, overlaps>>
          /\ Sees(r, "judge") \/ Sees(r, "cancel entry") \/ CannotSee(r)
      BY <1>6, <2>2 DEF Read
    <3> QED
      BY <1>4, <1>5, <1>6, <1>8, <3>1
  <2>3. CASE CancelEntry(r)
    <3>1. /\ pc[r] \in CheckSteps /\ UNCHANGED <<phase, overlaps>> /\ GoesTo(r, "reread")
          /\ UNCHANGED orders \/ Cancels({Entry})
      BY <1>6, <2>3 DEF CancelEntry
    <3> QED
      BY <1>1, <1>5, <1>6, <1>8, <3>1, CancelsNoClose
  <2>4. CASE Reread(r)
    <3>1. /\ pc[r] \in CheckSteps /\ UNCHANGED <<phase, orders, overlaps>>
          /\ Sees(r, "judge") \/ LeftOpen(r) \/ CannotSee(r)
      BY <1>6, <2>4 DEF Reread
    <3> QED
      BY <1>4, <1>5, <1>6, <1>8, <3>1
  <2>5. CASE Judge(r)
    <3>1. /\ pc[r] \in CheckSteps /\ UNCHANGED <<phase, orders, overlaps>>
          /\ Checked(r) \/ GoesTo(r, "cancel legs") \/ GoesTo(r, "protect")
      BY <1>6, <2>5 DEF Judge
    <3> QED
      BY <1>4, <1>5, <1>6, <1>8, <3>1
  <2>6. CASE CancelLegs(r)
    <3>1. /\ pc[r] \in CheckSteps /\ UNCHANGED <<phase, overlaps>> /\ GoesTo(r, "reread legs")
          /\ Cancels({Legs})
      BY <1>6, <2>6 DEF CancelLegs
    <3> QED
      BY <1>1, <1>5, <1>6, <1>8, <3>1, CancelsNoClose
  <2>7. CASE RereadLegs(r)
    <3>1. /\ pc[r] \in CheckSteps /\ UNCHANGED <<phase, orders, overlaps>>
          /\ Sees(r, "protect") \/ LeftOpen(r) \/ CannotSee(r)
      BY <1>6, <2>7 DEF RereadLegs
    <3> QED
      BY <1>4, <1>5, <1>6, <1>8, <3>1
  <2>8. CASE ProtectPart(r)
    <3>1. /\ pc[r] \in CheckSteps /\ UNCHANGED <<phase, overlaps>>
          /\ UNCHANGED orders \/ \E ids : Cancels(ids)
          /\ \/ Alarm(r) \/ Checked(r) \/ LeftOpen(r) \/ GoesTo(r, "post px")
             \/ \E rec, owned : StartFlatten(r, rec, owned)
      BY <1>6, <2>8 DEF ProtectPart
    <3>2. orders'[Close] = Never <=> orders[Close] = Never
      BY <1>1, <3>1, CancelsNoClose
    <3> QED
      BY <1>4, <1>5, <1>6, <1>7, <1>8, <3>1, <3>2
  <2>9. CASE PostProtect(r)
    <3>1. /\ pc[r] \in CheckSteps /\ UNCHANGED <<phase, overlaps>>
          /\ \E qty, answer : Posts(<<"px", local[r].rec.px>>, qty, answer)
          /\ GoesTo(r, "confirm px") \/ \E rec, owned : StartFlatten(r, rec, owned)
      BY <1>6, <2>9 DEF PostProtect
    <3>2. orders'[Close] = orders[Close]
      <4>1. <<"px", local[r].rec.px>> # Close
        BY DEF Close
      <4> QED
        BY <1>1, <3>1, <4>1, PostsNoClose
    <3> QED
      BY <1>5, <1>6, <1>7, <1>8, <3>1, <3>2
  <2>10. CASE ConfirmProtect(r)
    <3>1. /\ pc[r] \in CheckSteps /\ UNCHANGED <<phase, orders, overlaps>>
          /\ \/ CannotSee(r) \/ Checked(r) \/ LeftOpen(r)
             \/ \E rec, owned : StartFlatten(r, rec, owned)
      BY <1>6, <2>10 DEF ConfirmProtect
    <3> QED
      BY <1>4, <1>7, <1>8, <3>1
  <2>11. CASE PostFlatten(r)
    <3>1. /\ pc[r] \in CheckSteps /\ UNCHANGED <<phase, overlaps>>
          /\ \E qty, answer : Posts(<<"pf", local[r].rec.pf>>, qty, answer)
          /\ GoesTo(r, "confirm pf") \/ Alarm(r)
      BY <1>6, <2>11 DEF PostFlatten
    <3>2. orders'[Close] = orders[Close]
      <4>1. <<"pf", local[r].rec.pf>> # Close
        BY DEF Close
      <4> QED
        BY <1>1, <3>1, <4>1, PostsNoClose
    <3> QED
      BY <1>4, <1>5, <1>6, <1>8, <3>1, <3>2
  <2>12. CASE ConfirmFlatten(r)
    <3>1. /\ pc[r] \in CheckSteps /\ UNCHANGED <<phase, orders, overlaps>>
          /\ Alarm(r) \/ Checked(r)
      BY <1>6, <2>12 DEF ConfirmFlatten
    <3> QED
      BY <1>4, <1>8, <3>1
  <2> QED
    BY <2>1, <2>2, <2>3, <2>4, <2>5, <2>6, <2>7, <2>8, <2>9, <2>10, <2>11, <2>12 DEF CheckStep
<1>10. PICK step : LandsOn(step)
  BY <1>9
<1>11. InPhase(step)
  BY <1>9, <1>10 DEF InPhase, CheckSteps, ExitSteps
<1>12. phase \in Morning => orders'[Close] = Never
  BY <1>9 DEF DayInv
<1>13. DayInv'
  BY <1>2, <1>9, <1>10, <1>11, <1>12, DayFrom
<1> QED
  BY <1>9, <1>13

\* A step of a time exit.
LEMMA ExitDay ==
  ASSUME DayInv, ExitStep
  PROVE  /\ DayInv' /\ phase \notin Morning /\ phase' \notin Morning /\ phase # "after"
         /\ orders[Close] # Never => orders'[Close] # Never
         /\ overlaps' # overlaps => StartExit
         /\ StartExit \/ phase' = phase
<1> DEFINE LandsOn(step) == step \in ExitSteps \cup {"idle"} /\ pc' = [pc EXCEPT !["tick"] = step]
<1>1. EntryInv /\ InPhase(pc["tick"]) /\ "tick" \in Runners
  BY DEF DayInv, Runners
<1>2. EntryInv'
  <2>1. OrdersNext
    BY DEF OrdersNext
  <2> QED
    BY <1>1, <2>1, EntryStep
<1>3. Retried \/ EndsPass("tick") => LandsOn("idle")
  BY DEF Retried, EndsPass, GoesTo
<1>4. \A step \in ExitSteps : GoesTo("tick", step) \/ Sees("tick", step) => LandsOn(step)
  BY DEF Sees, GoesTo
<1>5. "x read" \in ExitSteps /\ "x cancel" \in ExitSteps /\ "x reread" \in ExitSteps /\ "x sell" \in ExitSteps
      /\ "x post" \in ExitSteps /\ "x close" \in ExitSteps /\ "x record" \in ExitSteps
  BY DEF ExitSteps
<1>6. pc["tick"] \in ExitSteps => phase \in {"exit", "last", "closing"}
  BY <1>1 DEF InPhase
<1>7. CASE StartExit
  <2>1. /\ phase \in {"exit", "last"} /\ phase' \in {"exit", "closing"} /\ UNCHANGED orders
        /\ pc' = [pc EXCEPT !["tick"] = "x read"]
    BY <1>7 DEF StartExit, GoesTo
  <2>2. pc \in [Runners -> Steps]
    BY <1>1 DEF EntryInv, OrdersTypeOK
  <2>3. \A q \in Runners : pc'[q] = IF q = "tick" THEN "x read" ELSE pc[q]
    BY <2>1, <2>2
  <2>4. ASSUME NEW q \in Runners PROVE InPhase(pc[q])'
    <3>1. CASE q = "tick"
      <4>1. pc'[q] = "x read"
        BY <2>3, <3>1
      <4> QED
        BY <2>1, <4>1 DEF InPhase, CheckSteps, ExitSteps
    <3>2. CASE q # "tick"
      <4>1. InPhase(pc[q]) /\ pc'[q] = pc[q]
        BY <2>3, <3>2 DEF DayInv
      <4> QED
        BY <2>1, <4>1 DEF InPhase, Morning
    <3> QED
      BY <3>1, <3>2
  <2> QED
    BY <1>2, <1>7, <2>1, <2>4 DEF DayInv, Morning
<1>8. CASE ~StartExit
  <2>1. /\ \E step : LandsOn(step)
        /\ phase' = phase /\ phase \in {"exit", "last", "closing"} /\ overlaps' = overlaps
        /\ orders[Close] # Never => orders'[Close] # Never
    <3>1. CASE ExitRead
      <4>1. /\ pc["tick"] \in ExitSteps /\ UNCHANGED <<phase, orders, overlaps>>
            /\ Sees("tick", "x sell") \/ Sees("tick", "x cancel") \/ Retried
        BY <1>5, <3>1 DEF ExitRead
      <4> QED
        BY <1>3, <1>4, <1>5, <1>6, <4>1
    <3>2. CASE ExitCancel
      <4>1. /\ pc["tick"] \in ExitSteps /\ UNCHANGED <<phase, overlaps>> /\ GoesTo("tick", "x reread")
            /\ \E ids : Cancels(ids)
        BY <1>5, <3>2 DEF ExitCancel
      <4>2. orders'[Close] = Never <=> orders[Close] = Never
        BY <1>1, <4>1, CancelsNoClose
      <4> QED
        BY <1>4, <1>5, <1>6, <4>1, <4>2
    <3>3. CASE ExitReread
      <4>1. /\ pc["tick"] \in ExitSteps /\ UNCHANGED <<phase, orders, overlaps>>
            /\ GoesTo("tick", "x sell") \/ Retried
        BY <1>5, <3>3 DEF ExitReread
      <4> QED
        BY <1>3, <1>4, <1>5, <1>6, <4>1
    <3>4. CASE ExitSell
      <4>1. /\ pc["tick"] \in ExitSteps /\ UNCHANGED <<phase, orders, overlaps>>
            /\ GoesTo("tick", "x post") \/ Retried \/ EndsPass("tick")
        BY <1>5, <3>4 DEF ExitSell
      <4> QED
        BY <1>3, <1>4, <1>5, <1>6, <4>1
    <3>5. CASE ExitPost
      <4>1. /\ pc["tick"] \in ExitSteps /\ UNCHANGED <<phase, overlaps>>
            /\ \E qty, answer : Posts(<<"tx", T.rec.tx>>, qty, answer)
            /\ GoesTo("tick", "x close") \/ EndsPass("tick")
        BY <1>5, <3>5 DEF ExitPost
      <4>2. <<"tx", T.rec.tx>> # Close
        BY DEF Close
      <4>3. orders'[Close] = orders[Close]
        BY <1>1, <4>1, <4>2, PostsNoClose
      <4> QED
        BY <1>3, <1>4, <1>5, <1>6, <4>1, <4>3
    <3>6. CASE ExitClose
      <4>1. /\ pc["tick"] \in ExitSteps /\ UNCHANGED <<phase, overlaps>>
            /\ UNCHANGED orders \/ \E qty, answer : Posts(Close, qty, answer)
            /\ GoesTo("tick", "x record") \/ EndsPass("tick") \/ Retried
        BY <1>5, <3>6 DEF ExitClose
      <4>2. orders[Close] # Never => UNCHANGED orders
        BY <4>1 DEF Posts
      <4> QED
        BY <1>3, <1>4, <1>5, <1>6, <4>1, <4>2
    <3>7. CASE ExitRecord
      <4>1. pc["tick"] \in ExitSteps /\ UNCHANGED <<phase, orders, overlaps>> /\ EndsPass("tick")
        BY <1>5, <3>7 DEF ExitRecord
      <4> QED
        BY <1>3, <1>6, <4>1
    <3> QED
      BY <1>8, <3>1, <3>2, <3>3, <3>4, <3>5, <3>6, <3>7 DEF ExitStep
  <2>2. PICK step : LandsOn(step)
    BY <2>1
  <2>3. InPhase(step) /\ phase \notin Morning
    BY <2>1, <2>2 DEF InPhase, CheckSteps, ExitSteps, Morning
  <2>4. DayInv'
    BY <1>1, <1>2, <2>1, <2>2, <2>3, DayFrom
  <2> QED
    BY <2>1, <2>3, <2>4
<1> QED
  BY <1>7, <1>8

\* A step of a submission.
LEMMA SubmitDay ==
  ASSUME DayInv, SubmitStep
  PROVE  /\ DayInv' /\ phase' = phase /\ phase \in Morning
         /\ orders'[Close] = orders[Close]
         /\ overlaps' # overlaps => StartSubmit
<1>1. EntryInv /\ InPhase(pc["tick"]) /\ "tick" \in Runners
  BY DEF DayInv, Runners
<1>2. EntryInv'
  <2>1. OrdersNext
    BY DEF OrdersNext
  <2> QED
    BY <1>1, <2>1, EntryStep
<1>3. /\ \E step \in {"idle", "post entry", "look up entry"} : pc' = [pc EXCEPT !["tick"] = step]
      /\ phase' = phase /\ phase \in Morning /\ orders'[Close] = orders[Close]
      /\ overlaps' # overlaps => StartSubmit
  <2>1. CASE StartSubmit
    BY <2>1 DEF StartSubmit, GoesTo, Morning
  <2>2. CASE PostEntry
    <3>1. \E answer : Posts(Entry, Shares, answer)
      BY <2>2 DEF PostEntry
    <3>2. Entry # Close
      BY IdFacts
    <3>3. orders'[Close] = orders[Close]
      BY <1>1, <3>1, <3>2, PostsNoClose
    <3>4. phase \in Morning
      BY <1>1, <2>2 DEF PostEntry, InPhase
    <3> QED
      BY <2>2, <3>3, <3>4 DEF PostEntry, GoesTo
  <2>3. CASE RecordEntry
    <3>1. phase \in Morning
      BY <1>1, <2>3 DEF RecordEntry, InPhase
    <3> QED
      BY <2>3, <3>1 DEF RecordEntry, EndsPass, GoesTo
  <2> QED
    BY <2>1, <2>2, <2>3 DEF SubmitStep
<1>4. PICK step \in {"idle", "post entry", "look up entry"} : pc' = [pc EXCEPT !["tick"] = step]
  BY <1>3
<1>5. InPhase(step) /\ (phase \in Morning => orders'[Close] = Never)
  BY <1>3, <1>4 DEF InPhase, CheckSteps, ExitSteps, DayInv
<1>6. DayInv'
  BY <1>1, <1>2, <1>3, <1>4, <1>5, DayFrom
<1> QED
  BY <1>3, <1>6

\* A death.
LEMMA DiesDay ==
  ASSUME DayInv, NEW r \in Runners, Dies(r)
  PROVE  DayInv' /\ UNCHANGED <<phase, orders, row, actual, overlaps>>
<1>1. EntryInv /\ UNCHANGED <<phase, orders, row, actual, overlaps>> /\ pc' = [pc EXCEPT ![r] = "idle"]
  BY DEF DayInv, Dies, EndsPass, GoesTo
<1>2. EntryInv'
  BY <1>1, DiesEntry
<1>3. InPhase("idle") /\ (phase \in Morning => orders'[Close] = Never)
  BY <1>1 DEF InPhase, CheckSteps, ExitSteps, DayInv
<1>4. DayInv'
  BY <1>1, <1>2, <1>3, DayFrom
<1> QED
  BY <1>1, <1>4

\* What the jobs do not do.
LEMMA OutsideDay ==
  ASSUME DayInv, TimePasses \/ Broker \/ Reconcile
  PROVE  /\ DayInv' /\ UNCHANGED <<row, pc, local, overlaps>>
         /\ orders'[Close] = Never <=> orders[Close] = Never
         /\ phase' \in Morning => phase \in Morning
         /\ phase' # phase => TimePasses
<1>0. /\ Close \in Ids /\ Close \notin {Entry, Legs} /\ Legs \in Ids /\ Entry \in Ids
      /\ "tick" \in Runners /\ "guard" \in Runners
  BY IdFacts DEF Runners
<1>1. EntryInv /\ orders \in [Ids -> Order]
  BY DEF DayInv, EntryInv, OrdersTypeOK
<1>2. EntryInv'
  BY <1>1, OutsideEntry
<1>3. UNCHANGED <<row, pc, local, overlaps>>
  BY DEF TimePasses, Broker, Fills, Stops, Reconcile
<1>4. /\ orders'[Close] = Never <=> orders[Close] = Never
      /\ phase' # phase => TimePasses
  <2>1. CASE TimePasses
    BY <1>0, <1>1, <2>1, TimeDrifts, DriftKeeps
  <2>2. ASSUME NEW i \in Ids, Fills(i) PROVE (orders'[Close] = Never <=> orders[Close] = Never) /\ phase' = phase
    <3>1. CASE i = Entry
      <4>1. orders'[Close] = orders[Close]
        BY <1>0, <1>1, <2>2, <3>1 DEF Fills
      <4> QED
        BY <2>2, <4>1 DEF Fills
    <3>2. CASE i # Entry
      BY <1>0, <1>1, <2>2, <3>2, FillsDrift, DriftKeeps DEF Fills
    <3> QED
      BY <3>1, <3>2
  <2>3. ASSUME NEW i \in Ids, NEW status \in {"canceled", "rejected"}, Stops(i, status)
        PROVE  (orders'[Close] = Never <=> orders[Close] = Never) /\ phase' = phase
    <3>1. CASE i = Entry
      <4>1. orders'[Close] = orders[Close]
        BY <1>0, <1>1, <2>3, <3>1 DEF Stops
      <4> QED
        BY <2>3, <4>1 DEF Stops
    <3>2. CASE i # Entry
      BY <1>0, <1>1, <2>3, <3>2, StopsDrift, DriftKeeps DEF Stops
    <3> QED
      BY <3>1, <3>2
  <2>4. CASE Reconcile
    BY <2>4 DEF Reconcile
  <2> QED
    BY <2>1, <2>2, <2>3, <2>4 DEF Broker
<1>5. phase' \in Morning => phase \in Morning
  BY <1>4 DEF TimePasses, Morning
<1>6. ASSUME NEW q \in Runners PROVE InPhase(pc[q])'
  <2>1. InPhase(pc[q]) /\ pc'[q] = pc[q]
    BY <1>3 DEF DayInv
  <2>2. CASE phase' = phase
    BY <2>1, <2>2 DEF InPhase
  <2>3. CASE phase' # phase
    <3>1. q = "tick" \/ q = "guard"
      BY DEF Runners
    <3>2. q = "guard" => pc[q] \in CheckSteps \cup {"idle"}
      BY <1>1 DEF EntryInv, JobsHonest, Honest
    <3>3. TimePasses
      BY <1>4, <2>3
    <3>4. CASE phase \in {"entry", "due"}
      <4>1. phase' \in {"due", "overdue"}
        BY <3>3, <3>4 DEF TimePasses
      <4>2. pc[q] \notin ExitSteps
        BY <2>1, <3>4 DEF InPhase
      <4> QED
        BY <2>1, <4>1, <4>2 DEF InPhase, Morning
    <3>5. CASE phase = "overdue"
      <4>1. pc[q] = "idle"
        BY <3>3, <3>5 DEF TimePasses
      <4> QED
        BY <2>1, <4>1 DEF InPhase, CheckSteps, ExitSteps
    <3>6. CASE phase = "exit"
      <4>1. phase' = "last"
        BY <3>3, <3>6 DEF TimePasses
      <4> QED
        BY <2>1, <3>6, <4>1 DEF InPhase, Morning
    <3>7. CASE phase \in {"last", "closing"}
      <4>1. pc["tick"] = "idle"
        BY <3>3, <3>7 DEF TimePasses
      <4>2. pc[q] \notin CheckSteps
        BY <2>1, <3>7 DEF InPhase
      <4>3. pc[q] = "idle"
        BY <3>1, <3>2, <4>1, <4>2
      <4> QED
        BY <2>1, <4>3 DEF InPhase, CheckSteps, ExitSteps
    <3> QED
      BY <3>3, <3>4, <3>5, <3>6, <3>7 DEF TimePasses
  <2> QED
    BY <2>2, <2>3
<1>7. phase' \in Morning => orders'[Close] = Never
  BY <1>4, <1>5 DEF DayInv
<1> QED
  BY <1>2, <1>3, <1>4, <1>5, <1>6, <1>7 DEF DayInv

-----------------------------------------------------------------------------
(* The broker and the clock.                                               *)

\* What fits still fits when less is offered.
LEMMA LessFits ==
  ASSUME NEW a \in Int, NEW b \in Int, NEW n \in Int, NEW m \in Int, b <= a, a + n <= m PROVE b + n <= m
OBVIOUS

\* What is covered still is when more is sold.
LEMMA MoreCovers ==
  ASSUME NEW a \in Int, NEW b \in Int, NEW n \in Int, NEW m \in Int, a <= b, m <= a + n PROVE m <= b + n
OBVIOUS

\* More than a positive number is positive.
LEMMA Positive ==
  ASSUME NEW a \in Int, NEW b \in Int, a > 0, a <= b PROVE b > 0
OBVIOUS

\* The sizes of an order are numbers.
LEMMA FilledNumber ==
  ASSUME NEW o \in Order PROVE o.filled \in Int /\ o.qty \in Int /\ o.filled >= 0 /\ o.qty >= 0
BY OrdersConstants DEF Order

\* What a job relies on stays when orders drift on their own.
LEMMA DriftRelies ==
  ASSUME EntryInv, Drifts, Works, row' = row, NEW r \in Runners, NEW step, NEW l \in Locals,
         Honest(r, step, l), Relies(step, l)
  PROVE  Relies(step, l)'
<1>0. /\ Entry \in Ids /\ Legs \in Ids /\ Protect \cup Flatten \cup TimeExit \subseteq Ids
      /\ ExitIds \in SUBSET Ids
      /\ \A n \in 1..MaxTries : <<"px", n>> \in Ids \ {Entry, Legs} /\ <<"pf", n>> \in Ids \ {Entry, Legs}
  BY IdFacts, ExitsAreIds
<1>1. \A i \in Ids : /\ orders[i] \in Order /\ orders'[i] \in Order
                     /\ orders'[i] = Never <=> orders[i] = Never
                     /\ ~Working(orders[i]) => orders'[i] = orders[i] /\ ~Working(orders'[i])
                     /\ Final(orders[i]) => orders'[i] = orders[i] /\ Final(orders'[i])
  BY DriftKeeps
<1>2. Bought(orders) \in Int /\ (Final(orders[Entry]) => Bought(orders') = Bought(orders))
  BY DriftKeeps
<1>3. \A S \in SUBSET Ids : /\ OfferedOf(orders', S) <= OfferedOf(orders, S)
                            /\ FilledOf(orders, S) <= FilledOf(orders', S)
                            /\ OfferedOf(orders, S) \in Int /\ OfferedOf(orders', S) \in Int
                            /\ FilledOf(orders, S) \in Int /\ FilledOf(orders', S) \in Int
  BY DriftCounts
<1>13. l.owned \in Int
  BY OrdersConstants DEF Locals
<1>4. row \in Rows /\ Known(row) \subseteq Ids /\ Known(row)' = Known(row) /\ Legs \in Known(row)
  <2>1. row \in Rows
    BY DEF EntryInv, OrdersTypeOK
  <2> QED
    BY <2>1, IdsFinite DEF Known
<1>5. step \in CheckSteps \cup ExitSteps => l.rec = row' /\ ~row'.done
  BY DEF Relies
<1>6. step \in CheckSteps => ~row'.checked
  BY DEF Relies
<1>7. ASSUME step \in Counting, NEW i \in Known(row)
      PROVE  ShapedOrder(i, l.snap[i]) /\ (~Working(l.snap[i]) => orders'[i] = l.snap[i])
  <2>1. ShapedOrder(i, l.snap[i]) /\ (~Working(l.snap[i]) => orders[i] = l.snap[i])
    BY <1>7 DEF Relies
  <2> QED
    BY <1>1, <1>4, <2>1
<1>8. ASSUME step \in {"judge", "protect"}, NEW i \in Known(row), l.snap[i].status = "working"
      PROVE  orders'[i].status \in {"working", "filled", "rejected"}
  <2>1. orders[i].status \in {"working", "filled", "rejected"} /\ i \in Ids
    BY <1>4, <1>8 DEF Relies
  <2>2. orders[i].status = "working" => orders'[i].status \in {"working", "filled", "rejected"}
    BY <2>1 DEF Works
  <2>3. orders[i].status \in {"filled", "rejected"} => orders'[i] = orders[i]
    BY <1>1, <2>1 DEF Final
  <2> QED
    BY <2>1, <2>2, <2>3
<1>9. step = "cancel legs" => orders'[Entry].status # "filled"
  BY DEF Relies, Drifts
<1>10. step \in {"protect", "post px", "confirm px", "post pf", "confirm pf"} => Final(orders'[Legs])
  BY <1>0, <1>1 DEF Relies
<1>11. step \in AfterEntry => Final(orders[Entry]) /\ Bought(orders') = Bought(orders)
  BY <1>2 DEF Honest
<1>12. ASSUME step = "post px"
       PROVE  /\ \A i \in Protect : orders'[i] = Never
              /\ l.owned + orders'[Legs].filled = Bought(orders')
              /\ OfferedOf(orders', ExitIds) + l.owned <= Bought(orders')
              /\ Bought(orders') <= FilledOf(orders', ExitIds) + l.owned
  <2>1. /\ \A i \in Protect : orders[i] = Never
        /\ l.owned + orders[Legs].filled = Bought(orders)
        /\ OfferedOf(orders, ExitIds) + l.owned <= Bought(orders)
        /\ Bought(orders) <= FilledOf(orders, ExitIds) + l.owned
        /\ Final(orders[Legs])
    BY <1>12 DEF Relies
  <2>2. Bought(orders') = Bought(orders)
    BY <1>11, <1>12 DEF AfterEntry
  <2>3. orders'[Legs] = orders[Legs] /\ \A i \in Protect : orders'[i] = Never
    BY <1>0, <1>1, <2>1
  <2>4. OfferedOf(orders', ExitIds) + l.owned <= Bought(orders)
    BY <1>0, <1>2, <1>3, <1>13, <2>1, LessFits, Zenon
  <2>5. Bought(orders) <= FilledOf(orders', ExitIds) + l.owned
    BY <1>0, <1>2, <1>3, <1>13, <2>1, MoreCovers, Zenon
  <2> QED
    BY <2>1, <2>2, <2>3, <2>4, <2>5
<1>14. ASSUME step = "confirm px"
       PROVE  /\ \A i \in Protect \ {<<"px", row.px>>} : orders'[i] = Never
              /\ row.pf = 0
              /\ orders'[<<"px", row.px>>].status # "canceling"
              /\ OfferedOf(orders', ExitIds \ {<<"px", row.px>>}) + l.owned <= Bought(orders')
              /\ Bought(orders') <= FilledOf(orders', ExitIds \ {<<"px", row.px>>}) + l.owned
  <2> DEFINE id == <<"px", row.px>>
  <2>1. /\ \A i \in Protect \ {id} : orders[i] = Never
        /\ row.pf = 0
        /\ orders[id].status # "canceling"
        /\ OfferedOf(orders, ExitIds \ {id}) + l.owned <= Bought(orders)
        /\ Bought(orders) <= FilledOf(orders, ExitIds \ {id}) + l.owned
    BY <1>14 DEF Relies
  <2>2. Bought(orders') = Bought(orders)
    BY <1>11, <1>14 DEF AfterEntry
  <2>3. row.px \in 1..MaxTries
    <3>1. row.px # 0
      BY <1>14 DEF Honest, Relies, CheckSteps
    <3> QED
      BY <1>4, <3>1, OrdersConstants DEF Rows
  <2>4. id \in Ids \ {Entry, Legs}
    BY <1>0, <2>3
  <2> HIDE DEF id
  <2>5. \A i \in Protect \ {id} : orders'[i] = Never
    BY <1>0, <1>1, <2>1
  <2>6. orders'[id].status # "canceling"
    <3>1. orders[id].status # "held"
      BY <2>4 DEF EntryInv, Shaped, ShapedOrder
    <3>2. orders[id].status = "working" => orders'[id].status \in {"working", "filled", "rejected"}
      BY <2>4 DEF Works
    <3>3. orders[id].status # "working" => orders'[id] = orders[id]
      <4>1. orders[id].status # "working" => ~Working(orders[id])
        BY <2>1, <3>1 DEF Working
      <4> QED
        BY <1>1, <2>4, <4>1
    <3> QED
      BY <2>1, <3>2, <3>3
  <2>7. ExitIds \ {id} \in SUBSET Ids
    BY <1>0
  <2>8. OfferedOf(orders', ExitIds \ {id}) + l.owned <= Bought(orders)
    BY <1>2, <1>3, <1>13, <2>1, <2>7, LessFits, Zenon
  <2>9. Bought(orders) <= FilledOf(orders', ExitIds \ {id}) + l.owned
    BY <1>2, <1>3, <1>13, <2>1, <2>7, MoreCovers, Zenon
  <2> QED
    BY <2>1, <2>2, <2>5, <2>6, <2>8, <2>9 DEF id
<1>15. step = "post pf" =>
         OfferedOf(orders', ExitIds) + l.owned <= Bought(orders') \/ \E i \in Protect : orders'[i].filled > 0
  <2> SUFFICES ASSUME step = "post pf"
               PROVE  OfferedOf(orders', ExitIds) + l.owned <= Bought(orders')
                        \/ \E i \in Protect : orders'[i].filled > 0
    OBVIOUS
  <2>1. Bought(orders') = Bought(orders)
    BY <1>11 DEF AfterEntry
  <2>2. CASE OfferedOf(orders, ExitIds) + l.owned <= Bought(orders)
    <3>1. OfferedOf(orders', ExitIds) + l.owned <= Bought(orders)
      BY <1>0, <1>2, <1>3, <1>13, <2>2, LessFits, Zenon
    <3> QED
      BY <2>1, <3>1
  <2>3. CASE \E i \in Protect : orders[i].filled > 0
    <3>1. PICK i \in Protect : orders[i].filled > 0
      BY <2>3
    <3>2. orders'[i].filled > 0
      <4>1. i \in Ids /\ orders[i].filled <= orders'[i].filled
        BY <1>0 DEF Drifts
      <4>2. orders[i].filled \in Int /\ orders'[i].filled \in Int
        <5>1. orders[i] \in Order /\ orders'[i] \in Order
          BY <1>1, <4>1, Zenon
        <5> QED
          BY <5>1, FilledNumber, Zenon
      <4> QED
        BY <3>1, <4>1, <4>2, Positive, Zenon
    <3> QED
      BY <3>2
  <2> QED
    BY <2>2, <2>3 DEF Relies
<1>16. step \in {"post pf", "confirm pf"} =>
         Bought(orders') <= FilledOf(orders', ExitIds \ {<<"pf", row.pf>>}) + l.owned
  <2> SUFFICES ASSUME step \in {"post pf", "confirm pf"}
               PROVE  Bought(orders') <= FilledOf(orders', ExitIds \ {<<"pf", row.pf>>}) + l.owned
    OBVIOUS
  <2>1. Bought(orders') = Bought(orders)
    BY <1>11 DEF AfterEntry
  <2>2. Bought(orders) <= FilledOf(orders, ExitIds \ {<<"pf", row.pf>>}) + l.owned
    BY DEF Relies
  <2>3. ExitIds \ {<<"pf", row.pf>>} \in SUBSET Ids
    BY <1>0
  <2>4. Bought(orders) <= FilledOf(orders', ExitIds \ {<<"pf", row.pf>>}) + l.owned
    BY <1>2, <1>3, <1>13, <2>2, <2>3, MoreCovers, Zenon
  <2> QED
    BY <2>1, <2>4
<1>17. ASSUME step \in {"x sell", "x post", "x close"}
       PROVE  /\ Final(orders'[Entry]) /\ Final(orders'[Legs])
              /\ \A i \in Protect \cup Flatten : ~Working(orders'[i])
              /\ Bought(orders') = Bought(orders)
  <2>1. /\ Final(orders[Entry]) /\ Final(orders[Legs])
        /\ \A i \in Protect \cup Flatten : ~Working(orders[i])
    BY <1>17 DEF Relies
  <2> QED
    BY <1>0, <1>1, <1>2, <2>1
<1>18. ASSUME step = "x post"
       PROVE  /\ \A i \in TimeExit : ~Working(orders'[i])
              /\ OfferedOf(orders', ExitIds) + l.owned <= Bought(orders')
  <2>1. /\ \A i \in TimeExit : ~Working(orders[i])
        /\ OfferedOf(orders, ExitIds) + l.owned <= Bought(orders)
    BY <1>18 DEF Relies
  <2>2. OfferedOf(orders', ExitIds) + l.owned <= Bought(orders)
    BY <1>0, <1>2, <1>3, <1>13, <2>1, LessFits, Zenon
  <2>3. Bought(orders') = Bought(orders)
    BY <1>17, <1>18
  <2> QED
    BY <1>0, <1>1, <2>1, <2>2, <2>3
<1>19. step = "x close" => OfferedOf(orders', ExitIds) <= Bought(orders')
  <2> SUFFICES ASSUME step = "x close" PROVE OfferedOf(orders', ExitIds) <= Bought(orders')
    OBVIOUS
  <2>1. OfferedOf(orders, ExitIds) <= Bought(orders) /\ Bought(orders') = Bought(orders)
    BY <1>17 DEF Relies
  <2> QED
    BY <1>0, <1>2, <1>3, <2>1, AtMost, Zenon
<1>20. step \in {"judge", "cancel legs", "reread legs", "protect"} => Final(l.snap[Entry])
  BY DEF Relies
<1>21. step = "protect" => ~Working(l.snap[Legs])
  BY DEF Relies
<1>22. step # "x record" /\ (step = "x sell" => \A i \in Known(row) : ~Working(l.snap[i]))
  BY DEF Relies
<1>23. step = "post px" => row.pf = 0
  BY DEF Relies
<1>24. row'.px = row.px /\ row'.pf = row.pf
  OBVIOUS
<1> QED
  BY <1>4, <1>5, <1>6, <1>7, <1>8, <1>9, <1>10, <1>12, <1>14, <1>15, <1>16, <1>17, <1>18, <1>19, <1>20,
     <1>21, <1>22, <1>23, <1>24 DEF Relies

\* The row, when orders drift and no job steps.
LEMMA RowDrifts ==
  ASSUME EntryInv, RowKnows, Drifts, UNCHANGED <<row, pc, local>>, row.checked => phase' # "entry"
  PROVE  RowKnows'
<1>0. /\ Entry \in Ids /\ Protect \subseteq Ids
      /\ \A n \in 1..MaxTries : <<"px", n>> \in Ids /\ <<"pf", n>> \in Ids
      /\ \A n \in 1..MaxSells : <<"tx", n>> \in Ids
  BY IdFacts, ExitsAreIds
<1>1. \A i \in Ids : /\ orders'[i] = Never <=> orders[i] = Never
                     /\ ~Working(orders[i]) => orders'[i] = orders[i] /\ ~Working(orders'[i])
                     /\ Final(orders[i]) => orders'[i] = orders[i] /\ Final(orders'[i])
  BY DriftKeeps
<1>2. /\ row.state = "none" => row = NoRow
      /\ row.state = "submitted" => orders[Entry] # Never
      /\ pc["tick"] = "look up entry" /\ local["tick"].code = "accepted" => orders[Entry] # Never
      /\ ~row.closes
      /\ \A n \in 1..MaxTries : /\ orders[<<"px", n>>] # Never => n <= row.px
                                /\ orders[<<"pf", n>>] # Never => n <= row.pf
      /\ \A n \in 1..MaxSells : orders[<<"tx", n>>] # Never => n <= row.tx
      /\ Flattened(row)
  BY DEF RowKnows
<1>3. \A n \in 1..MaxTries : /\ orders'[<<"px", n>>] # Never => n <= row.px
                             /\ orders'[<<"pf", n>>] # Never => n <= row.pf
  BY <1>0, <1>1, <1>2, Zenon
<1>4. \A n \in 1..MaxSells : orders'[<<"tx", n>>] # Never => n <= row.tx
  BY <1>0, <1>1, <1>2, Zenon
<1>5. Flattened(row)'
  BY <1>0, <1>1, <1>2 DEF Flattened
<1>6. orders'[Entry] = Never <=> orders[Entry] = Never
  BY <1>0, <1>1
<1>7. row' = row /\ pc' = pc /\ local' = local
  OBVIOUS
<1> QED
  BY <1>2, <1>3, <1>4, <1>5, <1>6, <1>7 DEF RowKnows

\* What is over stays so.
LEMMA OverDrifts ==
  ASSUME EntryInv, Over, Drifts, UNCHANGED <<row, pc, actual>>,
         phase' \in Morning => phase \in Morning, phase = "after" => phase' = "after"
  PROVE  Over'
<1>1. ASSUME row.done
      PROVE  /\ row.state = "submitted" /\ phase' \notin Morning
             /\ \A r \in Runners : pc[r] = "idle"
             /\ orders' = orders
             /\ \A i \in Ids : ~Working(orders[i])
             /\ Bought(orders) = FilledOf(orders, ExitIds)
  <2>1. /\ row.state = "submitted" /\ phase \notin Morning
        /\ \A r \in Runners : pc[r] = "idle"
        /\ \A i \in Ids : ~Working(orders[i])
        /\ Bought(orders) = FilledOf(orders, ExitIds)
    BY <1>1 DEF Over
  <2>2. \A i \in Ids : orders'[i] = orders[i]
    BY <2>1 DEF Drifts
  <2>3. orders \in [Ids -> Order] /\ orders' \in [Ids -> Order]
    BY DEF EntryInv, OrdersTypeOK, Drifts, Moves
  <2>4. orders' = orders
    BY <2>2, <2>3
  <2> QED
    BY <2>1, <2>4
<1>2. actual # "none" => phase' = "after"
  BY DEF Over
<1>3. row.done /\ actual # "none" => actual = IF Bought(orders) = 0 THEN "NO_FILL" ELSE "CLOSED"
  BY DEF Over
<1>4. row' = row /\ pc' = pc /\ actual' = actual
  OBVIOUS
<1> QED
  BY <1>1, <1>2, <1>3, <1>4 DEF Over

\* Orders that drift leave the shares covered.
LEMMA SoloDrifts ==
  ASSUME EntryInv, Solo, Drifts, LegsKept, UNCHANGED <<row, pc, local, actual>>,
         Works \/ ((\A r \in Runners : pc[r] = "idle") /\ phase' \notin {"due", "overdue"}),
         phase' \in Morning => phase \in Morning, phase = "after" => phase' = "after",
         phase' = "entry" => phase = "entry"
  PROVE  Solo'
<1>1. RowKnows /\ InTurn /\ Fit /\ Covers /\ Over
  BY DEF Solo
<1>2. row.checked => phase # "entry" /\ phase' # "entry"
  BY <1>1 DEF RowKnows
<1>3. RowKnows' /\ InTurn' /\ Fit' /\ Over'
  BY <1>1, <1>2, RowDrifts, DriftInTurn, DriftFit, OverDrifts
<1>4. Covers'
  <2>1. CASE phase' \notin {"due", "overdue"}
    BY <2>1, CoversOpen
  <2>2. CASE phase' \in {"due", "overdue"}
    <3>1. phase \in Morning /\ Works
      BY <2>2 DEF Morning
    <3>2. row.checked => phase \in {"due", "overdue"}
      BY <1>2, <3>1 DEF Morning
    <3> QED
      BY <1>1, <3>1, <3>2, DriftCovers
  <2> QED
    BY <2>1, <2>2
<1>5. ASSUME NEW r \in Runners PROVE Relies(pc[r], local[r])'
  <2>0. PICK step : step = pc[r]
    OBVIOUS
  <2>1. PICK l \in Locals : l = local[r]
    BY DEF EntryInv, OrdersTypeOK
  <2>2. Relies(step, l)'
    <3>1. CASE Works
      <4>1. Honest(r, step, l) /\ Relies(step, l)
        BY <2>0, <2>1 DEF EntryInv, JobsHonest, Solo
      <4>2. row' = row
        OBVIOUS
      <4> QED
        BY <3>1, <4>1, <4>2, DriftRelies
    <3>2. CASE \A q \in Runners : pc[q] = "idle"
      <4>1. step = "idle"
        BY <2>0, <3>2
      <4>2. Relies("idle", l)'
        BY IdleRelies
      <4> QED
        BY <4>1, <4>2
    <3> QED
      BY <3>1, <3>2
  <2>3. pc'[r] = step /\ local'[r] = l
    BY <2>0, <2>1
  <2> QED
    BY <2>2, <2>3
<1>6. (pc["tick"] = "idle" \/ pc["guard"] = "idle")'
  BY DEF Solo
<1> QED
  BY <1>3, <1>4, <1>5, <1>6 DEF Solo

\* Time passes.
LEMMA TimeSolo ==
  ASSUME DayInv, Solo, TimePasses PROVE Solo'
<1>1. EntryInv
  BY DEF DayInv
<1>2. UNCHANGED <<row, pc, local, actual>> /\ Drifts
  BY <1>1, TimeDrifts DEF TimePasses
<1>3. /\ phase' \in Morning => phase \in Morning
      /\ phase = "after" => phase' = "after"
      /\ phase' = "entry" => phase = "entry"
  BY DEF TimePasses, Morning
<1>4. CASE UNCHANGED orders
  BY <1>1, <1>2, <1>3, <1>4, StillDrifts, SoloDrifts
<1>5. CASE phase \in {"last", "closing"} /\ pc["tick"] = "idle" /\ phase' = "after"
  <2>1. ASSUME NEW r \in Runners PROVE pc[r] = "idle"
    <3>1. CASE r = "tick"
      BY <1>5, <3>1
    <3>2. CASE r = "guard"
      <4>1. pc[r] \in CheckSteps \cup {"idle"} /\ InPhase(pc[r])
        BY <1>1, <3>2 DEF DayInv, EntryInv, JobsHonest, Honest
      <4> QED
        BY <1>5, <4>1 DEF InPhase
    <3> QED
      BY <3>1, <3>2 DEF Runners
  <2>2. LegsKept
    BY <1>5 DEF LegsKept, Morning
  <2> QED
    BY <1>1, <1>2, <1>3, <1>5, <2>1, <2>2, SoloDrifts
<1> QED
  BY <1>4, <1>5 DEF TimePasses

\* An exit trades or ends.
LEMMA ExitOrdersSolo ==
  ASSUME DayInv, Solo, NEW i \in Ids \ {Entry},
         Fills(i) \/ \E status \in {"canceled", "rejected"} : Stops(i, status)
  PROVE  Solo'
<1>1. EntryInv
  BY DEF DayInv
<1>2. UNCHANGED <<phase, row, pc, local, actual>>
  BY DEF Fills, Stops
<1>3. Drifts /\ Works /\ LegsKept
  BY <1>1, FillsDrift, StopsDrift
<1> QED
  BY <1>1, <1>2, <1>3, SoloDrifts

-----------------------------------------------------------------------------
(* The entry trades or ends.                                               *)

\* A share of the entry trades: the legs start to work when all of it has.
LEMMA EntryFills ==
  ASSUME EntryInv, Fills(Entry)
  PROVE  /\ orders[Entry].status \in {"working", "canceling"} /\ orders'[Entry] # Never
         /\ \A i \in Ids \ {Entry, Legs} : orders'[i] = orders[i]
         /\ \/ orders'[Legs] = orders[Legs] /\ (orders'[Entry].status = "filled" => orders[Legs].status # "held")
            \/ /\ orders[Legs].status = "held" /\ orders'[Legs].status = "working"
               /\ orders'[Legs].qty = Bought(orders') /\ orders'[Legs].filled = 0
               /\ orders'[Entry].status = "filled"
<1>0. Entry \in Ids /\ Legs \in Ids /\ Entry # Legs
  BY IdFacts
<1> DEFINE new == OneMore(orders[Entry])
           os == [orders EXCEPT ![Entry] = new]
<1>1. orders \in [Ids -> Order] /\ orders[Entry].status \in {"working", "canceling"} /\ orders[Entry] \in Order
  BY <1>0 DEF EntryInv, OrdersTypeOK, Fills
<1>2. orders' = IF os[Entry].status = "filled" /\ os[Legs].status = "held"
                THEN [os EXCEPT ![Legs].status = "working"] ELSE os
  BY DEF Fills
<1>3. /\ new.qty = orders[Entry].qty /\ new.status \in {"filled", orders[Entry].status}
      /\ new.status = "filled" => new.filled = new.qty
  <2> DEFINE status == IF orders[Entry].filled + 1 = orders[Entry].qty THEN "filled" ELSE orders[Entry].status
  <2>1. new = [orders[Entry] EXCEPT !.filled = orders[Entry].filled + 1, !.status = status]
    BY DEF OneMore
  <2> HIDE DEF status
  <2>2. new.filled = orders[Entry].filled + 1 /\ new.qty = orders[Entry].qty /\ new.status = status
    BY <1>1, <2>1 DEF Order
  <2>3. status = "filled" \/ status = orders[Entry].status
    BY DEF status
  <2>4. status = "filled" => orders[Entry].filled + 1 = orders[Entry].qty
    BY <1>1 DEF status
  <2> QED
    BY <2>2, <2>3, <2>4, Zenon
<1> HIDE DEF new
<1>4. os[Entry] = new /\ os[Legs] = orders[Legs] /\ \A i \in Ids \ {Entry} : os[i] = orders[i]
  BY <1>0, <1>1
<1>5. DOMAIN os = Ids
  BY <1>1
<1> HIDE DEF os
<1>6. orders[Entry].qty = Shares
  BY <1>1 DEF EntryInv, Shaped, Never
<1>7. new.status # "none"
  BY <1>1, <1>3
<1>8. CASE os[Entry].status = "filled" /\ os[Legs].status = "held"
  <2>1. orders' = [os EXCEPT ![Legs].status = "working"]
    BY <1>2, <1>8
  <2>2. orders'[Legs] = [os[Legs] EXCEPT !.status = "working"] /\ orders'[Entry] = new
        /\ \A i \in Ids \ {Entry, Legs} : orders'[i] = orders[i]
    BY <1>0, <1>4, <1>5, <2>1
  <2>3. orders[Legs] \in Order /\ orders[Legs].status = "held" /\ orders[Legs].qty = Shares /\ orders[Legs].filled = 0
    BY <1>0, <1>1, <1>4, <1>8 DEF EntryInv, Shaped, ShapedOrder
  <2>4. orders'[Legs].status = "working" /\ orders'[Legs].qty = Shares /\ orders'[Legs].filled = 0
    BY <1>4, <2>2, <2>3 DEF Order
  <2>5. new.filled = Shares
    <3>1. new.status = "filled"
      BY <1>4, <1>8
    <3> QED
      BY <1>3, <1>6, <3>1
  <2>6. Bought(orders') = Shares
    BY <2>2, <2>5 DEF Bought
  <2>7. new # Never
    BY <1>7 DEF Never
  <2> QED
    BY <1>1, <1>4, <1>8, <2>2, <2>3, <2>4, <2>6, <2>7
<1>9. CASE ~(os[Entry].status = "filled" /\ os[Legs].status = "held")
  <2>1. orders' = os
    BY <1>2, <1>9
  <2>2. new # Never
    BY <1>7 DEF Never
  <2>3. orders'[Entry].status = "filled" => orders[Legs].status # "held"
    BY <1>4, <1>9, <2>1
  <2>4. orders'[Legs] = orders[Legs] /\ orders'[Entry] = new /\ \A i \in Ids \ {Entry, Legs} : orders'[i] = orders[i]
    BY <1>0, <1>4, <2>1
  <2> QED
    BY <1>1, <2>2, <2>3, <2>4
<1> QED
  BY <1>8, <1>9

\* The entry ends: its legs end, stay, or are sized to what was bought.
LEMMA EntryStops ==
  ASSUME EntryInv, NEW status \in {"canceled", "rejected"}, Stops(Entry, status)
  PROVE  /\ orders[Entry].status \in {"working", "canceling"} /\ orders'[Entry] # Never
         /\ orders'[Entry].status = status
         /\ \A i \in Ids \ {Entry, Legs} : orders'[i] = orders[i]
         /\ \/ orders'[Legs] = orders[Legs]
            \/ Working(orders[Legs]) /\ orders'[Legs].status = "canceled" /\ orders'[Legs].filled = orders[Legs].filled
            \/ /\ Working(orders[Legs]) /\ orders'[Legs].status = "working"
               /\ orders'[Legs].qty = Bought(orders') /\ orders'[Legs].filled = orders[Legs].filled
<1>0. Entry \in Ids /\ Legs \in Ids /\ Entry # Legs
  BY IdFacts
<1> DEFINE new == [orders[Entry] EXCEPT !.status = status]
           os == [orders EXCEPT ![Entry].status = status]
<1>1. orders \in [Ids -> Order] /\ orders[Entry].status \in {"working", "canceling"} /\ orders[Entry] \in Order
      /\ orders[Legs] \in Order
  BY <1>0 DEF EntryInv, OrdersTypeOK, Stops
<1>2. PICK legs \in LegsLeft(os[Entry], os[Legs]) : orders' = [os EXCEPT ![Legs] = legs]
  BY DEF Stops
<1>3. new.status = status /\ new.filled = orders[Entry].filled
  BY <1>1 DEF Order
<1>4. os[Entry] = new /\ os[Legs] = orders[Legs] /\ (\A i \in Ids \ {Entry} : os[i] = orders[i]) /\ DOMAIN os = Ids
  BY <1>0, <1>1
<1> HIDE DEF os, new
<1>5. /\ orders'[Legs] = legs /\ orders'[Entry] = new
      /\ \A i \in Ids \ {Entry, Legs} : orders'[i] = orders[i]
  BY <1>0, <1>2, <1>4
<1>6. new # Never /\ Bought(orders') = new.filled
  BY <1>3, <1>5 DEF Never, Bought
<1>7. CASE legs = orders[Legs]
  BY <1>1, <1>3, <1>5, <1>6, <1>7
<1>8. CASE Working(orders[Legs]) /\ legs = [orders[Legs] EXCEPT !.status = "canceled"]
  <2>1. legs.status = "canceled" /\ legs.filled = orders[Legs].filled
    BY <1>1, <1>8 DEF Order
  <2> QED
    BY <1>1, <1>3, <1>5, <1>6, <1>8, <2>1
<1>9. CASE Working(orders[Legs]) /\ legs = [orders[Legs] EXCEPT !.status = "working", !.qty = new.filled]
  <2>1. legs.status = "working" /\ legs.filled = orders[Legs].filled /\ legs.qty = new.filled
    BY <1>1, <1>9 DEF Order
  <2> QED
    BY <1>1, <1>3, <1>5, <1>6, <1>9, <2>1
<1>10. legs \in LegsLeft(new, orders[Legs])
  BY <1>2, <1>4
<1>11. \/ legs = orders[Legs]
       \/ Working(orders[Legs]) /\ legs = [orders[Legs] EXCEPT !.status = "canceled"]
       \/ Working(orders[Legs]) /\ legs = [orders[Legs] EXCEPT !.status = "working", !.qty = new.filled]
  BY <1>10 DEF LegsLeft
<1> QED
  BY <1>7, <1>8, <1>9, <1>11

\* Both are a turn of the entry.
LEMMA EntryTurns ==
  ASSUME EntryInv, Fills(Entry) \/ \E status \in {"canceled", "rejected"} : Stops(Entry, status)
  PROVE  /\ orders[Entry].status \in {"working", "canceling"} /\ orders'[Entry] # Never
         /\ \A i \in Ids \ {Entry, Legs} : orders'[i] = orders[i]
         /\ ~Working(orders[Legs]) => orders'[Legs] = orders[Legs]
         /\ orders'[Legs].status \in {"none", "held", "canceled", "working"} /\ orders'[Legs].filled = 0
         /\ orders'[Legs].status = "none" => orders[Legs].status = "none"
         /\ orders'[Legs].status = "working" => orders'[Legs].qty = Bought(orders')
         /\ orders'[Entry].status \in {"working", "canceling"} => orders'[Legs] = orders[Legs]
         /\ orders'[Entry].status = "filled" /\ orders[Legs].status = "held" => orders'[Legs].status = "working"
<1>1. orders[Legs].status \in {"none", "held", "canceled"} /\ orders[Legs].filled = 0
  <2>1. ~Final(orders[Entry])
    BY EntryFills, EntryStops DEF Final
  <2> QED
    BY <2>1 DEF EntryInv, Shaped
<1>2. orders[Legs].status # "working"
  BY <1>1
<1>3. CASE Fills(Entry)
  BY <1>1, <1>2, <1>3, EntryFills DEF Working
<1>4. ASSUME NEW status \in {"canceled", "rejected"}, Stops(Entry, status)
      PROVE  /\ orders[Entry].status \in {"working", "canceling"} /\ orders'[Entry] # Never
             /\ \A i \in Ids \ {Entry, Legs} : orders'[i] = orders[i]
             /\ ~Working(orders[Legs]) => orders'[Legs] = orders[Legs]
             /\ orders'[Legs].status \in {"none", "held", "canceled", "working"} /\ orders'[Legs].filled = 0
             /\ orders'[Legs].status = "none" => orders[Legs].status = "none"
             /\ orders'[Legs].status = "working" => orders'[Legs].qty = Bought(orders')
             /\ orders'[Entry].status \notin {"working", "canceling", "filled"}
  BY <1>1, <1>2, <1>4, EntryStops
<1> QED
  BY <1>3, <1>4

\* The shares of the legs.
LEMMA LegsAlone ==
  ASSUME NEW os \in [Ids -> Order], \A i \in ExitIds \ {Legs} : os[i] = Never, NEW S \in SUBSET ExitIds, Legs \in S
  PROVE  OfferedOf(os, S) = OfferedBy(os[Legs]) /\ FilledOf(os, S) = os[Legs].filled
<1>0. ExitIds \in SUBSET Ids /\ Legs \in Ids /\ S \in SUBSET Ids /\ {Legs} \in SUBSET Ids /\ {Legs} \subseteq S
  BY ExitsAreIds, IdFacts
<1>1. /\ Trades(os) \in [Ids -> 0..Shares] /\ Offers(os) \in [Ids -> 0..Shares]
      /\ \A i \in Ids : Trades(os)[i] = os[i].filled /\ Offers(os)[i] = OfferedBy(os[i])
      /\ FilledOf(os, S) = Counted(Trades(os), S)
  BY <1>0, TradesTyped
<1>2. OfferedBy(Never) = 0 /\ Never.filled = 0
  BY DEF OfferedBy, Never
<1>3. \A i \in S \ {Legs} : Trades(os)[i] = 0 /\ Offers(os)[i] = 0
  BY <1>0, <1>1, <1>2
<1>4. Counted(Offers(os), S) = Counted(Offers(os), {Legs}) /\ Counted(Trades(os), S) = Counted(Trades(os), {Legs})
  BY <1>0, <1>1, <1>3, CountedPart
<1>5. Counted(Offers(os), {Legs}) = Offers(os)[Legs] /\ Counted(Trades(os), {Legs}) = Trades(os)[Legs]
  BY <1>0, <1>1, CountedOne
<1> QED
  BY <1>0, <1>1, <1>4, <1>5 DEF OfferedOf

\* A turn of the entry leaves the shares covered.
LEMMA EntrySolo ==
  ASSUME DayInv, Solo, orders[Close] = Never, orders' \in [Ids -> Order],
         Fills(Entry) \/ \E status \in {"canceled", "rejected"} : Stops(Entry, status)
  PROVE  Solo'
<1>0. /\ Entry \in Ids /\ Legs \in Ids /\ Entry # Legs /\ ExitIds \in SUBSET Ids /\ Legs \in ExitIds /\ Entry \notin ExitIds
      /\ Protect \cup Flatten \cup TimeExit \subseteq ExitIds /\ Legs \notin Protect \cup Flatten \cup TimeExit
      /\ \A n \in 1..MaxTries : <<"px", n>> \in Ids \ {Entry, Legs} /\ <<"pf", n>> \in Ids \ {Entry, Legs}
      /\ \A n \in 1..MaxSells : <<"tx", n>> \in Ids \ {Entry, Legs}
  BY IdFacts, ExitsAreIds
<1>1. EntryInv /\ RowKnows /\ InTurn /\ Fit /\ Covers /\ Over
  BY DEF DayInv, Solo
<1>2. /\ orders[Entry].status \in {"working", "canceling"} /\ orders'[Entry] # Never
      /\ \A i \in Ids \ {Entry, Legs} : orders'[i] = orders[i]
  BY <1>1, EntryTurns
<1>3. /\ ~Working(orders[Legs]) => orders'[Legs] = orders[Legs]
      /\ orders'[Legs].status \in {"none", "held", "canceled", "working"} /\ orders'[Legs].filled = 0
      /\ orders'[Legs].status = "none" => orders[Legs].status = "none"
  BY <1>1, EntryTurns
<1>4. orders'[Legs].status = "working" => orders'[Legs].qty = Bought(orders')
  BY <1>1, EntryTurns
<1>5. /\ orders'[Entry].status \in {"working", "canceling"} => orders'[Legs] = orders[Legs]
      /\ orders'[Entry].status = "filled" /\ orders[Legs].status = "held" => orders'[Legs].status = "working"
  BY <1>1, EntryTurns
<1>6. UNCHANGED <<phase, row, actual, pc, local>>
  BY DEF Fills, Stops
<1>7. ~Final(orders[Entry]) /\ Working(orders[Entry]) /\ orders[Entry] # Never
  BY <1>2 DEF Final, Working, Never
<1>8. \A i \in Protect \cup Flatten \cup TimeExit : orders[i] = Never /\ orders'[i] = Never
  <2>1. \A i \in Protect \cup Flatten \cup TimeExit : orders[i] = Never
    BY <1>1, <1>7 DEF InTurn
  <2> QED
    BY <1>0, <1>2, <2>1
<1>9. orders'[Close] = Never
  BY <1>2, IdFacts
<1>10. Bought(orders') \in Int /\ 0 <= Bought(orders')
  BY <1>0, FilledNumber DEF Bought
<1>11. InTurn'
  <2>1. orders'[Legs] # Never
    <3>1. orders[Legs] # Never
      BY <1>1, <1>7 DEF InTurn
    <3>2. orders[Legs].status # "none"
      BY <1>0, <1>1, <3>1 DEF EntryInv, Shaped, ShapedOrder
    <3> QED
      BY <1>3, <3>2 DEF Never
  <2>2. phase \in Morning => orders[Legs].status = "held"
    BY <1>1, <1>2 DEF InTurn
  <2>3. orders'[Legs].status \in {"working", "canceling", "filled"} => orders'[Legs].qty = Bought(orders')
    BY <1>3, <1>4
  <2>4. phase' \in Morning =>
          /\ orders'[Entry].status \in {"working", "canceling"} => orders'[Legs].status = "held"
          /\ orders'[Entry].status = "filled" => orders'[Legs].status \in {"working", "filled"}
    BY <1>5, <1>6, <2>2
  <2> QED
    BY <1>8, <2>1, <2>3, <2>4 DEF InTurn
<1>12. Fit'
  <2>1. \A i \in ExitIds \ {Legs} : orders'[i] = Never
    BY <1>8, <1>9 DEF ExitIds
  <2>2. OfferedBy(orders'[Legs]) <= Bought(orders')
    BY <1>3, <1>4, <1>10 DEF OfferedBy
  <2>3. OfferedOf(orders', ExitIds) = OfferedBy(orders'[Legs])
    BY <1>0, <2>1, LegsAlone
  <2>4. OfferedOf(orders', ExitIds \ Flatten) = OfferedBy(orders'[Legs])
    <3>1. ExitIds \ Flatten \in SUBSET ExitIds /\ Legs \in ExitIds \ Flatten
      BY <1>0
    <3> QED
      BY <2>1, <3>1, LegsAlone
  <2> QED
    BY <2>2, <2>3, <2>4 DEF Fit
<1>13. RowKnows'
  <2>1. /\ row.state = "none" => row = NoRow
        /\ ~row.closes
        /\ row.checked => phase # "entry"
        /\ \A n \in 1..MaxTries : /\ orders[<<"px", n>>] # Never => n <= row.px
                                  /\ orders[<<"pf", n>>] # Never => n <= row.pf
        /\ \A n \in 1..MaxSells : orders[<<"tx", n>>] # Never => n <= row.tx
        /\ Flattened(row)
    BY <1>1 DEF RowKnows
  <2>2. \A n \in 1..MaxTries : /\ orders'[<<"px", n>>] # Never => n <= row.px
                               /\ orders'[<<"pf", n>>] # Never => n <= row.pf
    BY <1>0, <1>2, <2>1, Zenon
  <2>3. \A n \in 1..MaxSells : orders'[<<"tx", n>>] # Never => n <= row.tx
    BY <1>0, <1>2, <2>1, Zenon
  <2>4. Flattened(row)'
    <3>1. \A i \in Protect : orders'[i] = orders[i]
      BY <1>8
    <3> QED
      BY <1>6, <2>1, <3>1 DEF Flattened
  <2> QED
    BY <1>2, <1>6, <2>1, <2>2, <2>3, <2>4 DEF RowKnows
<1>14. ~row.checked
  BY <1>1, <1>7 DEF EntryInv, RowTrue
<1>15. ~row.done
  BY <1>0, <1>1, <1>7 DEF Over
<1>16. Covers' /\ Over'
  BY <1>1, <1>6, <1>14, <1>15, CoversOpen, OverOpen
<1>17. ASSUME NEW r \in Runners PROVE Relies(pc[r], local[r])'
  <2>0. PICK step : step = pc[r]
    OBVIOUS
  <2>1. PICK l : l = local[r]
    OBVIOUS
  <2>2. Honest(r, step, l) /\ Relies(step, l)
    BY <1>1, <2>0, <2>1 DEF EntryInv, JobsHonest, Solo
  <2>3. step \notin AfterEntry
    BY <1>7, <2>2 DEF Honest
  <2>4. step \notin {"x sell", "x post", "x close", "x record"}
    BY <1>7, <2>2 DEF Relies
  <2>5. Known(row)' = Known(row) /\ Known(row) \subseteq Ids
    <3>1. row \in Rows
      BY <1>1 DEF EntryInv, OrdersTypeOK
    <3> QED
      BY <1>6, <3>1, IdsFinite DEF Known
  <2>6. ASSUME step \in Counting, NEW i \in Known(row)
        PROVE  ShapedOrder(i, l.snap[i]) /\ (~Working(l.snap[i]) => orders'[i] = l.snap[i])
    <3>1. ShapedOrder(i, l.snap[i]) /\ (~Working(l.snap[i]) => orders[i] = l.snap[i]) /\ i \in Ids
      BY <2>2, <2>5, <2>6 DEF Relies
    <3>2. ~Working(orders[i]) => orders'[i] = orders[i]
      BY <1>2, <1>3, <1>7, <3>1
    <3> QED
      BY <3>1, <3>2
  <2>7. /\ step \in CheckSteps \cup ExitSteps => l.rec = row' /\ ~row'.done
        /\ step \in CheckSteps => ~row'.checked
    BY <1>6, <2>2 DEF Relies
  <2>8. Relies(step, l)'
    BY <2>3, <2>4, <2>5, <2>6, <2>7 DEF Relies, AfterEntry
  <2>9. pc'[r] = step /\ local'[r] = l
    BY <1>6, <2>0, <2>1
  <2> QED
    BY <2>8, <2>9
<1>18. (pc["tick"] = "idle" \/ pc["guard"] = "idle")'
  BY <1>6 DEF Solo
<1> QED
  BY <1>11, <1>12, <1>13, <1>16, <1>17, <1>18 DEF Solo

-----------------------------------------------------------------------------
(* The submission, and a death.                                            *)

\* A job that comes while none has ever overlapped is alone.
LEMMA ComesAlone ==
  ASSUME EntryInv, NEW r \in Runners, Comes(r), overlaps' = 0
  PROVE  \A q \in Runners : pc[q] = "idle"
<1>1. overlaps \in Nat
  BY OrdersConstants DEF EntryInv, OrdersTypeOK
<1>2. overlaps + 1 # 0
  BY <1>1
<1> QED
  BY <1>2 DEF Comes

\* A forecast without a row.
LEMMA Rowless ==
  ASSUME EntryInv, Solo, row.state = "none"
  PROVE  row = NoRow /\ ~row.done /\ ~row.checked /\ row.px = 0 /\ row.pf = 0 /\ row.tx = 0
<1>1. row = NoRow
  BY DEF Solo, RowKnows
<1> QED
  BY <1>1 DEF NoRow

\* The submission starts: the forecast has no row yet.
LEMMA StartSubmitSolo ==
  ASSUME DayInv, Solo, StartSubmit, overlaps' = 0 PROVE Solo'
<1>1. EntryInv /\ RowKnows /\ InTurn /\ Fit /\ Covers /\ Over /\ "tick" \in Runners
  BY DEF DayInv, Solo, Runners
<1>2. /\ UNCHANGED <<phase, orders, row, actual, local>> /\ row.state = "none"
      /\ pc' = [pc EXCEPT !["tick"] = "post entry"]
      /\ Comes("tick")
  BY DEF StartSubmit, GoesTo
<1>3. \A q \in Runners : pc[q] = "idle"
  BY <1>1, <1>2, ComesAlone
<1>4. PICK l \in Locals : l = local["tick"]
  BY <1>1 DEF EntryInv, OrdersTypeOK
<1>5. local' = [local EXCEPT !["tick"] = l]
  BY <1>1, <1>2, <1>4 DEF EntryInv, OrdersTypeOK
<1>6. Relies("post entry", l)'
  BY DEF Relies, CheckSteps, ExitSteps, Counting
<1>7. pc'["tick"] = "post entry"
  BY <1>1, <1>2 DEF EntryInv, OrdersTypeOK
<1>8. RowKnows'
  BY <1>1, <1>2, <1>7 DEF RowKnows, Flattened
<1>9. InTurn' /\ Fit'
  BY <1>1, <1>2, StillDrifts, DriftInTurn, DriftFit
<1>10. Covers' /\ Over'
  <2>1. ~row.done /\ ~row.checked
    BY <1>1, <1>2, Rowless
  <2> QED
    BY <1>1, <1>2, <2>1, CoversOpen, OverOpen
<1> QED
  BY <1>1, <1>2, <1>3, <1>5, <1>6, <1>8, <1>9, <1>10, SoloFrom

\* The entry is posted with its legs.
LEMMA PostEntrySolo ==
  ASSUME DayInv, Solo, orders[Close] = Never, PostEntry PROVE Solo'
<1>0. /\ Entry \in Ids /\ Legs \in Ids /\ Entry # Legs /\ Legs \in ExitIds /\ Close \in Ids \ {Entry, Legs}
      /\ Protect \cup Flatten \cup TimeExit \subseteq ExitIds /\ ExitIds \in SUBSET Ids /\ Entry \notin ExitIds
      /\ Legs \notin Protect \cup Flatten \cup TimeExit
      /\ \A n \in 1..MaxTries : <<"px", n>> \in Ids \ {Entry, Legs} /\ <<"pf", n>> \in Ids \ {Entry, Legs}
      /\ \A n \in 1..MaxSells : <<"tx", n>> \in Ids \ {Entry, Legs}
  BY IdFacts, ExitsAreIds
<1>1. EntryInv /\ RowKnows /\ InTurn /\ Fit /\ Covers /\ Over /\ "tick" \in Runners
  BY DEF DayInv, Solo, Runners
<1>2. /\ UNCHANGED <<phase, row, actual>> /\ pc["tick"] = "post entry"
      /\ pc' = [pc EXCEPT !["tick"] = "look up entry"]
  BY DEF PostEntry, GoesTo
<1>3. PICK answer \in {"accepted", "transient", "refused"} :
        Posts(Entry, Shares, answer) /\ local' = [local EXCEPT !["tick"].code = answer]
  BY DEF PostEntry
<1>4. pc["tick"] # "idle"
  BY <1>2
<1>5. \A q \in Runners \ {"tick"} : pc[q] = "idle"
  BY <1>1, <1>4, OneAtWork
<1>6. row.state = "none"
  BY <1>1, <1>2 DEF EntryInv, JobsHonest, Honest
<1>7. row = NoRow /\ ~row.done /\ ~row.checked
  BY <1>1, <1>6, Rowless
<1>8. Covers' /\ Over'
  BY <1>1, <1>2, <1>7, CoversOpen, OverOpen
<1>9. PICK l : l = [local["tick"] EXCEPT !.code = answer]
  OBVIOUS
<1>10. local' = [local EXCEPT !["tick"] = l]
  BY <1>3, <1>9
<1>11. local'["tick"].code = answer /\ pc'["tick"] = "look up entry"
  <2>1. local["tick"] \in Locals /\ DOMAIN local = Runners /\ DOMAIN pc = Runners
    BY <1>1 DEF EntryInv, OrdersTypeOK
  <2>2. l.code = answer
    BY <1>9, <2>1 DEF Locals
  <2> QED
    BY <1>1, <1>2, <1>10, <2>1, <2>2
<1>12. Relies("look up entry", l)'
  BY DEF Relies, CheckSteps, ExitSteps, Counting
<1>13. CASE UNCHANGED orders /\ answer # "accepted"
  <2>1. RowKnows'
    BY <1>1, <1>2, <1>11, <1>13 DEF RowKnows, Flattened
  <2>2. InTurn' /\ Fit'
    BY <1>1, <1>2, <1>13, StillDrifts, DriftInTurn, DriftFit
  <2> QED
    BY <1>1, <1>2, <1>5, <1>8, <1>10, <1>12, <2>1, <2>2, SoloFrom
<1>14. CASE orders[Entry] = Never /\ orders' = Accepted(Entry, Shares)
  <2>1. orders \in [Ids -> Order]
    BY <1>1 DEF EntryInv, OrdersTypeOK
  <2> DEFINE new == [status |-> "working", qty |-> Shares, filled |-> 0]
             held == [status |-> "held", qty |-> Shares, filled |-> 0]
  <2>2. orders' = [[orders EXCEPT ![Entry] = new] EXCEPT ![Legs] = held]
    BY <1>14 DEF Accepted
  <2>3. /\ new # Never /\ held # Never /\ new.status = "working" /\ held.status = "held"
        /\ new.filled = 0 /\ held.filled = 0 /\ new \in Order /\ held \in Order
    BY OrdersConstants DEF Never, Order, Statuses
  <2> HIDE DEF new, held
  <2>4. /\ orders'[Entry] = new /\ orders'[Legs] = held
        /\ \A i \in Ids \ {Entry, Legs} : orders'[i] = orders[i]
        /\ orders' \in [Ids -> Order]
    BY <1>0, <2>1, <2>2, <2>3
  <2>5. ~Final(orders[Entry])
    BY <1>14 DEF Final, Never
  <2>6. \A i \in Protect \cup Flatten \cup TimeExit : orders[i] = Never /\ orders'[i] = Never
    <3>1. \A i \in Protect \cup Flatten \cup TimeExit : orders[i] = Never
      BY <1>1, <2>5 DEF InTurn
    <3> QED
      BY <1>0, <2>4, <3>1
  <2>7. \A i \in ExitIds \ {Legs} : orders'[i] = Never
    BY <1>0, <2>4, <2>6 DEF ExitIds
  <2>8. ~Final(orders'[Entry])
    BY <2>3, <2>4 DEF Final
  <2>9. InTurn'
    BY <2>3, <2>4, <2>6, <2>8 DEF InTurn
  <2>10. Bought(orders') = 0 /\ OfferedBy(orders'[Legs]) = 0
    BY <2>3, <2>4 DEF Bought, OfferedBy
  <2>11. Fit'
    <3>1. OfferedOf(orders', ExitIds) = 0
      BY <1>0, <2>4, <2>7, <2>10, LegsAlone
    <3>2. OfferedOf(orders', ExitIds \ Flatten) = 0
      <4>1. ExitIds \ Flatten \in SUBSET ExitIds /\ Legs \in ExitIds \ Flatten
        BY <1>0
      <4> QED
        BY <2>4, <2>7, <2>10, <4>1, LegsAlone
    <3> QED
      BY <2>10, <3>1, <3>2 DEF Fit
  <2>12. RowKnows'
    <3>1. \A n \in 1..MaxTries : <<"px", n>> \in Protect /\ <<"pf", n>> \in Flatten
      BY DEF Protect, Flatten
    <3>2. \A n \in 1..MaxSells : <<"tx", n>> \in TimeExit
      BY DEF TimeExit
    <3>3. /\ \A n \in 1..MaxTries : orders'[<<"px", n>>] = Never /\ orders'[<<"pf", n>>] = Never
          /\ \A n \in 1..MaxSells : orders'[<<"tx", n>>] = Never
      BY <2>6, <3>1, <3>2
    <3>4. Flattened(row)'
      <4>1. row'.pf = 0
        BY <1>2, <1>7 DEF NoRow
      <4> QED
        BY <4>1 DEF Flattened
    <3>5. ~row.closes /\ row' = row
      BY <1>1, <1>2 DEF RowKnows
    <3> QED
      BY <1>7, <2>3, <2>4, <3>3, <3>4, <3>5 DEF RowKnows
  <2> QED
    BY <1>1, <1>2, <1>5, <1>8, <1>10, <1>12, <2>9, <2>11, <2>12, SoloFrom
<1> QED
  BY <1>3, <1>13, <1>14 DEF Posts

\* The entry is recorded, or its refusal is, or nothing.
LEMMA RecordEntrySolo ==
  ASSUME DayInv, Solo, RecordEntry PROVE Solo'
<1>1. EntryInv /\ RowKnows /\ InTurn /\ Fit /\ Covers /\ Over /\ "tick" \in Runners
  BY DEF DayInv, Solo, Runners
<1>2. /\ UNCHANGED <<phase, orders, actual>> /\ pc["tick"] = "look up entry"
      /\ pc' = [pc EXCEPT !["tick"] = "idle"] /\ local' = [local EXCEPT !["tick"] = Fresh]
  BY DEF RecordEntry, EndsPass, GoesTo
<1>3. pc["tick"] # "idle"
  BY <1>2
<1>4. \A q \in Runners \ {"tick"} : pc[q] = "idle"
  BY <1>1, <1>3, OneAtWork
<1>5. row.state = "none"
  BY <1>1, <1>2 DEF EntryInv, JobsHonest, Honest
<1>6. row = NoRow
  BY <1>1, <1>5, Rowless
<1>7. \/ row' = [NoRow EXCEPT !.state = "submitted"] /\ orders[Entry] # Never
      \/ row' = [NoRow EXCEPT !.state = "rejected"]
      \/ row' = row
  BY <1>1, <1>2 DEF RecordEntry, EntryHeld, RowKnows
<1>8. /\ row'.px = row.px /\ row'.pf = row.pf /\ row'.tx = row.tx /\ row.pf = 0
      /\ ~row'.closes /\ ~row'.checked /\ ~row'.done
      /\ row'.state = "submitted" => orders[Entry] # Never
      /\ row'.state = "none" => row' = NoRow
  BY <1>6, <1>7 DEF NoRow
<1>9. pc'["tick"] = "idle"
  BY <1>1, <1>2 DEF EntryInv, OrdersTypeOK
<1>10. RowKnows'
  BY <1>1, <1>2, <1>8, <1>9 DEF RowKnows, Flattened
<1>11. InTurn' /\ Fit'
  BY <1>1, <1>2, StillDrifts, DriftInTurn, DriftFit
<1>12. Covers' /\ Over'
  BY <1>1, <1>2, <1>8, CoversOpen, OverOpen
<1>13. Relies("idle", Fresh)'
  BY IdleRelies
<1> QED
  BY <1>1, <1>2, <1>4, <1>10, <1>11, <1>12, <1>13, SoloFrom

\* A job that dies leaves what is covered covered.
LEMMA DiesSolo ==
  ASSUME DayInv, Solo, NEW r \in Runners, Dies(r) PROVE Solo'
<1>1. EntryInv /\ RowKnows /\ InTurn /\ Fit /\ Covers /\ Over
  BY DEF DayInv, Solo
<1>2. /\ UNCHANGED <<phase, orders, row, actual>> /\ pc[r] # "idle"
      /\ pc' = [pc EXCEPT ![r] = "idle"] /\ local' = [local EXCEPT ![r] = Fresh]
  BY DEF Dies, EndsPass, GoesTo
<1>3. (\A q \in Runners \ {r} : pc[q] = "idle") /\ ~row.done
  BY <1>1, <1>2, OneAtWork
<1>4. pc'["tick"] = "idle"
  <2>1. DOMAIN pc = Runners /\ "tick" \in Runners
    BY <1>1 DEF EntryInv, OrdersTypeOK, Runners
  <2> QED
    BY <1>2, <1>3, <2>1
<1>5. RowKnows'
  BY <1>1, <1>2, <1>4 DEF RowKnows, Flattened
<1>6. InTurn' /\ Fit'
  BY <1>1, <1>2, StillDrifts, DriftInTurn, DriftFit
<1>7. Covers'
  BY <1>1, <1>2 DEF Covers
<1>8. Over'
  BY <1>1, <1>2, <1>3, OverOpen
<1>9. Relies("idle", Fresh)'
  BY IdleRelies
<1> QED
  BY <1>1, <1>2, <1>3, <1>5, <1>6, <1>7, <1>8, <1>9, SoloFrom

\* The reconciliation counts what the exits counted.
LEMMA ReconcileSolo ==
  ASSUME DayInv, Solo, orders[Close] = Never, Reconcile PROVE Solo'
<1>1. EntryInv /\ RowKnows /\ InTurn /\ Fit /\ Covers /\ Over
  BY DEF DayInv, Solo
<1>2. /\ UNCHANGED <<phase, orders, row, pc, local>> /\ phase = "after" /\ actual' = Verdict
  BY DEF Reconcile
<1>3. ASSUME row.done PROVE Verdict = IF Bought(orders) = 0 THEN "NO_FILL" ELSE "CLOSED"
  <2>1. row.state = "submitted" /\ Bought(orders) = FilledOf(orders, ExitIds)
    BY <1>1, <1>3 DEF Over
  <2>2. orders[Entry] # Never /\ ~row.closes
    BY <1>1, <2>1 DEF RowKnows
  <2>3. FilledOf(orders, Ours) = FilledOf(orders, ExitIds)
    <3>1. Ours = ExitIds \ {Close} /\ ExitIds \in SUBSET Ids /\ Ours \in SUBSET Ids /\ Ours \subseteq ExitIds
      BY <2>2, ExitsAreIds DEF Ours
    <3>2. orders \in [Ids -> Order]
      BY <1>1 DEF EntryInv, OrdersTypeOK
    <3>3. /\ Trades(orders) \in [Ids -> 0..Shares]
          /\ \A i \in Ids : Trades(orders)[i] = orders[i].filled
          /\ FilledOf(orders, Ours) = Counted(Trades(orders), Ours)
          /\ FilledOf(orders, ExitIds) = Counted(Trades(orders), ExitIds)
      BY <3>1, <3>2, TradesTyped
    <3>4. \A i \in ExitIds \ Ours : Trades(orders)[i] = 0
      BY <3>1, <3>3 DEF Never
    <3> QED
      BY <3>1, <3>3, <3>4, CountedPart
  <2>4. Bought(orders) - FilledOf(orders, Ours) = 0
    <3>1. Bought(orders) \in Int
      BY <1>1, IdFacts, FilledNumber DEF Bought, EntryInv, OrdersTypeOK
    <3> QED
      BY <2>1, <2>3, <3>1
  <2> QED
    BY <2>1, <2>2, <2>4 DEF Verdict
<1>4. Over'
  BY <1>1, <1>2, <1>3 DEF Over
<1>5. RowKnows' /\ Covers'
  BY <1>1, <1>2 DEF RowKnows, Flattened, Covers
<1>6. InTurn' /\ Fit'
  BY <1>1, <1>2, StillDrifts, DriftInTurn, DriftFit
<1>7. ASSUME NEW r \in Runners PROVE Relies(pc[r], local[r])'
  <2>0. PICK step : step = pc[r]
    OBVIOUS
  <2>1. PICK l \in Locals : l = local[r]
    BY <1>1 DEF EntryInv, OrdersTypeOK
  <2>2. Honest(r, step, l) /\ Relies(step, l)
    BY <1>1, <2>0, <2>1 DEF EntryInv, JobsHonest, Solo
  <2>3. Relies(step, l)'
    BY <1>1, <1>2, <2>2, StillDrifts, DriftRelies
  <2>4. pc'[r] = step /\ local'[r] = l
    BY <1>2, <2>0, <2>1
  <2> QED
    BY <2>3, <2>4
<1>8. (pc["tick"] = "idle" \/ pc["guard"] = "idle")'
  BY <1>2 DEF Solo
<1> QED
  BY <1>4, <1>5, <1>6, <1>7, <1>8 DEF Solo

-----------------------------------------------------------------------------
(* The deadline check: what it reads, and how it ends.                     *)

\* The protective exits and flattens of which the row does not know were never placed.
LEMMA ExitsKnown ==
  ASSUME EntryInv, RowKnows
  PROVE  /\ \A i \in Protect \cup Flatten : i \in Known(row) \/ orders[i] = Never
         /\ Entry \in Known(row) /\ Legs \in Known(row) /\ Known(row) \subseteq Ids
<1>1. row \in Rows
  BY DEF EntryInv, OrdersTypeOK
<1>2. Entry \in Known(row) /\ Legs \in Known(row) /\ Known(row) \subseteq Ids
  BY <1>1, IdsFinite DEF Known
<1>3. ASSUME NEW i \in Protect \cup Flatten, orders[i] # Never PROVE i \in Known(row)
  <2>1. CASE i \in Protect
    <3>1. PICK n \in 1..MaxTries : i = <<"px", n>>
      BY <2>1 DEF Protect
    <3>2. n <= row.px
      BY <1>3, <3>1, Zenon DEF RowKnows
    <3>3. n \in 1..row.px
      BY <1>1, <3>2, OrdersConstants DEF Rows
    <3> QED
      BY <3>1, <3>3 DEF Known
  <2>2. CASE i \in Flatten
    <3>1. PICK n \in 1..MaxTries : i = <<"pf", n>>
      BY <2>2 DEF Flatten
    <3>2. n <= row.pf
      BY <1>3, <3>1, Zenon DEF RowKnows
    <3>3. n \in 1..row.pf
      BY <1>1, <3>2, OrdersConstants DEF Rows
    <3> QED
      BY <3>1, <3>3 DEF Known
  <2> QED
    BY <2>1, <2>2
<1> QED
  BY <1>2, <1>3

\* A placed order works or is final.
LEMMA PlacedEnds ==
  ASSUME EntryInv, NEW i \in Ids, orders[i] # Never, ~Working(orders[i])
  PROVE  Final(orders[i])
<1>1. orders[i] \in Order /\ ShapedOrder(i, orders[i])
  BY DEF EntryInv, OrdersTypeOK, Shaped
<1>2. orders[i].status # "none"
  BY <1>1 DEF ShapedOrder
<1> QED
  BY <1>1, <1>2 DEF Order, Statuses, Working, Final

\* Legs that are filled have sold what was bought.
LEMMA LegsCover ==
  ASSUME EntryInv, InTurn, Final(orders[Entry]), orders[Legs].status = "filled"
  PROVE  Bought(orders) <= FilledOf(orders, ExitIds)
<1>0. ExitIds \in SUBSET Ids /\ Legs \in ExitIds /\ Legs \in Ids
  BY ExitsAreIds, IdFacts
<1>1. orders \in [Ids -> Order]
  BY DEF EntryInv, OrdersTypeOK
<1>2. /\ Trades(orders) \in [Ids -> 0..Shares]
      /\ FilledOf(orders, ExitIds) = Counted(Trades(orders), ExitIds)
      /\ Trades(orders)[Legs] = orders[Legs].filled
  BY <1>0, <1>1, TradesTyped
<1>3. orders[Legs].filled = orders[Legs].qty /\ orders[Legs].qty = Bought(orders)
  BY <1>0 DEF EntryInv, Shaped, ShapedOrder, InTurn
<1>4. FilledOf(orders, ExitIds) = Counted(Trades(orders), ExitIds \ {Legs}) + orders[Legs].filled
      /\ Counted(Trades(orders), ExitIds \ {Legs}) \in Nat /\ orders[Legs].filled \in Nat
  BY <1>0, <1>2, CountedSplit
<1> QED
  BY <1>3, <1>4

\* So has a protective exit that is filled, with the legs before it.
LEMMA ProtectCovers ==
  ASSUME EntryInv, InTurn, NEW i \in Protect, orders[i].status = "filled"
  PROVE  Bought(orders) <= FilledOf(orders, ExitIds)
<1>0. ExitIds \in SUBSET Ids /\ Legs \in ExitIds /\ Legs \in Ids /\ i \in ExitIds /\ i \in Ids /\ i # Legs
  BY ExitsAreIds, IdFacts
<1>1. orders \in [Ids -> Order]
  BY DEF EntryInv, OrdersTypeOK
<1>2. /\ Trades(orders) \in [Ids -> 0..Shares]
      /\ FilledOf(orders, ExitIds) = Counted(Trades(orders), ExitIds)
      /\ Trades(orders)[Legs] = orders[Legs].filled /\ Trades(orders)[i] = orders[i].filled
  BY <1>0, <1>1, TradesTyped
<1>3. orders[i] # Never
  BY DEF Never
<1>4. orders[i].filled = orders[i].qty
  BY <1>0 DEF EntryInv, Shaped, ShapedOrder
<1>5. orders[i].qty + orders[Legs].filled = Bought(orders)
  BY <1>3 DEF InTurn
<1>6. FilledOf(orders, ExitIds) = Counted(Trades(orders), ExitIds \ {i}) + orders[i].filled
      /\ Counted(Trades(orders), ExitIds \ {i}) \in Nat /\ orders[i].filled \in Nat
  BY <1>0, <1>2, CountedSplit
<1>7. /\ Counted(Trades(orders), ExitIds \ {i}) = Counted(Trades(orders), (ExitIds \ {i}) \ {Legs}) + orders[Legs].filled
      /\ Counted(Trades(orders), (ExitIds \ {i}) \ {Legs}) \in Nat /\ orders[Legs].filled \in Nat
  <2>1. ExitIds \ {i} \in SUBSET Ids /\ Legs \in ExitIds \ {i}
    BY <1>0
  <2> DEFINE g == Trades(orders)
             S == ExitIds \ {i}
  <2>2. g \in [Ids -> 0..Shares] /\ S \in SUBSET Ids /\ Legs \in S /\ g[Legs] = orders[Legs].filled
    BY <1>2, <2>1
  <2> HIDE DEF g, S
  <2>3. /\ Counted(g, S) = Counted(g, S \ {Legs}) + g[Legs]
        /\ Counted(g, S \ {Legs}) \in Nat /\ g[Legs] \in Nat
    BY <2>2, CountedSplit
  <2> QED
    BY <2>2, <2>3 DEF g, S
<1> DEFINE rest == Counted(Trades(orders), (ExitIds \ {i}) \ {Legs})
<1>8. FilledOf(orders, ExitIds) = rest + orders[Legs].filled + orders[i].filled /\ rest \in Nat
  BY <1>6, <1>7
<1> HIDE DEF rest
<1>9. orders[i].filled + orders[Legs].filled <= FilledOf(orders, ExitIds)
  BY <1>6, <1>7, <1>8
<1> QED
  BY <1>4, <1>5, <1>9, Zenon

\* A pass that leaves the forecast open.
LEMMA LeftOpenSolo ==
  ASSUME EntryInv, Solo, NEW r \in Runners, pc[r] \in CheckSteps, LeftOpen(r) \/ Alarm(r),
         Drifts, LegsKept, UNCHANGED <<phase, actual>>
  PROVE  Solo'
<1>1. pc[r] # "idle" /\ pc[r] \in CheckSteps \cup ExitSteps
  BY DEF CheckSteps
<1>2. local[r].rec = row
  BY <1>1, OneAtWork DEF Relies
<1>3. EndsPass(r) /\ row' \in {row, [row EXCEPT !.unprotected = TRUE]}
  BY <1>2 DEF LeftOpen, Alarm, Saves
<1> QED
  BY <1>1, <1>3, JobLeaves

\* A read that fails.
LEMMA CannotSeeSolo ==
  ASSUME EntryInv, Solo, NEW r \in Runners, pc[r] \in CheckSteps, CannotSee(r),
         UNCHANGED <<phase, orders, actual>>
  PROVE  Solo'
BY StillDrifts, LeftOpenSolo DEF CannotSee

\* A pass that is done has left what was bought sold or covered.
LEMMA CheckedSolo ==
  ASSUME EntryInv, Solo, NEW r \in Runners, pc[r] \in CheckSteps, Checked(r),
         UNCHANGED <<phase, orders, actual>>, phase # "entry",
         \/ Bought(orders) <= FilledOf(orders, ExitIds)
         \/ orders[Legs].status = "working"
         \/ \E i \in Protect : orders[i].status = "working"
         \/ \E i \in ExitIds : orders[i].status = "rejected"
  PROVE  Solo'
<1>1. pc[r] # "idle" /\ pc[r] \in CheckSteps \cup ExitSteps
  BY DEF CheckSteps
<1>2. local[r].rec = row /\ ~row.done
  BY <1>1, OneAtWork DEF Relies
<1>3. row' = [row EXCEPT !.checked = TRUE] /\ EndsPass(r)
  BY <1>2 DEF Checked, Saves
<1>4. row.state = "submitted" /\ row \in Rows
  BY <1>1, AtWork
<1>5. /\ row' \in Rows /\ row'.state = row.state /\ row'.checked /\ row'.refused = row.refused
      /\ row'.px = row.px /\ row'.pf = row.pf /\ row'.tx = row.tx /\ row'.closes = row.closes
      /\ row'.done = row.done
  BY <1>3, <1>4 DEF Rows
<1>6. Writes
  <2>1. ~row.closes
    BY DEF Solo, RowKnows
  <2>2. row.px <= row.px /\ row.pf <= row.pf /\ row.tx <= row.tx
    BY <1>4, RowNumbers
  <2> QED
    BY <1>4, <1>5, <2>1, <2>2 DEF Writes
<1>7. row'.pf # 0 => /\ \A i \in Protect : ~Working(orders[i])
                     /\ row'.refused \/ row'.px = MaxTries \/ \E i \in Protect : Final(orders[i])
  BY <1>5 DEF Solo, RowKnows, Flattened
<1>8. Covers' /\ Over'
  BY <1>2, <1>5, OverOpen DEF Covers, Solo
<1>9. Relies("idle", Fresh)'
  BY IdleRelies
<1>10. "idle" \in Steps \ {"look up entry"} /\ pc' = [pc EXCEPT ![r] = "idle"] /\ local' = [local EXCEPT ![r] = Fresh]
  BY <1>3 DEF Steps, EndsPass, GoesTo
<1>11. Drifts /\ LegsKept
  BY StillDrifts
<1> QED
  BY <1>1, <1>6, <1>7, <1>8, <1>9, <1>10, <1>11, JobMoves

\* What a read leaves a job with.
LEMMA SeesSolo ==
  ASSUME EntryInv, Solo, NEW r \in Runners, pc[r] \in CheckSteps \cup ExitSteps,
         pc[r] \in CheckSteps \/ phase \notin Morning,
         NEW step \in {"judge", "cancel entry", "protect", "x sell", "x cancel"}, Sees(r, step),
         UNCHANGED <<phase, orders, actual>>,
         step \in {"judge", "protect", "cancel entry"} => pc[r] \in CheckSteps,
         step \in {"judge", "protect"} => Final(orders[Entry]),
         step = "protect" => Final(orders[Legs]),
         step = "x sell" => \A i \in Known(row) : ~Working(orders[i])
  PROVE  Solo'
<1>0. /\ Entry \in Ids /\ Legs \in Ids /\ Protect \cup Flatten \subseteq Ids
  BY IdFacts, ExitsAreIds
<1>1. pc[r] # "idle" /\ step \in Steps \ {"look up entry"}
  BY DEF CheckSteps, ExitSteps, Steps
<1>2. Relies(pc[r], local[r]) /\ ~row.done
  BY <1>1, OneAtWork
<1>3. local[r].rec = row /\ (pc[r] \in CheckSteps => ~row.checked)
  BY <1>2 DEF Relies
<1>4. RowKnows /\ InTurn
  BY DEF Solo
<1>5. /\ \A i \in Protect \cup Flatten : i \in Known(row) \/ orders[i] = Never
      /\ Entry \in Known(row) /\ Legs \in Known(row) /\ Known(row) \subseteq Ids
  BY <1>4, ExitsKnown
<1>6. PICK l : l = [local[r] EXCEPT !.snap = [i \in Ids |-> IF i \in Known(row) THEN orders[i] ELSE Never]]
  OBVIOUS
<1>7. /\ local' = [local EXCEPT ![r] = l] /\ pc' = [pc EXCEPT ![r] = step] /\ row' = row
  BY <1>3, <1>6 DEF Sees, GoesTo
<1>8. l.rec = row /\ l.snap = [i \in Ids |-> IF i \in Known(row) THEN orders[i] ELSE Never]
  <2>1. local[r] \in Locals
    BY DEF EntryInv, OrdersTypeOK
  <2> QED
    BY <1>3, <1>6, <2>1 DEF Locals
<1>9. \A i \in Known(row) : l.snap[i] = orders[i]
  BY <1>5, <1>8
<1>10. \A i \in Known(row) : ShapedOrder(i, l.snap[i])
  BY <1>5, <1>9 DEF EntryInv, Shaped
<1>11. step = "x sell" => /\ Final(orders[Entry]) /\ Final(orders[Legs])
                          /\ \A i \in Protect \cup Flatten : ~Working(orders[i])
  <2> SUFFICES ASSUME step = "x sell"
               PROVE  /\ Final(orders[Entry]) /\ Final(orders[Legs])
                      /\ \A i \in Protect \cup Flatten : ~Working(orders[i])
    OBVIOUS
  <2>1. row.state = "submitted"
    BY AtWork
  <2>2. orders[Entry] # Never /\ orders[Legs] # Never
    BY <1>4, <2>1 DEF RowKnows, InTurn
  <2>3. Final(orders[Entry]) /\ Final(orders[Legs])
    BY <1>0, <1>5, <2>2, PlacedEnds
  <2>4. ~Working(Never)
    BY DEF Working, Never
  <2> QED
    BY <1>5, <2>3, <2>4
<1>12. Known(row)' = Known(row)
  BY <1>7 DEF Known
<1>13. step \in CheckSteps => pc[r] \in CheckSteps
  BY DEF CheckSteps
<1>14. /\ step \in CheckSteps \cup ExitSteps => l.rec = row' /\ ~row'.done
       /\ step \in CheckSteps => ~row'.checked
  BY <1>2, <1>3, <1>7, <1>8, <1>13
<1>15. \A i \in Known(row) : /\ ShapedOrder(i, l.snap[i])
                             /\ ~Working(l.snap[i]) => orders'[i] = l.snap[i]
                             /\ l.snap[i].status = "working" => orders'[i].status \in {"working", "filled", "rejected"}
  BY <1>9, <1>10
<1>16. step \in {"judge", "protect"} => Final(l.snap[Entry])
  BY <1>5, <1>9
<1>17. step = "protect" => Final(orders'[Legs]) /\ ~Working(l.snap[Legs])
  <2>1. Final(orders[Legs]) => ~Working(orders[Legs])
    BY DEF Final, Working
  <2> QED
    BY <1>5, <1>9, <2>1
<1>18. step = "x sell" => \A i \in Known(row) : ~Working(l.snap[i])
  BY <1>9
<1>19. orders' = orders
  OBVIOUS
<1>20. Relies(step, l)'
  BY <1>11, <1>12, <1>14, <1>15, <1>16, <1>17, <1>18, <1>19 DEF Relies
<1>21. Drifts /\ LegsKept
  BY StillDrifts
<1> QED
  BY <1>1, <1>7, <1>20, <1>21, JobGoesOn

-----------------------------------------------------------------------------
(* The deadline check: its steps.                                          *)

\* A flatten that is recorded, or that has been tried too often.
LEMMA FlattenSolo ==
  ASSUME EntryInv, Solo, NEW r \in Runners, pc[r] \in CheckSteps,
         NEW rec \in Rows, rec \in {row, [row EXCEPT !.refused = TRUE]},
         NEW owned \in 1..Shares, StartFlatten(r, rec, owned),
         UNCHANGED <<phase, orders, actual>>,
         \A i \in Protect : ~Working(orders[i]),
         rec.refused \/ rec.px = MaxTries \/ \E i \in Protect : Final(orders[i]),
         Final(orders[Legs]),
         OfferedOf(orders, ExitIds) + owned <= Bought(orders) \/ \E i \in Protect : orders[i].filled > 0,
         Bought(orders) <= FilledOf(orders, ExitIds) + owned
  PROVE  Solo'
<1>1. pc[r] # "idle" /\ pc[r] \in CheckSteps \cup ExitSteps
  BY DEF CheckSteps
<1>2. local[r].rec = row /\ ~row.done /\ ~row.checked
  BY <1>1, OneAtWork DEF Relies
<1>3. row.state = "submitted" /\ row \in Rows /\ local[r] \in Locals
  BY <1>1, AtWork
<1>4. ~row.closes
  BY DEF Solo, RowKnows
<1>5. /\ rec.px = row.px /\ rec.pf = row.pf /\ rec.tx = row.tx /\ rec.closes = row.closes
      /\ rec.state = row.state /\ rec.checked = row.checked /\ rec.done = row.done
      /\ row.refused => rec.refused
  BY <1>3 DEF Rows
<1>6. /\ rec.px \in Int /\ rec.pf \in Int /\ rec.tx \in Int /\ rec.pf >= 0 /\ rec.pf <= MaxTries
      /\ rec.px <= rec.px /\ rec.pf <= rec.pf /\ rec.tx <= rec.tx
  BY RowNumbers
<1>7. Drifts /\ LegsKept
  BY StillDrifts
<1>8. CASE FlattensSpent(rec)
  <2>1. row' = [rec EXCEPT !.unprotected = TRUE] /\ EndsPass(r)
    BY <1>8 DEF StartFlatten, Saves
  <2>2. /\ row' \in Rows /\ row'.state = rec.state /\ row'.checked = rec.checked /\ row'.refused = rec.refused
        /\ row'.px = rec.px /\ row'.pf = rec.pf /\ row'.tx = rec.tx /\ row'.closes = rec.closes
        /\ row'.done = rec.done
    BY <2>1 DEF Rows
  <2>3. Writes
    BY <1>3, <1>4, <1>5, <1>6, <2>2 DEF Writes
  <2>4. "idle" \in Steps \ {"look up entry"} /\ pc' = [pc EXCEPT ![r] = "idle"] /\ local' = [local EXCEPT ![r] = Fresh]
    BY <2>1 DEF Steps, EndsPass, GoesTo
  <2>5. Relies("idle", Fresh)'
    BY IdleRelies
  <2>6. Covers' /\ Over'
    BY <1>2, <1>5, <2>2, CoversOpen, OverOpen DEF Solo
  <2>7. row'.pf # 0 => /\ \A i \in Protect : ~Working(orders[i])
                       /\ row'.refused \/ row'.px = MaxTries \/ \E i \in Protect : Final(orders[i])
    BY <2>2
  <2>8. ~row'.checked
    BY <1>2, <1>5, <2>2
  <2> QED
    BY <1>1, <1>7, <2>3, <2>4, <2>5, <2>6, <2>7, <2>8, JobMoves
<1>9. CASE ~FlattensSpent(rec)
  <2>1. rec.pf + 1 \in 1..MaxTries /\ rec.pf + 1 > rec.pf /\ rec.pf + 1 \in 0..MaxTries
    <3>1. ~(rec.pf >= MaxTries)
      BY <1>9 DEF FlattensSpent
    <3> QED
      BY <1>6, <3>1, OrdersConstants
  <2>2. PICK next \in Rows : next = [rec EXCEPT !.pf = @ + 1]
    BY <2>1 DEF Rows
  <2>3. /\ next.state = rec.state /\ next.checked = rec.checked /\ next.refused = rec.refused
        /\ next.px = rec.px /\ next.pf = rec.pf + 1 /\ next.tx = rec.tx /\ next.closes = rec.closes
        /\ next.done = rec.done
    BY <2>2 DEF Rows
  <2>4. PICK l : l = [local[r] EXCEPT !.rec = next, !.owned = owned]
    OBVIOUS
  <2>5. l.rec = next /\ l.owned = owned
    BY <1>3, <2>4 DEF Locals
  <2>6. row' = next /\ pc' = [pc EXCEPT ![r] = "post pf"] /\ local' = [local EXCEPT ![r] = l]
    BY <1>9, <2>2, <2>4 DEF StartFlatten, Saves, GoesTo
  <2>7. Writes
    <3>1. rec.pf <= rec.pf + 1
      BY <1>6
    <3>2. row'.px = row.px /\ row'.tx = row.tx /\ row.pf <= row'.pf /\ row.px <= row'.px /\ row.tx <= row'.tx
      BY <1>5, <1>6, <2>3, <2>6, <3>1, Zenon
    <3>3. row' \in Rows /\ row'.state = "submitted" /\ ~row'.closes
      BY <1>3, <1>4, <1>5, <2>3, <2>6
    <3> QED
      BY <3>2, <3>3 DEF Writes
  <2>8. row'.pf # 0 => /\ \A i \in Protect : ~Working(orders[i])
                       /\ row'.refused \/ row'.px = MaxTries \/ \E i \in Protect : Final(orders[i])
    BY <2>3, <2>6
  <2>9. ~row'.done /\ ~row'.checked
    BY <1>2, <1>5, <2>3, <2>6
  <2>10. Covers' /\ Over'
    BY <2>9, CoversOpen, OverOpen DEF Solo
  <2>11. <<"pf", row'.pf>> \in ExitIds /\ orders[<<"pf", row'.pf>>] = Never
    <3>1. PICK n \in 1..MaxTries : n = rec.pf + 1
      BY <2>1
    <3>2. ~(n <= row.pf)
      BY <1>5, <1>6, <3>1
    <3>3. orders[<<"pf", n>>] = Never
      BY <3>2, Zenon DEF Solo, RowKnows
    <3>4. <<"pf", n>> \in ExitIds
      BY ExitsAreIds DEF Flatten
    <3> QED
      BY <2>3, <2>6, <3>1, <3>3, <3>4
  <2>12. FilledOf(orders, ExitIds \ {<<"pf", row'.pf>>}) = FilledOf(orders, ExitIds)
    <3>1. PICK i : i = <<"pf", row'.pf>>
      OBVIOUS
    <3>2. i \in ExitIds /\ orders[i] = Never /\ ExitIds \in SUBSET Ids /\ ExitIds \ {i} \in SUBSET Ids
      BY <2>11, <3>1, ExitsAreIds
    <3>3. orders \in [Ids -> Order]
      BY DEF EntryInv, OrdersTypeOK
    <3>4. /\ Trades(orders) \in [Ids -> 0..Shares] /\ Trades(orders)[i] = 0
          /\ FilledOf(orders, ExitIds) = Counted(Trades(orders), ExitIds)
          /\ FilledOf(orders, ExitIds \ {i}) = Counted(Trades(orders), ExitIds \ {i})
      BY <3>2, <3>3, TradesTyped DEF Never
    <3>5. Counted(Trades(orders), ExitIds) = Counted(Trades(orders), ExitIds \ {i})
      <4>1. \A j \in ExitIds \ (ExitIds \ {i}) : Trades(orders)[j] = 0
        BY <3>4
      <4> QED
        BY <3>2, <3>4, <4>1, CountedPart
    <3> QED
      BY <3>1, <3>4, <3>5
  <2>13. orders' = orders
    OBVIOUS
  <2>14. Bought(orders') <= FilledOf(orders', ExitIds \ {<<"pf", row'.pf>>}) + l.owned
    BY <2>5, <2>12, <2>13, Zenon
  <2>15. OfferedOf(orders', ExitIds) + l.owned <= Bought(orders') \/ \E i \in Protect : orders'[i].filled > 0
    BY <2>5, <2>13
  <2>16. l.rec = row' /\ Final(orders'[Legs])
    BY <2>5, <2>6
  <2>17. Relies("post pf", l)'
    BY <2>9, <2>14, <2>15, <2>16 DEF Relies, Counting
  <2>18. "post pf" \in Steps \ {"look up entry"}
    BY DEF Steps
  <2> QED
    BY <1>1, <1>7, <2>6, <2>7, <2>8, <2>9, <2>10, <2>17, <2>18, JobMoves
<1> QED
  BY <1>8, <1>9

\* A deadline check starts, of a forecast that is not done (cancel_unfilled_entries).
LEMMA StartCheckSolo ==
  ASSUME DayInv, Solo, NEW r \in Runners, StartCheck(r), overlaps' = 0 PROVE Solo'
<1>1. EntryInv /\ RowKnows /\ InTurn /\ Fit /\ Covers /\ Over
  BY DEF DayInv, Solo
<1>2. /\ UNCHANGED <<phase, orders, row, actual>> /\ phase \in {"due", "overdue"}
      /\ row.state = "submitted" /\ ~row.checked /\ Comes(r)
      /\ pc' = [pc EXCEPT ![r] = "read"] /\ local' = [local EXCEPT ![r].rec = row]
  BY DEF StartCheck, GoesTo
<1>3. \A q \in Runners : pc[q] = "idle"
  BY <1>1, <1>2, ComesAlone
<1>4. ~row.done
  BY <1>1, <1>2 DEF Over, Morning
<1>5. PICK l : l = [local[r] EXCEPT !.rec = row]
  OBVIOUS
<1>6. local' = [local EXCEPT ![r] = l] /\ l.rec = row
  <2>1. local[r] \in Locals
    BY <1>1 DEF EntryInv, OrdersTypeOK
  <2> QED
    BY <1>2, <1>5, <2>1 DEF Locals
<1>7. Relies("read", l)'
  BY <1>2, <1>4, <1>6 DEF Relies, Counting
<1>8. Drifts /\ LegsKept
  BY <1>1, <1>2, StillDrifts
<1>9. pc'["tick"] # "look up entry"
  <2>1. DOMAIN pc = Runners /\ "tick" \in Runners
    BY <1>1 DEF EntryInv, OrdersTypeOK, Runners
  <2> QED
    BY <1>2, <1>3, <2>1
<1>10. RowKnows'
  BY <1>1, <1>2, <1>8, <1>9, RowStays
<1>11. InTurn' /\ Fit'
  BY <1>1, <1>2, <1>8, DriftInTurn, DriftFit
<1>12. Covers' /\ Over'
  BY <1>1, <1>2, <1>4, CoversOpen, OverOpen
<1> QED
  BY <1>1, <1>2, <1>3, <1>6, <1>7, <1>10, <1>11, <1>12, SoloFrom

\* It reads the forecast's orders (_snapshot).
LEMMA ReadSolo ==
  ASSUME DayInv, Solo, NEW r \in Runners, Read(r) PROVE Solo'
<1>1. EntryInv /\ UNCHANGED <<phase, orders, actual>> /\ pc[r] = "read"
  BY DEF DayInv, Read
<1>2. pc[r] \in CheckSteps
  BY <1>1 DEF CheckSteps
<1>3. CASE CannotSee(r)
  BY <1>1, <1>2, <1>3, CannotSeeSolo
<1>4. CASE Sees(r, IF Final(orders[Entry]) THEN "judge" ELSE "cancel entry")
  <2>1. PICK step \in {"judge", "cancel entry"} : step = IF Final(orders[Entry]) THEN "judge" ELSE "cancel entry"
    OBVIOUS
  <2>2. Sees(r, step) /\ (step = "judge" => Final(orders[Entry]))
    BY <1>4, <2>1
  <2> QED
    BY <1>1, <1>2, <2>2, SeesSolo
<1> QED
  BY <1>3, <1>4 DEF Read

\* It asks for the entry's end; what it has read is not used again.
LEMMA CancelEntrySolo ==
  ASSUME DayInv, Solo, NEW r \in Runners, CancelEntry(r) PROVE Solo'
<1>0. Legs \in Ids \ {Entry}
  BY IdFacts
<1>1. EntryInv /\ UNCHANGED <<phase, actual, local>> /\ pc[r] = "cancel entry"
  BY DEF DayInv, CancelEntry
<1>2. pc[r] \in CheckSteps /\ pc[r] # "idle"
  BY <1>1 DEF CheckSteps
<1>3. local[r].rec = row /\ ~row.done /\ ~row.checked
  BY <1>1, <1>2, OneAtWork DEF Relies
<1>4. row' = row /\ pc' = [pc EXCEPT ![r] = "reread"]
  BY <1>3 DEF CancelEntry, Saves, GoesTo
<1>5. Drifts /\ orders'[Legs] = orders[Legs]
  <2>1. CASE UNCHANGED orders
    BY <1>1, <2>1, StillDrifts
  <2>2. CASE Cancels({Entry})
    BY <1>0, <1>1, <2>2, CancelsDrift
  <2> QED
    BY <2>1, <2>2 DEF CancelEntry
<1>6. LegsKept
  BY <1>5 DEF LegsKept
<1>7. PICK l : l = local[r]
  OBVIOUS
<1>8. local' = [local EXCEPT ![r] = l]
  BY <1>1, <1>7 DEF EntryInv, OrdersTypeOK
<1>9. Relies("reread", l)'
  BY <1>3, <1>4, <1>7 DEF Relies, Counting
<1>10. "reread" \in Steps \ {"look up entry"}
  BY DEF Steps
<1> QED
  BY <1>1, <1>2, <1>4, <1>5, <1>6, <1>8, <1>9, <1>10, JobGoesOn

\* It judges the entry from a read after that.
LEMMA RereadSolo ==
  ASSUME DayInv, Solo, NEW r \in Runners, Reread(r) PROVE Solo'
<1>1. EntryInv /\ UNCHANGED <<phase, orders, actual>> /\ pc[r] = "reread"
  BY DEF DayInv, Reread
<1>2. pc[r] \in CheckSteps
  BY <1>1 DEF CheckSteps
<1>3. CASE CannotSee(r)
  BY <1>1, <1>2, <1>3, CannotSeeSolo
<1>4. CASE LeftOpen(r)
  BY <1>1, <1>2, <1>4, StillDrifts, LeftOpenSolo
<1>5. CASE Ended(orders[Entry]) /\ Sees(r, "judge")
  BY <1>1, <1>2, <1>5, SeesSolo DEF Ended
<1> QED
  BY <1>3, <1>4, <1>5 DEF Reread

\* What a job at work finds: its copy is the row, and what has ended stays as it saw it.
LEMMA CheckFinds ==
  ASSUME DayInv, Solo, NEW r \in Runners, pc[r] \in CheckSteps
  PROVE  /\ phase \in {"due", "overdue"} /\ orders[Close] = Never
         /\ local[r].rec = row /\ ~row.done /\ ~row.checked /\ row.state = "submitted" /\ row \in Rows
         /\ orders[Entry] # Never /\ orders[Legs] # Never /\ orders \in [Ids -> Order]
         /\ \A i \in TimeExit : orders[i] = Never
         /\ local[r] \in Locals
<1>1. pc[r] # "idle" /\ pc[r] \in CheckSteps \cup ExitSteps /\ EntryInv
  BY DEF CheckSteps, DayInv
<1>2. Relies(pc[r], local[r])
  BY <1>1, OneAtWork
<1>3. local[r].rec = row /\ ~row.done /\ ~row.checked
  BY <1>2 DEF Relies
<1>4. phase \in {"due", "overdue"} /\ orders[Close] = Never
  BY DEF DayInv, InPhase, Morning
<1>5. row.state = "submitted" /\ row \in Rows /\ local[r] \in Locals /\ orders \in [Ids -> Order]
  BY <1>1, AtWork DEF EntryInv, OrdersTypeOK
<1>6. orders[Entry] # Never /\ orders[Legs] # Never /\ \A i \in TimeExit : orders[i] = Never
  BY <1>4, <1>5 DEF Solo, RowKnows, InTurn, Morning
<1> QED
  BY <1>3, <1>4, <1>5, <1>6

\* What it counts from: of what it saw ended, the broker says the same.
LEMMA SnapFinds ==
  ASSUME DayInv, Solo, NEW r \in Runners, pc[r] \in Counting
  PROVE  /\ EntryInv /\ Entry \in Known(row) /\ Legs \in Known(row) /\ Known(row) \subseteq Ids
         /\ \A i \in Known(row) : /\ ShapedOrder(i, local[r].snap[i])
                                  /\ ~Working(local[r].snap[i]) => orders[i] = local[r].snap[i]
         /\ pc[r] \in {"judge", "cancel legs", "reread legs", "protect"} =>
              Final(local[r].snap[Entry]) /\ orders[Entry] = local[r].snap[Entry] /\ Final(orders[Entry])
         /\ local[r].snap \in [Ids -> Order]
<1>1. pc[r] # "idle" /\ EntryInv
  BY DEF Counting, DayInv
<1>2. Relies(pc[r], local[r])
  BY <1>1, OneAtWork
<1>3. Entry \in Known(row) /\ Legs \in Known(row) /\ Known(row) \subseteq Ids
  BY <1>1, ExitsKnown DEF Solo
<1>4. \A i \in Known(row) : /\ ShapedOrder(i, local[r].snap[i])
                            /\ ~Working(local[r].snap[i]) => orders[i] = local[r].snap[i]
  BY <1>2 DEF Relies
<1>5. pc[r] \in {"judge", "cancel legs", "reread legs", "protect"} => Final(local[r].snap[Entry])
  BY <1>2 DEF Relies
<1>6. Final(local[r].snap[Entry]) => ~Working(local[r].snap[Entry])
  BY DEF Final, Working
<1>7. local[r].snap \in [Ids -> Order]
  BY <1>1 DEF EntryInv, OrdersTypeOK, Locals
<1>8. Final(local[r].snap[Entry]) => orders[Entry] = local[r].snap[Entry]
  BY <1>3, <1>4, <1>6
<1> QED
  BY <1>1, <1>3, <1>4, <1>5, <1>7, <1>8

\* It calls the deadline step done, or lets the legs go, or protects what is left.
LEMMA JudgeSolo ==
  ASSUME DayInv, Solo, NEW r \in Runners, Judge(r) PROVE Solo'
<1>0. Legs \in Ids /\ Entry \in Ids
  BY IdFacts
<1>1. UNCHANGED <<phase, orders, actual>> /\ pc[r] = "judge"
  BY DEF Judge
<1>2. pc[r] \in CheckSteps /\ pc[r] \in Counting /\ pc[r] # "idle" /\ pc[r] \in CheckSteps \cup ExitSteps
  BY <1>1 DEF CheckSteps, Counting
<1>3. PICK l \in Locals : l = local[r]
  BY <1>2, CheckFinds
<1>4. /\ phase \in {"due", "overdue"} /\ l.rec = row /\ ~row.done /\ ~row.checked
      /\ orders[Entry] # Never /\ orders[Legs] # Never
  BY <1>2, <1>3, CheckFinds
<1>5. /\ EntryInv /\ Entry \in Known(row) /\ Legs \in Known(row)
      /\ \A i \in Known(row) : /\ ShapedOrder(i, l.snap[i])
                               /\ ~Working(l.snap[i]) => orders[i] = l.snap[i]
      /\ Final(l.snap[Entry]) /\ orders[Entry] = l.snap[Entry] /\ Final(orders[Entry])
  BY <1>1, <1>2, <1>3, SnapFinds
<1>6. \A i \in Known(row) : l.snap[i].status = "working" => orders[i].status \in {"working", "filled", "rejected"}
  BY <1>1, <1>2, <1>3, <1>5, OneAtWork DEF Relies
<1>7. InTurn /\ RowKnows
  BY DEF Solo
<1>8. PICK owned : owned = Bought(l.snap) - SoldBy(l.snap, l.rec)
  OBVIOUS
<1>9. CASE Bought(l.snap) = 0 \/ l.snap[Entry].status = "filled" \/ LegsProtect(l.snap[Legs], owned)
  <2>1. Checked(r)
    BY <1>3, <1>8, <1>9 DEF Judge
  <2>2. \/ Bought(orders) <= FilledOf(orders, ExitIds)
        \/ orders[Legs].status = "working"
        \/ \E i \in ExitIds : orders[i].status = "rejected"
    <3>1. CASE Bought(l.snap) = 0
      <4>1. Bought(orders) = 0
        BY <1>5, <3>1 DEF Bought
      <4>2. FilledOf(orders, ExitIds) \in Nat
        BY ExitsAreIds, FilledTyped
      <4> QED
        BY <4>1, <4>2
    <3>2. CASE l.snap[Entry].status = "filled"
      <4>1. orders[Legs].status \in {"working", "filled"}
        BY <1>4, <1>5, <1>7, <3>2 DEF InTurn, Morning
      <4>2. CASE orders[Legs].status = "filled"
        BY <1>5, <1>7, <4>2, LegsCover
      <4> QED
        BY <4>1, <4>2
    <3>3. CASE LegsProtect(l.snap[Legs], owned)
      <4>1. orders[Legs].status \in {"working", "filled", "rejected"}
        BY <1>5, <1>6, <3>3 DEF LegsProtect
      <4>2. CASE orders[Legs].status = "filled"
        BY <1>5, <1>7, <4>2, LegsCover
      <4>3. Legs \in ExitIds
        BY ExitsAreIds
      <4> QED
        BY <4>1, <4>2, <4>3
    <3> QED
      BY <1>9, <3>1, <3>2, <3>3
  <2>3. phase # "entry"
    BY <1>4
  <2> QED
    BY <1>1, <1>2, <1>5, <2>1, <2>2, <2>3, CheckedSolo
<1>10. CASE ~(Bought(l.snap) = 0 \/ l.snap[Entry].status = "filled" \/ LegsProtect(l.snap[Legs], owned))
  <2>1. PICK step \in {"cancel legs", "protect"} : step = IF Working(l.snap[Legs]) THEN "cancel legs" ELSE "protect"
    OBVIOUS
  <2>2. UNCHANGED <<row, local>> /\ pc' = [pc EXCEPT ![r] = step]
    BY <1>3, <1>8, <1>10, <2>1 DEF Judge, GoesTo
  <2>3. step = "protect" => ~Working(l.snap[Legs]) /\ Final(orders[Legs])
    <3>1. step = "protect" => ~Working(l.snap[Legs])
      BY <2>1
    <3>2. ~Working(l.snap[Legs]) => orders[Legs] = l.snap[Legs]
      BY <1>5
    <3> QED
      BY <1>0, <1>4, <1>5, <3>1, <3>2, PlacedEnds
  <2>4. step = "cancel legs" => orders[Entry].status # "filled"
    BY <1>5, <1>10
  <2>5. local' = [local EXCEPT ![r] = l]
    BY <1>3, <1>5, <2>2 DEF EntryInv, OrdersTypeOK
  <2>6. Known(row)' = Known(row) /\ orders' = orders /\ row' = row
    BY <1>1, <2>2 DEF Known
  <2>7. Relies(step, l)'
    BY <1>4, <1>5, <1>6, <2>1, <2>3, <2>4, <2>6 DEF Relies
  <2>8. Drifts /\ LegsKept
    BY <1>1, <1>5, StillDrifts
  <2>9. step \in Steps \ {"look up entry"}
    BY DEF Steps
  <2> QED
    BY <1>1, <1>2, <1>5, <2>2, <2>5, <2>7, <2>8, <2>9, JobGoesOn
<1> QED
  BY <1>9, <1>10

\* It asks for the legs' end, of an entry that ended with a part.
LEMMA CancelLegsSolo ==
  ASSUME DayInv, Solo, NEW r \in Runners, CancelLegs(r) PROVE Solo'
<1>1. UNCHANGED <<phase, row, actual, local>> /\ pc[r] = "cancel legs" /\ Cancels({Legs})
      /\ pc' = [pc EXCEPT ![r] = "reread legs"]
  BY DEF CancelLegs, GoesTo
<1>2. pc[r] \in CheckSteps /\ pc[r] \in Counting /\ pc[r] # "idle" /\ pc[r] \in CheckSteps \cup ExitSteps
  BY <1>1 DEF CheckSteps, Counting
<1>3. PICK l \in Locals : l = local[r]
  BY <1>2, CheckFinds
<1>4. l.rec = row /\ ~row.done /\ ~row.checked
  BY <1>2, <1>3, CheckFinds
<1>5. /\ EntryInv /\ Entry \in Known(row) /\ Legs \in Known(row) /\ Known(row) \subseteq Ids
      /\ \A i \in Known(row) : /\ ShapedOrder(i, l.snap[i])
                               /\ ~Working(l.snap[i]) => orders[i] = l.snap[i]
      /\ Final(l.snap[Entry]) /\ Final(orders[Entry])
  BY <1>1, <1>2, <1>3, SnapFinds
<1>6. orders[Entry].status # "filled"
  BY <1>1, <1>2, <1>5, OneAtWork DEF Relies
<1>7. Drifts
  BY <1>1, <1>5, CancelsDrift
<1>8. LegsKept
  BY <1>5, <1>6 DEF LegsKept
<1>9. \A i \in Known(row) : ~Working(l.snap[i]) => orders'[i] = l.snap[i]
  <2> SUFFICES ASSUME NEW i \in Known(row), ~Working(l.snap[i]) PROVE orders'[i] = l.snap[i]
    OBVIOUS
  <2>1. orders[i] = l.snap[i] /\ i \in Ids
    BY <1>5
  <2>2. ~Working(orders[i])
    BY <2>1
  <2>3. orders'[i] = orders[i]
    BY <1>5, <1>7, <2>1, <2>2, DriftKeeps
  <2> QED
    BY <2>1, <2>3
<1>10. Known(row)' = Known(row) /\ row' = row
  BY <1>1 DEF Known
<1>11. Relies("reread legs", l)'
  BY <1>4, <1>5, <1>9, <1>10 DEF Relies
<1>12. local' = [local EXCEPT ![r] = l]
  BY <1>1, <1>3, <1>5 DEF EntryInv, OrdersTypeOK
<1>13. "reread legs" \in Steps \ {"look up entry"}
  BY DEF Steps
<1> QED
  BY <1>1, <1>2, <1>5, <1>7, <1>8, <1>11, <1>12, <1>13, JobGoesOn

\* It reads again whether they have ended.
LEMMA RereadLegsSolo ==
  ASSUME DayInv, Solo, NEW r \in Runners, RereadLegs(r) PROVE Solo'
<1>1. UNCHANGED <<phase, orders, actual>> /\ pc[r] = "reread legs"
  BY DEF RereadLegs
<1>2. pc[r] \in CheckSteps /\ pc[r] \in Counting
  BY <1>1 DEF CheckSteps, Counting
<1>3. EntryInv /\ Final(orders[Entry])
  BY <1>1, <1>2, SnapFinds
<1>4. CASE CannotSee(r)
  BY <1>1, <1>2, <1>3, <1>4, CannotSeeSolo
<1>5. CASE LeftOpen(r)
  BY <1>1, <1>2, <1>3, <1>5, StillDrifts, LeftOpenSolo
<1>6. CASE Ended(orders[Legs]) /\ Sees(r, "protect")
  BY <1>1, <1>2, <1>3, <1>6, SeesSolo DEF Ended
<1> QED
  BY <1>4, <1>5, <1>6 DEF RereadLegs

\* Orders of which none works offer what they have sold.
LEMMA IdleOffers ==
  ASSUME NEW os \in [Ids -> Order], NEW S \in SUBSET Ids, \A i \in S : ~Working(os[i])
  PROVE  OfferedOf(os, S) = FilledOf(os, S)
<1>1. \A i \in S : OfferedBy(os[i]) = os[i].filled
  BY DEF OfferedBy, Working
<1>2. /\ \A i \in Ids : Trades(os)[i] = os[i].filled /\ Offers(os)[i] = OfferedBy(os[i])
      /\ FilledOf(os, S) = Counted(Trades(os), S)
  BY TradesTyped
<1>3. \A i \in S : Offers(os)[i] = Trades(os)[i]
  BY <1>1, <1>2
<1>4. Counted(Offers(os), S) = Counted(Trades(os), S)
  BY <1>3, CountedSame
<1> QED
  BY <1>2, <1>4 DEF OfferedOf

\* A count from a read in which nothing works is the broker's own.
LEMMA SoldSeen ==
  ASSUME EntryInv, RowKnows, NEW s \in [Ids -> Order],
         \A i \in Known(row) : ~Working(s[i]) /\ orders[i] = s[i]
  PROVE  /\ {Legs} \cup Protect \cup Flatten \in SUBSET Ids
         /\ \A i \in {Legs} \cup Protect \cup Flatten : ~Working(orders[i])
         /\ SoldBy(s, row) = FilledOf(orders, {Legs} \cup Protect \cup Flatten)
         /\ Bought(s) = Bought(orders)
<1> DEFINE Early == {Legs} \cup Protect \cup Flatten
<1>1. Early \in SUBSET Ids /\ Entry \notin Early /\ Legs \in Ids
  BY ExitsAreIds, IdFacts
<1>2. row \in Rows /\ orders \in [Ids -> Order]
  BY DEF EntryInv, OrdersTypeOK
<1>3. /\ \A i \in Protect \cup Flatten : i \in Known(row) \/ orders[i] = Never
      /\ Entry \in Known(row) /\ Legs \in Known(row) /\ Known(row) \subseteq Ids
  BY ExitsKnown
<1>4. ~Working(Never) /\ Never.filled = 0
  BY DEF Working, Never
<1>5. \A i \in Early : ~Working(orders[i])
  <2>1. ASSUME NEW i \in Known(row) PROVE ~Working(orders[i])
    OBVIOUS
  <2> QED
    BY <1>3, <1>4, <2>1
<1>6. Known(row) \ {Entry} \subseteq Early
  <2>1. 1..row.px \subseteq 1..MaxTries /\ 1..row.pf \subseteq 1..MaxTries
    <3>1. /\ row.px \in Int /\ row.pf \in Int /\ row.px <= MaxTries /\ row.pf <= MaxTries
      BY <1>2, RowNumbers
    <3> QED
      BY <3>1, OrdersConstants
  <2> QED
    BY <2>1 DEF Known, Protect, Flatten
<1>7. PICK K : K = Known(row) \ {Entry}
  OBVIOUS
<1>8. K \in SUBSET Ids /\ K \subseteq Early /\ \A i \in Early \ K : orders[i] = Never
  BY <1>1, <1>3, <1>6, <1>7
<1> HIDE DEF Early
<1>9. /\ Trades(orders) \in [Ids -> 0..Shares] /\ \A i \in Ids : Trades(orders)[i] = orders[i].filled
      /\ FilledOf(orders, K) = Counted(Trades(orders), K)
      /\ FilledOf(orders, Early) = Counted(Trades(orders), Early)
  BY <1>1, <1>2, <1>8, TradesTyped
<1>10. Counted(Trades(orders), Early) = Counted(Trades(orders), K)
  <2>1. \A i \in Early \ K : Trades(orders)[i] = 0
    BY <1>1, <1>4, <1>8, <1>9
  <2> QED
    BY <1>1, <1>8, <1>9, <2>1, CountedPart
<1>11. FilledOf(s, K) = FilledOf(orders, K)
  <2>1. \A i \in K : s[i].filled = orders[i].filled
    BY <1>7
  <2>2. {share \in K \X (1..Shares) : share[2] <= s[share[1]].filled} =
        {share \in K \X (1..Shares) : share[2] <= orders[share[1]].filled}
    BY <2>1
  <2> QED
    BY <2>2 DEF FilledOf
<1>12. SoldBy(s, row) = FilledOf(orders, Early)
  BY <1>7, <1>9, <1>10, <1>11 DEF SoldBy
<1>13. Bought(s) = Bought(orders)
  BY <1>3 DEF Bought
<1> QED
  BY <1>1, <1>5, <1>12, <1>13 DEF Early

\* A part whose exits have all ended: what the job owns is what nothing offers.
LEMMA PartEnds ==
  ASSUME DayInv, Solo, NEW r \in Runners, pc[r] = "protect",
         \A i \in Known(row) : i \in Protect \cup Flatten => ~Working(local[r].snap[i])
  PROVE  /\ \A i \in Known(row) : orders[i] = local[r].snap[i]
         /\ \A i \in ExitIds : ~Working(orders[i])
         /\ Bought(local[r].snap) - SoldBy(local[r].snap, row) = Bought(orders) - FilledOf(orders, ExitIds)
         /\ OfferedOf(orders, ExitIds) = FilledOf(orders, ExitIds)
         /\ FilledOf(orders, ExitIds) \in Int /\ Bought(orders) \in Int
<1>0. ExitIds \in SUBSET Ids /\ Entry \in Ids
  BY ExitsAreIds, IdFacts
<1>1. pc[r] \in CheckSteps /\ pc[r] \in Counting /\ pc[r] # "idle"
  BY DEF CheckSteps, Counting
<1>2. PICK s : s = local[r].snap
  OBVIOUS
<1>3. /\ EntryInv /\ s \in [Ids -> Order] /\ Final(s[Entry])
      /\ \A i \in Known(row) : ~Working(s[i]) => orders[i] = s[i]
  BY <1>1, <1>2, SnapFinds
<1>4. RowKnows /\ ~Working(s[Legs])
  BY <1>1, <1>2, <1>3, OneAtWork DEF Relies, Solo
<1>5. ~Working(s[Entry])
  BY <1>3 DEF Final, Working
<1>6. Known(row) \ {Entry, Legs} \subseteq Protect \cup Flatten
  <2>1. row \in Rows
    BY <1>1, CheckFinds
  <2>2. 1..row.px \subseteq 1..MaxTries /\ 1..row.pf \subseteq 1..MaxTries
    <3>1. /\ row.px \in Int /\ row.pf \in Int /\ row.px <= MaxTries /\ row.pf <= MaxTries
      BY <2>1, RowNumbers
    <3> QED
      BY <3>1, OrdersConstants
  <2> QED
    BY <2>2 DEF Known, Protect, Flatten
<1>7. \A i \in Known(row) : ~Working(s[i]) /\ orders[i] = s[i]
  <2>1. ASSUME NEW i \in Known(row) PROVE ~Working(s[i])
    <3>1. CASE i \in {Entry, Legs}
      BY <1>4, <1>5, <3>1
    <3>2. CASE i \notin {Entry, Legs}
      BY <1>2, <1>6, <3>2
    <3> QED
      BY <3>1, <3>2
  <2> QED
    BY <1>3, <2>1
<1> DEFINE Early == {Legs} \cup Protect \cup Flatten
<1>8. /\ Early \in SUBSET Ids /\ \A i \in Early : ~Working(orders[i])
      /\ SoldBy(s, row) = FilledOf(orders, Early) /\ Bought(s) = Bought(orders)
  BY <1>3, <1>4, <1>7, SoldSeen
<1>9. Early \subseteq ExitIds /\ ExitIds \ Early \subseteq TimeExit \cup {Close}
  BY DEF ExitIds
<1> HIDE DEF Early
<1>10. orders[Close] = Never /\ (\A i \in TimeExit : orders[i] = Never) /\ orders \in [Ids -> Order]
  BY <1>1, CheckFinds
<1>11. \A i \in ExitIds \ Early : orders[i] = Never
  BY <1>9, <1>10
<1>12. \A i \in ExitIds : ~Working(orders[i])
  BY <1>8, <1>11 DEF Working, Never
<1>13. FilledOf(orders, ExitIds) = FilledOf(orders, Early)
  <2>1. /\ Trades(orders) \in [Ids -> 0..Shares] /\ \A i \in Ids : Trades(orders)[i] = orders[i].filled
        /\ FilledOf(orders, ExitIds) = Counted(Trades(orders), ExitIds)
        /\ FilledOf(orders, Early) = Counted(Trades(orders), Early)
    BY <1>0, <1>8, <1>10, TradesTyped
  <2>2. \A i \in ExitIds \ Early : Trades(orders)[i] = 0
    BY <1>0, <1>11, <2>1 DEF Never
  <2> QED
    BY <1>0, <1>8, <1>9, <2>1, <2>2, CountedPart
<1>14. OfferedOf(orders, ExitIds) = FilledOf(orders, ExitIds)
  BY <1>0, <1>10, <1>12, IdleOffers
<1>15. FilledOf(orders, ExitIds) \in Int
  BY <1>0, FilledTyped
<1>16. Bought(orders) \in Int
  BY <1>0, <1>10, FilledNumber DEF Bought
<1> QED
  BY <1>2, <1>7, <1>8, <1>12, <1>13, <1>14, <1>15, <1>16

\* The shares that are to be sold, and what they leave.
LEMMA Rest ==
  ASSUME NEW b \in Int, NEW f \in Int, NEW n, n = b - f
  PROVE  f + n <= b /\ b <= f + n /\ n + f = b /\ (n = 0 => b <= f)
OBVIOUS

\* Before the first protective exit only the legs have sold.
LEMMA FirstProtect ==
  ASSUME DayInv, Solo, NEW r \in Runners, pc[r] = "protect",
         \A i \in Known(row) : i \in Protect => ~Final(local[r].snap[i]) /\ ~Working(local[r].snap[i]),
         ~row.refused, row.px < MaxTries
  PROVE  /\ \A i \in Protect : orders[i] = Never
         /\ row.pf = 0
         /\ FilledOf(orders, ExitIds) = orders[Legs].filled
<1>1. pc[r] \in CheckSteps /\ pc[r] \in Counting
  BY DEF CheckSteps, Counting
<1>2. /\ EntryInv /\ \A i \in Known(row) : ~Working(local[r].snap[i]) => orders[i] = local[r].snap[i]
  BY <1>1, SnapFinds
<1>3. RowKnows /\ InTurn
  BY DEF Solo
<1>4. \A i \in Protect \cup Flatten : i \in Known(row) \/ orders[i] = Never
  BY <1>2, <1>3, ExitsKnown
<1>5. ASSUME NEW i \in Protect, orders[i] # Never PROVE FALSE
  <2>1. i \in Known(row) /\ i \in Ids
    BY <1>4, <1>5, ExitsAreIds
  <2>2. ~Working(orders[i]) /\ ~Final(orders[i])
    BY <1>2, <2>1
  <2> QED
    BY <1>2, <1>5, <2>1, <2>2, PlacedEnds
<1>6. row.pf = 0
  <2>1. ~(\E i \in Protect : Final(orders[i]))
    BY <1>5 DEF Final, Never
  <2>2. row.px # MaxTries
    <3>1. row \in Rows
      BY <1>1, CheckFinds
    <3>2. row.px \in Int
      BY <3>1, RowNumbers
    <3> QED
      BY <3>2, OrdersConstants
  <2> QED
    BY <1>3, <2>1, <2>2 DEF RowKnows, Flattened
<1>7. \A i \in Flatten : orders[i] = Never
  <2>1. ASSUME NEW i \in Flatten, orders[i] # Never PROVE FALSE
    <3>1. PICK n \in 1..MaxTries : i = <<"pf", n>>
      BY DEF Flatten
    <3>2. n <= row.pf
      BY <1>3, <2>1, <3>1, Zenon DEF RowKnows
    <3> QED
      BY <1>6, <3>2
  <2> QED
    BY <2>1
<1>8. orders[Close] = Never /\ (\A i \in TimeExit : orders[i] = Never) /\ orders \in [Ids -> Order]
  BY <1>1, CheckFinds
<1>9. \A i \in ExitIds \ {Legs} : orders[i] = Never
  BY <1>5, <1>7, <1>8 DEF ExitIds
<1>10. FilledOf(orders, ExitIds) = orders[Legs].filled
  BY <1>8, <1>9, ExitsAreIds, LegsAlone
<1> QED
  BY <1>5, <1>6, <1>10

\* The part that is owned: an exit that is there, a new one, or a flatten.
LEMMA ProtectPartSolo ==
  ASSUME DayInv, Solo, NEW r \in Runners, ProtectPart(r) PROVE Solo'
<1>0. Legs \in Ids /\ Entry \in Ids /\ Protect \subseteq ExitIds /\ ExitIds \in SUBSET Ids /\ Legs \notin Protect
  BY IdFacts, ExitsAreIds
<1>1. UNCHANGED <<phase, actual>> /\ pc[r] = "protect"
  BY DEF ProtectPart
<1>2. pc[r] \in CheckSteps /\ pc[r] \in Counting /\ pc[r] # "idle" /\ pc[r] \in CheckSteps \cup ExitSteps
  BY <1>1 DEF CheckSteps, Counting
<1>3. PICK l \in Locals : l = local[r]
  BY <1>2, CheckFinds
<1>4. /\ phase \in {"due", "overdue"} /\ l.rec = row /\ ~row.done /\ ~row.checked
      /\ row.state = "submitted" /\ row \in Rows /\ orders \in [Ids -> Order]
  BY <1>2, <1>3, CheckFinds
<1>5. PICK s : s = l.snap
  OBVIOUS
<1>6. /\ EntryInv /\ Known(row) \subseteq Ids /\ s \in [Ids -> Order]
      /\ \A i \in Known(row) : /\ ShapedOrder(i, s[i])
                               /\ ~Working(s[i]) => orders[i] = s[i]
  BY <1>1, <1>2, <1>3, <1>5, SnapFinds
<1>7. /\ Final(orders[Legs])
      /\ \A i \in Known(row) : s[i].status = "working" => orders[i].status \in {"working", "filled", "rejected"}
  BY <1>1, <1>2, <1>3, <1>5, <1>6, OneAtWork DEF Relies
<1>8. InTurn /\ RowKnows
  BY DEF Solo
<1>9. PICK owned : owned = Bought(s) - SoldBy(s, row)
  OBVIOUS
<1>10. owned \in Int /\ (owned > 0 => owned \in 1..Shares)
  BY <1>4, <1>6, <1>9, OwnedTyped
<1>11. PICK live : live = {i \in Known(row) : i \in Protect /\ Working(s[i])}
  OBVIOUS
<1>12. PICK ended : ended = {i \in Known(row) : i \in Protect /\ Final(s[i])}
  OBVIOUS
<1>13. PICK flattening \in BOOLEAN : flattening = \E i \in Known(row) : i \in Flatten /\ Working(s[i])
  OBVIOUS
<1>14. \/ Alarm(r) /\ UNCHANGED orders
       \/ owned = 0 /\ live = {} /\ ~flattening /\ Checked(r) /\ UNCHANGED orders
       \/ LeftOpen(r) /\ UNCHANGED orders
       \/ (\E i \in live : s[i].status # "canceling") /\ Checked(r) /\ UNCHANGED orders
       \/ LeftOpen(r) /\ Cancels(live)
       \/ /\ owned > 0 /\ ~flattening /\ live = {} /\ UNCHANGED orders
          /\ ~row.refused /\ ended = {} /\ row.px < MaxTries
          /\ Saves(r, ProtectRecord(row))
          /\ local' = [local EXCEPT ![r].rec = [row EXCEPT !.px = @ + 1], ![r].owned = owned]
          /\ GoesTo(r, "post px")
       \/ /\ owned > 0 /\ ~flattening /\ live = {} /\ UNCHANGED orders
          /\ row.refused \/ ended # {} \/ ~(row.px < MaxTries)
          /\ StartFlatten(r, row, owned)
  BY <1>3, <1>4, <1>5, <1>9, <1>11, <1>12, <1>13 DEF ProtectPart
<1>15. CASE (Alarm(r) \/ LeftOpen(r)) /\ UNCHANGED orders
  BY <1>1, <1>2, <1>6, <1>15, StillDrifts, LeftOpenSolo
<1>16. CASE LeftOpen(r) /\ Cancels(live)
  <2>1. Drifts /\ \A i \in Ids \ live : orders'[i] = orders[i]
    BY <1>6, <1>16, CancelsDrift
  <2>2. orders'[Legs] = orders[Legs]
    BY <1>0, <1>11, <2>1
  <2>3. LegsKept
    BY <2>2 DEF LegsKept
  <2> QED
    BY <1>1, <1>2, <1>6, <1>16, <2>1, <2>3, LeftOpenSolo
<1>17. CASE (\E i \in live : s[i].status # "canceling") /\ Checked(r) /\ UNCHANGED orders
  <2>1. PICK i \in live : s[i].status # "canceling"
    BY <1>17
  <2>2. i \in Known(row) /\ i \in Protect /\ Working(s[i]) /\ i # Legs
    BY <1>0, <1>11
  <2>3. s[i].status = "working"
    BY <1>6, <2>1, <2>2 DEF Working, ShapedOrder
  <2>4. orders[i].status \in {"working", "filled", "rejected"}
    BY <1>7, <2>2, <2>3
  <2>5. \/ Bought(orders) <= FilledOf(orders, ExitIds)
        \/ \E j \in Protect : orders[j].status = "working"
        \/ \E j \in ExitIds : orders[j].status = "rejected"
    <3>1. CASE orders[i].status = "filled"
      BY <1>6, <1>8, <2>2, <3>1, ProtectCovers
    <3> QED
      BY <1>0, <2>2, <2>4, <3>1
  <2>6. phase # "entry"
    BY <1>4
  <2> QED
    BY <1>1, <1>2, <1>6, <1>17, <2>5, <2>6, CheckedSolo
<1>18. ASSUME ~flattening, live = {}
       PROVE  /\ \A i \in ExitIds : ~Working(orders[i])
              /\ owned = Bought(orders) - FilledOf(orders, ExitIds)
              /\ OfferedOf(orders, ExitIds) = FilledOf(orders, ExitIds)
              /\ FilledOf(orders, ExitIds) \in Int /\ Bought(orders) \in Int
              /\ \A i \in Known(row) : i \in Protect => orders[i] = s[i] /\ ~Working(s[i])
  <2>1. \A i \in Known(row) : i \in Protect \cup Flatten => ~Working(local[r].snap[i])
    BY <1>3, <1>5, <1>11, <1>13, <1>18
  <2>2. \A i \in Known(row) : i \in Protect => ~Working(s[i])
    BY <1>3, <1>5, <2>1
  <2>3. /\ \A i \in ExitIds : ~Working(orders[i])
        /\ owned = Bought(orders) - FilledOf(orders, ExitIds)
        /\ OfferedOf(orders, ExitIds) = FilledOf(orders, ExitIds)
        /\ FilledOf(orders, ExitIds) \in Int /\ Bought(orders) \in Int
    BY <1>1, <1>3, <1>5, <1>9, <2>1, PartEnds
  <2> QED
    BY <1>6, <2>2, <2>3
<1>19. CASE owned = 0 /\ live = {} /\ ~flattening /\ Checked(r) /\ UNCHANGED orders
  <2>1. Bought(orders) <= FilledOf(orders, ExitIds)
    BY <1>18, <1>19, Rest
  <2>2. phase # "entry"
    BY <1>4
  <2> QED
    BY <1>1, <1>2, <1>6, <1>19, <2>1, <2>2, CheckedSolo
<1>20. CASE /\ owned > 0 /\ ~flattening /\ live = {} /\ UNCHANGED orders
            /\ row.refused \/ ended # {} \/ ~(row.px < MaxTries)
            /\ StartFlatten(r, row, owned)
  <2>1. /\ \A i \in Protect : ~Working(orders[i])
        /\ OfferedOf(orders, ExitIds) + owned <= Bought(orders)
        /\ Bought(orders) <= FilledOf(orders, ExitIds) + owned
    BY <1>0, <1>18, <1>20, Rest
  <2>2. row.refused \/ row.px = MaxTries \/ \E i \in Protect : Final(orders[i])
    <3>1. CASE ended # {}
      BY <1>12, <1>18, <1>20, <3>1
    <3>2. CASE ~(row.px < MaxTries)
      <4>1. row.px \in Int /\ row.px <= MaxTries
        BY <1>4, RowNumbers
      <4> QED
        BY <3>2, <4>1, OrdersConstants
    <3> QED
      BY <1>20, <3>1, <3>2
  <2>3. owned \in 1..Shares
    BY <1>10, <1>20
  <2>4. row \in {row, [row EXCEPT !.refused = TRUE]}
    OBVIOUS
  <2> QED
    BY <1>1, <1>2, <1>4, <1>6, <1>7, <1>20, <2>1, <2>2, <2>3, <2>4, FlattenSolo
<1>21. CASE /\ owned > 0 /\ ~flattening /\ live = {} /\ UNCHANGED orders
            /\ ~row.refused /\ ended = {} /\ row.px < MaxTries
            /\ Saves(r, ProtectRecord(row))
            /\ local' = [local EXCEPT ![r].rec = [row EXCEPT !.px = @ + 1], ![r].owned = owned]
            /\ GoesTo(r, "post px")
  <2>1. /\ \A i \in Protect : orders[i] = Never
        /\ row.pf = 0
        /\ FilledOf(orders, ExitIds) = orders[Legs].filled
    <3>1. \A i \in Known(row) : i \in Protect => ~Final(local[r].snap[i]) /\ ~Working(local[r].snap[i])
      BY <1>3, <1>5, <1>11, <1>12, <1>21
    <3> QED
      BY <1>1, <1>21, <3>1, FirstProtect
  <2>2. /\ owned + orders[Legs].filled = Bought(orders)
        /\ OfferedOf(orders, ExitIds) + owned <= Bought(orders)
        /\ Bought(orders) <= FilledOf(orders, ExitIds) + owned
    <3>1. /\ owned = Bought(orders) - FilledOf(orders, ExitIds)
          /\ OfferedOf(orders, ExitIds) = FilledOf(orders, ExitIds)
          /\ FilledOf(orders, ExitIds) \in Int /\ Bought(orders) \in Int
      BY <1>18, <1>21
    <3>2. /\ FilledOf(orders, ExitIds) + owned <= Bought(orders) /\ Bought(orders) <= FilledOf(orders, ExitIds) + owned
          /\ owned + FilledOf(orders, ExitIds) = Bought(orders)
      BY <3>1, Rest
    <3> QED
      BY <2>1, <3>1, <3>2
  <2>3. PICK next \in Rows : next = [row EXCEPT !.px = @ + 1]
    <3>1. row.px \in Int /\ row.px >= 0
      BY <1>4, RowNumbers
    <3>2. row.px + 1 \in 0..MaxTries
      <4>1. \A n \in Int : n >= 0 /\ n < MaxTries => n + 1 \in 0..MaxTries
        BY OrdersConstants
      <4> QED
        BY <1>21, <3>1, <4>1
    <3> QED
      BY <1>4, <3>2 DEF Rows
  <2>4. /\ next.state = row.state /\ next.checked = row.checked /\ next.refused = row.refused
        /\ next.px = row.px + 1 /\ next.pf = row.pf /\ next.tx = row.tx /\ next.closes = row.closes
        /\ next.done = row.done
    BY <1>4, <2>3 DEF Rows
  <2>5. PICK m : m = [local[r] EXCEPT !.rec = next, !.owned = owned]
    OBVIOUS
  <2>6. m.rec = next /\ m.owned = owned
    BY <1>3, <2>5 DEF Locals
  <2>7. row' = next /\ pc' = [pc EXCEPT ![r] = "post px"] /\ local' = [local EXCEPT ![r] = m]
    BY <1>21, <2>3, <2>5 DEF ProtectRecord, Saves, GoesTo
  <2>8. Writes
    <3>1. row.px <= row.px + 1 /\ row.pf <= row.pf /\ row.tx <= row.tx
      <4>1. row.px \in Int /\ row.pf \in Int /\ row.tx \in Int
        BY <1>4, RowNumbers
      <4> QED
        BY <4>1
    <3>2. ~row.closes
      BY <1>8 DEF RowKnows
    <3>3. row'.px = row.px + 1 /\ row'.pf = row.pf /\ row'.tx = row.tx
      BY <2>4, <2>7
    <3>4. row' \in Rows /\ row'.state = "submitted" /\ ~row'.closes
      BY <1>4, <2>4, <2>7, <3>2
    <3>5. row.px <= row'.px /\ row.pf <= row'.pf /\ row.tx <= row'.tx
      BY <3>1, <3>3, Zenon
    <3> QED
      BY <3>4, <3>5 DEF Writes
  <2>9. ~row'.done /\ ~row'.checked /\ row'.pf = 0
    BY <1>4, <2>1, <2>4, <2>7
  <2>10. Covers' /\ Over'
    BY <1>1, <2>9, CoversOpen, OverOpen DEF Solo
  <2>11. orders' = orders /\ m.rec = row' /\ m.owned = owned
    BY <1>21, <2>6, <2>7
  <2>12. Relies("post px", m)'
    <3>1. /\ \A i \in Protect : orders'[i] = Never
          /\ m.owned + orders'[Legs].filled = Bought(orders')
          /\ OfferedOf(orders', ExitIds) + m.owned <= Bought(orders')
          /\ Bought(orders') <= FilledOf(orders', ExitIds) + m.owned
          /\ Final(orders'[Legs])
      BY <1>7, <2>1, <2>2, <2>11
    <3> QED
      BY <2>9, <2>11, <3>1 DEF Relies, Counting
  <2>13. "post px" \in Steps \ {"look up entry"} /\ Drifts /\ LegsKept
    BY <1>6, <1>21, StillDrifts DEF Steps
  <2> QED
    BY <1>1, <1>2, <1>6, <2>7, <2>8, <2>9, <2>10, <2>12, <2>13, JobMoves
<1> QED
  BY <1>14, <1>15, <1>16, <1>17, <1>19, <1>20, <1>21

\* One exit among the exits.
LEMMA OneExit ==
  ASSUME EntryInv, NEW id \in ExitIds
  PROVE  /\ FilledOf(orders, ExitIds) = FilledOf(orders, ExitIds \ {id}) + orders[id].filled
         /\ OfferedOf(orders, ExitIds) = OfferedOf(orders, ExitIds \ {id}) + OfferedBy(orders[id])
         /\ FilledOf(orders, ExitIds) \in Nat /\ FilledOf(orders, ExitIds \ {id}) \in Nat
         /\ OfferedOf(orders, ExitIds) \in Nat /\ OfferedOf(orders, ExitIds \ {id}) \in Nat
         /\ orders[id].filled \in Nat /\ OfferedBy(orders[id]) \in Nat /\ Bought(orders) \in Nat
<1>1. ExitIds \in SUBSET Ids /\ ExitIds \ {id} \in SUBSET Ids /\ id \in Ids /\ Entry \in Ids
  BY ExitsAreIds, IdFacts
<1>2. orders \in [Ids -> Order]
  BY DEF EntryInv, OrdersTypeOK
<1>3. /\ Trades(orders) \in [Ids -> 0..Shares] /\ Offers(orders) \in [Ids -> 0..Shares]
      /\ Trades(orders)[id] = orders[id].filled /\ Offers(orders)[id] = OfferedBy(orders[id])
      /\ FilledOf(orders, ExitIds) = Counted(Trades(orders), ExitIds)
      /\ FilledOf(orders, ExitIds \ {id}) = Counted(Trades(orders), ExitIds \ {id})
  BY <1>1, <1>2, TradesTyped
<1>4. /\ Counted(Trades(orders), ExitIds) = Counted(Trades(orders), ExitIds \ {id}) + Trades(orders)[id]
      /\ Counted(Trades(orders), ExitIds) \in Nat /\ Counted(Trades(orders), ExitIds \ {id}) \in Nat
      /\ Trades(orders)[id] \in Nat
  BY <1>1, <1>3, CountedSplit
<1>5. /\ Counted(Offers(orders), ExitIds) = Counted(Offers(orders), ExitIds \ {id}) + Offers(orders)[id]
      /\ Counted(Offers(orders), ExitIds) \in Nat /\ Counted(Offers(orders), ExitIds \ {id}) \in Nat
      /\ Offers(orders)[id] \in Nat
  BY <1>1, <1>3, CountedSplit
<1>6. Bought(orders) \in Nat
  BY <1>1, <1>2, OrdersConstants DEF Bought, Order
<1> QED
  BY <1>3, <1>4, <1>5, <1>6 DEF OfferedOf

\* One that was never placed, or has ended without a fill, makes no difference.
LEMMA NoExit ==
  ASSUME EntryInv, NEW id \in ExitIds, ~Working(orders[id]), orders[id].filled = 0
  PROVE  /\ FilledOf(orders, ExitIds) = FilledOf(orders, ExitIds \ {id})
         /\ OfferedOf(orders, ExitIds) = OfferedOf(orders, ExitIds \ {id})
<1>1. OfferedBy(orders[id]) = 0
  BY DEF OfferedBy, Working
<1> QED
  BY <1>1, OneExit

\* A number that is not zero.
LEMMA FromOne ==
  ASSUME NEW m \in Nat \ {0}, NEW n \in 0..m, n # 0 PROVE n \in 1..m
<1>1. n \in Int /\ n >= 0 /\ n <= m
  OBVIOUS
<1>2. n >= 1
  BY <1>1
<1> QED
  BY <1>1, <1>2

\* Where a job is that has an exit to post or to confirm.
LEMMA ExitFinds ==
  ASSUME DayInv, Solo, NEW r \in Runners, pc[r] \in {"post px", "confirm px", "post pf", "confirm pf"}
  PROVE  /\ EntryInv /\ pc[r] \in CheckSteps /\ pc[r] # "idle" /\ pc[r] \in CheckSteps \cup ExitSteps
         /\ Final(orders[Entry]) /\ Final(orders[Legs])
         /\ local[r].owned \in 1..Shares
         /\ pc[r] \in {"post px", "confirm px"} =>
              <<"px", row.px>> \in Protect /\ <<"px", row.px>> \in ExitIds /\ <<"px", row.px>> \in Ids \ {Entry}
         /\ pc[r] \in {"post pf", "confirm pf"} =>
              <<"pf", row.pf>> \in Flatten /\ <<"pf", row.pf>> \in ExitIds /\ <<"pf", row.pf>> \in Ids \ {Entry}
<1>1. EntryInv /\ pc[r] \in CheckSteps /\ pc[r] # "idle" /\ pc[r] \in CheckSteps \cup ExitSteps /\ pc[r] \in AfterEntry
  BY DEF CheckSteps, AfterEntry, DayInv
<1>2. Final(orders[Entry])
  BY <1>1, AtWork
<1>3. Final(orders[Legs])
  BY <1>1, OneAtWork DEF Relies
<1>4. local[r].rec = row /\ row \in Rows /\ local[r] \in Locals
  BY <1>1, CheckFinds
<1>5. /\ local[r].owned # 0
      /\ pc[r] \in {"post px", "confirm px"} => row.px # 0
      /\ pc[r] \in {"post pf", "confirm pf"} => row.pf # 0
  BY <1>1, <1>4 DEF EntryInv, JobsHonest, Honest
<1>6. local[r].owned \in 1..Shares
  <2>1. local[r].owned \in 0..Shares
    BY <1>4 DEF Locals
  <2> QED
    BY <1>5, <2>1, OrdersConstants, FromOne
<1>7. /\ row.px # 0 => row.px \in 1..MaxTries
      /\ row.pf # 0 => row.pf \in 1..MaxTries
  <2>1. row.px \in 0..MaxTries /\ row.pf \in 0..MaxTries
    BY <1>4 DEF Rows
  <2> QED
    BY <2>1, OrdersConstants, FromOne
<1>8. /\ row.px # 0 => <<"px", row.px>> \in Protect /\ <<"px", row.px>> \in Ids \ {Entry}
      /\ row.pf # 0 => <<"pf", row.pf>> \in Flatten /\ <<"pf", row.pf>> \in Ids \ {Entry}
  BY <1>7, IdFacts DEF Protect, Flatten
<1> QED
  BY <1>1, <1>2, <1>3, <1>5, <1>6, <1>8, ExitsAreIds

\* A protective exit is posted, or its shares are flattened when it is refused.
LEMMA PostProtectSolo ==
  ASSUME DayInv, Solo, NEW r \in Runners, PostProtect(r) PROVE Solo'
<1>1. UNCHANGED <<phase, actual>> /\ pc[r] = "post px"
  BY DEF PostProtect
<1>2. PICK id : id = <<"px", row.px>>
  OBVIOUS
<1>3. /\ EntryInv /\ pc[r] \in CheckSteps /\ pc[r] # "idle" /\ pc[r] \in CheckSteps \cup ExitSteps
      /\ Final(orders[Entry]) /\ Final(orders[Legs])
      /\ id \in Protect /\ id \in ExitIds /\ id \in Ids \ {Entry}
  BY <1>1, <1>2, ExitFinds
<1>4. PICK l \in Locals : l = local[r]
  BY <1>3, CheckFinds
<1>5. PICK owned \in 1..Shares : owned = l.owned
  BY <1>1, <1>4, ExitFinds
<1>6. /\ phase \in {"due", "overdue"} /\ l.rec = row /\ ~row.done /\ ~row.checked
      /\ row.state = "submitted" /\ row \in Rows /\ orders \in [Ids -> Order]
  BY <1>3, <1>4, CheckFinds
<1>7. /\ \A i \in Protect : orders[i] = Never
      /\ row.pf = 0
      /\ owned + orders[Legs].filled = Bought(orders)
      /\ OfferedOf(orders, ExitIds) + owned <= Bought(orders)
      /\ Bought(orders) <= FilledOf(orders, ExitIds) + owned
  BY <1>1, <1>3, <1>4, <1>5, OneAtWork DEF Relies
<1>8. PICK answer \in {"accepted", "transient", "refused"} :
        /\ Posts(id, owned, answer)
        /\ IF answer = "refused"
           THEN StartFlatten(r, [row EXCEPT !.refused = TRUE], owned)
           ELSE GoesTo(r, "confirm px") /\ UNCHANGED <<row, local>>
  BY <1>2, <1>4, <1>5, <1>6 DEF PostProtect
<1>9. UNCHANGED orders \/ (Places(id, owned) /\ answer # "refused")
  BY <1>3, <1>8, PostsPlace
<1>10. CASE answer = "refused"
  <2>1. UNCHANGED orders
    BY <1>9, <1>10
  <2>2. PICK rec \in Rows : rec = [row EXCEPT !.refused = TRUE]
    BY <1>6 DEF Rows
  <2>3. rec.refused /\ rec \in {row, [row EXCEPT !.refused = TRUE]}
    BY <1>6, <2>2 DEF Rows
  <2>4. \A i \in Protect : ~Working(orders[i])
    BY <1>7 DEF Working, Never
  <2>5. StartFlatten(r, rec, owned)
    BY <1>8, <1>10, <2>2
  <2> QED
    BY <1>1, <1>3, <1>7, <2>1, <2>3, <2>4, <2>5, FlattenSolo
<1>11. CASE answer # "refused"
  <2>1. UNCHANGED <<row, local>> /\ pc' = [pc EXCEPT ![r] = "confirm px"] /\ row' = row
    BY <1>8, <1>11 DEF GoesTo
  <2>2. local' = [local EXCEPT ![r] = l]
    BY <1>3, <1>4, <2>1 DEF EntryInv, OrdersTypeOK
  <2>3. orders[id] = Never /\ ~Working(orders[id]) /\ orders[id].filled = 0
    BY <1>3, <1>7 DEF Working, Never
  <2>4. /\ OfferedOf(orders, ExitIds \ {id}) + owned <= Bought(orders)
        /\ Bought(orders) <= FilledOf(orders, ExitIds \ {id}) + owned
    BY <1>3, <1>7, <2>3, NoExit
  <2>5. "confirm px" \in Steps \ {"look up entry"}
    BY DEF Steps
  <2>6. ASSUME /\ \A i \in Protect \ {id} : orders'[i] = Never
               /\ orders'[id].status # "canceling"
               /\ OfferedOf(orders', ExitIds \ {id}) + owned <= Bought(orders')
               /\ Bought(orders') <= FilledOf(orders', ExitIds \ {id}) + owned
               /\ Final(orders'[Legs])
        PROVE  Relies("confirm px", l)'
    <3>1. l.owned = owned /\ l.rec = row' /\ id = <<"px", row'.px>> /\ row'.pf = 0 /\ ~row'.done /\ ~row'.checked
      BY <1>2, <1>5, <1>6, <1>7, <2>1
    <3> QED
      BY <2>6, <3>1 DEF Relies, Counting
  <2>7. CASE UNCHANGED orders
    <3>1. orders' = orders /\ orders[id].status # "canceling"
      BY <2>3, <2>7 DEF Never
    <3>2. Relies("confirm px", l)'
      BY <1>3, <1>7, <2>4, <2>6, <3>1
    <3>3. Drifts /\ LegsKept
      BY <1>3, <2>7, StillDrifts
    <3> QED
      BY <1>1, <1>3, <2>1, <2>2, <2>5, <3>2, <3>3, JobGoesOn
  <2>8. CASE Places(id, owned)
    <3>1. /\ orders'[id].status = "working"
          /\ \A i \in Ids \ {id} : orders'[i] = orders[i]
          /\ Bought(orders') = Bought(orders)
      BY <1>3, <2>8, PlacesOne
    <3>2. ExitIds \ {id} \in SUBSET Ids /\ Legs \in Ids \ {id} /\ Protect \subseteq Ids /\ id \in Protect \cup Flatten \cup TimeExit
      BY <1>3, IdFacts, ExitsAreIds
    <3>3. /\ FilledOf(orders', ExitIds \ {id}) = FilledOf(orders, ExitIds \ {id})
          /\ OfferedOf(orders', ExitIds \ {id}) = OfferedOf(orders, ExitIds \ {id})
      BY <1>3, <2>8, <3>2, PlacesCounts
    <3>4. Relies("confirm px", l)'
      <4>1. \A i \in Protect \ {id} : orders'[i] = Never
        BY <1>7, <3>1, <3>2
      <4>2. Final(orders'[Legs])
        BY <1>3, <3>1, <3>2
      <4>3. /\ OfferedOf(orders', ExitIds \ {id}) + owned <= Bought(orders')
            /\ Bought(orders') <= FilledOf(orders', ExitIds \ {id}) + owned
        BY <2>4, <3>1, <3>3
      <4> QED
        BY <2>6, <3>1, <4>1, <4>2, <4>3
    <3>5. RowKnows /\ InTurn /\ Fit /\ Over
      BY DEF Solo
    <3>6. InTurn'
      BY <1>1, <1>3, <1>7, <2>8, <3>2, <3>5, ExitsAreIds, PlacesInTurn
    <3>7. Fit'
      BY <1>3, <1>7, <2>8, <3>2, <3>5, PlacesFit
    <3>8. \A q \in Runners \ {r} : pc[q] = "idle"
      BY <1>3, OneAtWork
    <3>9. pc'["tick"] # "look up entry"
      <4>1. DOMAIN pc = Runners /\ "tick" \in Runners
        BY <1>3 DEF EntryInv, OrdersTypeOK, Runners
      <4> QED
        BY <2>1, <3>8, <4>1
    <3>10. RowKnows'
      <4>1. id[2] = row.px /\ row.px <= row.px
        BY <1>2, <1>6, RowNumbers
      <4>2. id \notin Flatten /\ id \notin TimeExit
        BY <1>3, ExitsAreIds
      <4> QED
        BY <1>1, <1>3, <1>6, <1>7, <2>1, <2>8, <3>2, <3>5, <3>9, <4>1, <4>2, RowPlaces
    <3>11. Covers' /\ Over'
      BY <1>1, <1>6, <2>1, <3>5, CoversOpen, OverOpen
    <3> QED
      BY <1>3, <2>1, <2>2, <3>4, <3>6, <3>7, <3>8, <3>10, <3>11, SoloFrom
  <2> QED
    BY <1>9, <2>7, <2>8
<1> QED
  BY <1>10, <1>11

\* What is sold with an exit in it, and without.
LEMMA WithExit ==
  ASSUME NEW f \in Nat, NEW g \in Nat, NEW x \in Nat, NEW n \in Nat, NEW b \in Nat, f = g + x, b <= g + n
  PROVE  b <= f + n /\ (x >= n => b <= f)
OBVIOUS

\* A protective exit counts once the broker shows it working; one that has ended is
\* followed by a flatten.
LEMMA ConfirmProtectSolo ==
  ASSUME DayInv, Solo, NEW r \in Runners, ConfirmProtect(r) PROVE Solo'
<1>1. UNCHANGED <<phase, orders, actual>> /\ pc[r] = "confirm px"
  BY DEF ConfirmProtect
<1>2. PICK id : id = <<"px", row.px>>
  OBVIOUS
<1>3. /\ EntryInv /\ pc[r] \in CheckSteps /\ pc[r] # "idle" /\ pc[r] \in CheckSteps \cup ExitSteps
      /\ Final(orders[Entry]) /\ Final(orders[Legs])
      /\ id \in Protect /\ id \in ExitIds /\ id \in Ids \ {Entry}
  BY <1>1, <1>2, ExitFinds
<1>4. PICK l \in Locals : l = local[r]
  BY <1>3, CheckFinds
<1>5. PICK owned \in 1..Shares : owned = l.owned
  BY <1>1, <1>4, ExitFinds
<1>6. /\ phase \in {"due", "overdue"} /\ l.rec = row /\ row \in Rows
  BY <1>3, <1>4, CheckFinds
<1>7. /\ \A i \in Protect \ {id} : orders[i] = Never
      /\ orders[id].status # "canceling"
      /\ OfferedOf(orders, ExitIds \ {id}) + owned <= Bought(orders)
      /\ Bought(orders) <= FilledOf(orders, ExitIds \ {id}) + owned
  BY <1>1, <1>2, <1>3, <1>4, <1>5, OneAtWork DEF Relies
<1>8. \/ CannotSee(r)
      \/ Working(orders[id]) /\ Checked(r)
      \/ Final(orders[id]) /\ StartFlatten(r, row, owned)
      \/ LeftOpen(r)
  BY <1>2, <1>4, <1>5, <1>6 DEF ConfirmProtect
<1>9. CASE CannotSee(r)
  BY <1>1, <1>3, <1>9, CannotSeeSolo
<1>10. CASE LeftOpen(r)
  BY <1>1, <1>3, <1>10, StillDrifts, LeftOpenSolo
<1>11. CASE Working(orders[id]) /\ Checked(r)
  <2>1. orders[id].status # "held"
    <3>1. ShapedOrder(id, orders[id]) /\ id # Legs
      BY <1>3, ExitsAreIds DEF EntryInv, Shaped
    <3> QED
      BY <3>1 DEF ShapedOrder
  <2>2. orders[id].status = "working"
    BY <1>7, <1>11, <2>1 DEF Working
  <2>3. phase # "entry"
    BY <1>6
  <2> QED
    BY <1>1, <1>3, <1>11, <2>2, <2>3, CheckedSolo
<1>12. CASE Final(orders[id]) /\ StartFlatten(r, row, owned)
  <2>1. ~Working(orders[id]) /\ ~Working(Never)
    BY <1>12 DEF Final, Working, Never
  <2>2. (\A i \in Protect : ~Working(orders[i])) /\ (\E i \in Protect : Final(orders[i]))
    BY <1>3, <1>7, <1>12, <2>1
  <2>3. Bought(orders) <= FilledOf(orders, ExitIds) + owned
    <3>1. owned \in Nat
      BY OrdersConstants
    <3>2. /\ FilledOf(orders, ExitIds) = FilledOf(orders, ExitIds \ {id}) + orders[id].filled
          /\ FilledOf(orders, ExitIds) \in Nat /\ FilledOf(orders, ExitIds \ {id}) \in Nat
          /\ orders[id].filled \in Nat /\ Bought(orders) \in Nat
      BY <1>3, OneExit
    <3> QED
      BY <1>7, <3>1, <3>2, WithExit
  <2>4. OfferedOf(orders, ExitIds) + owned <= Bought(orders) \/ \E i \in Protect : orders[i].filled > 0
    <3>1. CASE orders[id].filled = 0
      BY <1>3, <1>7, <2>1, <3>1, NoExit
    <3>2. CASE orders[id].filled # 0
      <4>1. orders[id].filled \in Nat
        BY <1>3, OneExit
      <4> QED
        BY <1>3, <3>2, <4>1
    <3> QED
      BY <3>1, <3>2
  <2>5. row \in {row, [row EXCEPT !.refused = TRUE]}
    OBVIOUS
  <2> QED
    BY <1>1, <1>3, <1>6, <1>12, <2>2, <2>3, <2>4, <2>5, FlattenSolo
<1> QED
  BY <1>8, <1>9, <1>10, <1>11, <1>12

\* A flatten is posted; a refusal is an alarm.
LEMMA PostFlattenSolo ==
  ASSUME DayInv, Solo, NEW r \in Runners, PostFlatten(r) PROVE Solo'
<1>1. UNCHANGED <<phase, actual>> /\ pc[r] = "post pf"
  BY DEF PostFlatten
<1>2. PICK id : id = <<"pf", row.pf>>
  OBVIOUS
<1>3. /\ EntryInv /\ pc[r] \in CheckSteps /\ pc[r] # "idle" /\ pc[r] \in CheckSteps \cup ExitSteps
      /\ Final(orders[Entry]) /\ Final(orders[Legs])
      /\ id \in Flatten /\ id \in ExitIds /\ id \in Ids \ {Entry}
  BY <1>1, <1>2, ExitFinds
<1>4. PICK l \in Locals : l = local[r]
  BY <1>3, CheckFinds
<1>5. PICK owned \in 1..Shares : owned = l.owned
  BY <1>1, <1>4, ExitFinds
<1>6. /\ phase \in {"due", "overdue"} /\ l.rec = row /\ ~row.done /\ ~row.checked
      /\ row.state = "submitted" /\ row \in Rows /\ orders \in [Ids -> Order]
  BY <1>3, <1>4, CheckFinds
<1>7. /\ OfferedOf(orders, ExitIds) + owned <= Bought(orders) \/ \E i \in Protect : orders[i].filled > 0
      /\ Bought(orders) <= FilledOf(orders, ExitIds \ {id}) + owned
  BY <1>1, <1>2, <1>3, <1>4, <1>5, OneAtWork DEF Relies
<1>8. PICK answer \in {"accepted", "transient", "refused"} :
        /\ Posts(id, owned, answer)
        /\ IF answer = "refused" THEN Alarm(r)
           ELSE GoesTo(r, "confirm pf") /\ UNCHANGED <<row, local>>
  BY <1>2, <1>4, <1>5, <1>6 DEF PostFlatten
<1>9. UNCHANGED orders \/ (Places(id, owned) /\ answer # "refused")
  BY <1>3, <1>8, PostsPlace
<1>10. CASE answer = "refused"
  <2>1. UNCHANGED orders
    BY <1>9, <1>10
  <2> QED
    BY <1>1, <1>3, <1>8, <1>10, <2>1, StillDrifts, LeftOpenSolo
<1>11. CASE answer # "refused"
  <2>1. UNCHANGED <<row, local>> /\ pc' = [pc EXCEPT ![r] = "confirm pf"] /\ row' = row
    BY <1>8, <1>11 DEF GoesTo
  <2>2. local' = [local EXCEPT ![r] = l]
    BY <1>3, <1>4, <2>1 DEF EntryInv, OrdersTypeOK
  <2>3. "confirm pf" \in Steps \ {"look up entry"}
    BY DEF Steps
  <2>4. ASSUME /\ Bought(orders') <= FilledOf(orders', ExitIds \ {id}) + owned
               /\ Final(orders'[Legs])
        PROVE  Relies("confirm pf", l)'
    <3>1. l.owned = owned /\ l.rec = row' /\ id = <<"pf", row'.pf>> /\ ~row'.done /\ ~row'.checked
      BY <1>2, <1>5, <1>6, <2>1
    <3> QED
      BY <2>4, <3>1 DEF Relies, Counting
  <2>5. CASE UNCHANGED orders
    <3>1. Relies("confirm pf", l)'
      <4>1. orders' = orders
        BY <2>5
      <4> QED
        BY <1>3, <1>7, <2>4, <4>1
    <3>2. Drifts /\ LegsKept
      BY <1>3, <2>5, StillDrifts
    <3> QED
      BY <1>1, <1>3, <2>1, <2>2, <2>3, <3>1, <3>2, JobGoesOn
  <2>6. CASE Places(id, owned)
    <3>1. /\ \A i \in Ids \ {id} : orders'[i] = orders[i]
          /\ Bought(orders') = Bought(orders)
      BY <1>3, <2>6, PlacesOne
    <3>2. /\ ExitIds \ {id} \in SUBSET Ids /\ Legs \in Ids \ {id} /\ id \in Protect \cup Flatten \cup TimeExit
          /\ id \notin Protect /\ id \notin TimeExit
      BY <1>3, IdFacts, ExitsAreIds
    <3>3. FilledOf(orders', ExitIds \ {id}) = FilledOf(orders, ExitIds \ {id})
      BY <1>3, <2>6, <3>2, PlacesCounts
    <3>4. Relies("confirm pf", l)'
      <4>1. Final(orders'[Legs])
        BY <1>3, <3>1, <3>2
      <4>2. Bought(orders') <= FilledOf(orders', ExitIds \ {id}) + owned
        BY <1>7, <3>1, <3>3
      <4> QED
        BY <2>4, <4>1, <4>2
    <3>5. RowKnows /\ InTurn /\ Fit /\ Over
      BY DEF Solo
    <3>6. InTurn'
      BY <1>1, <1>3, <2>6, <3>2, <3>5, PlacesInTurn
    <3>7. Fit'
      BY <1>3, <1>7, <2>6, <3>2, <3>5, PlacesFit
    <3>8. \A q \in Runners \ {r} : pc[q] = "idle"
      BY <1>3, OneAtWork
    <3>9. pc'["tick"] # "look up entry"
      <4>1. DOMAIN pc = Runners /\ "tick" \in Runners
        BY <1>3 DEF EntryInv, OrdersTypeOK, Runners
      <4> QED
        BY <2>1, <3>8, <4>1
    <3>10. RowKnows'
      <4>1. id[2] = row.pf /\ row.pf <= row.pf
        BY <1>2, <1>6, RowNumbers
      <4> QED
        BY <1>1, <1>3, <1>6, <2>1, <2>6, <3>2, <3>5, <3>9, <4>1, RowPlaces
    <3>11. Covers' /\ Over'
      BY <1>1, <1>6, <2>1, <3>5, CoversOpen, OverOpen
    <3> QED
      BY <1>3, <2>1, <2>2, <3>4, <3>6, <3>7, <3>8, <3>10, <3>11, SoloFrom
  <2> QED
    BY <1>9, <2>5, <2>6
<1> QED
  BY <1>10, <1>11

\* Only a fill is flat.
LEMMA ConfirmFlattenSolo ==
  ASSUME DayInv, Solo, NEW r \in Runners, ConfirmFlatten(r) PROVE Solo'
<1>1. UNCHANGED <<phase, orders, actual>> /\ pc[r] = "confirm pf"
  BY DEF ConfirmFlatten
<1>2. PICK id : id = <<"pf", row.pf>>
  OBVIOUS
<1>3. /\ EntryInv /\ pc[r] \in CheckSteps /\ pc[r] # "idle" /\ pc[r] \in CheckSteps \cup ExitSteps
      /\ id \in ExitIds
  BY <1>1, <1>2, ExitFinds
<1>4. PICK l \in Locals : l = local[r]
  BY <1>3, CheckFinds
<1>5. PICK owned \in 1..Shares : owned = l.owned
  BY <1>1, <1>4, ExitFinds
<1>6. /\ phase \in {"due", "overdue"} /\ l.rec = row
  BY <1>3, <1>4, CheckFinds
<1>7. Bought(orders) <= FilledOf(orders, ExitIds \ {id}) + owned
  BY <1>1, <1>2, <1>3, <1>4, <1>5, OneAtWork DEF Relies
<1>8. Alarm(r) \/ (orders[id].filled >= owned /\ Checked(r))
  BY <1>2, <1>4, <1>5, <1>6 DEF ConfirmFlatten
<1>9. CASE Alarm(r)
  BY <1>1, <1>3, <1>9, StillDrifts, LeftOpenSolo
<1>10. CASE orders[id].filled >= owned /\ Checked(r)
  <2>1. Bought(orders) <= FilledOf(orders, ExitIds)
    <3>1. owned \in Nat
      BY OrdersConstants
    <3>2. /\ FilledOf(orders, ExitIds) = FilledOf(orders, ExitIds \ {id}) + orders[id].filled
          /\ FilledOf(orders, ExitIds) \in Nat /\ FilledOf(orders, ExitIds \ {id}) \in Nat
          /\ orders[id].filled \in Nat /\ Bought(orders) \in Nat
      BY <1>3, OneExit
    <3> QED
      BY <1>7, <1>10, <3>1, <3>2, WithExit
  <2>2. phase # "entry"
    BY <1>6
  <2> QED
    BY <1>1, <1>3, <1>10, <2>1, <2>2, CheckedSolo
<1> QED
  BY <1>8, <1>9, <1>10

\* A step of a deadline check, taken alone.
LEMMA CheckSolo ==
  ASSUME DayInv, Solo, NEW r \in Runners, CheckStep(r), overlaps' = 0 PROVE Solo'
BY StartCheckSolo, ReadSolo, CancelEntrySolo, RereadSolo, JudgeSolo, CancelLegsSolo, RereadLegsSolo,
   ProtectPartSolo, PostProtectSolo, ConfirmProtectSolo, PostFlattenSolo, ConfirmFlattenSolo
   DEF CheckStep

-----------------------------------------------------------------------------
(* The time exit.                                                          *)

\* Where the tick is when it sells.
LEMMA SaleFinds ==
  ASSUME DayInv, Solo, pc["tick"] \in ExitSteps
  PROVE  /\ EntryInv /\ "tick" \in Runners /\ pc["tick"] # "idle" /\ pc["tick"] \in CheckSteps \cup ExitSteps
         /\ phase \in {"exit", "last", "closing"} /\ phase \notin Morning
         /\ T.rec = row /\ ~row.done /\ row.state = "submitted" /\ row \in Rows /\ ~row.closes
         /\ T \in Locals /\ orders \in [Ids -> Order] /\ actual = "none"
         /\ \A q \in Runners \ {"tick"} : pc[q] = "idle"
         /\ Relies(pc["tick"], T)
<1>1. EntryInv /\ "tick" \in Runners /\ pc["tick"] # "idle" /\ pc["tick"] \in CheckSteps \cup ExitSteps
  BY DEF ExitSteps, DayInv, Runners
<1>2. Relies(pc["tick"], T) /\ ~row.done /\ \A q \in Runners \ {"tick"} : pc[q] = "idle"
  BY <1>1, OneAtWork DEF T
<1>3. T.rec = row
  BY <1>1, <1>2 DEF Relies
<1>4. phase \in {"exit", "last", "closing"} /\ phase \notin Morning
  BY <1>1 DEF DayInv, InPhase, Morning
<1>5. row.state = "submitted" /\ row \in Rows /\ T \in Locals /\ orders \in [Ids -> Order]
  BY <1>1, AtWork DEF EntryInv, OrdersTypeOK, T
<1>6. ~row.closes
  BY DEF Solo, RowKnows
<1>7. actual = "none"
  BY <1>4 DEF Solo, Over
<1> QED
  BY <1>1, <1>2, <1>3, <1>4, <1>5, <1>6, <1>7

\* A sale that is left for the next tick.
LEMMA RetriedSolo ==
  ASSUME DayInv, Solo, pc["tick"] \in ExitSteps, Retried, UNCHANGED <<phase, orders, actual>>
  PROVE  Solo'
<1>1. /\ EntryInv /\ "tick" \in Runners /\ pc["tick"] \in CheckSteps \cup ExitSteps
      /\ phase \notin Morning /\ T.rec = row
  BY SaleFinds
<1>2. EndsPass("tick") /\ row' \in {row, [row EXCEPT !.notFlat = TRUE]}
  BY <1>1 DEF Retried, Saves
<1>3. Drifts /\ LegsKept
  BY <1>1, StillDrifts
<1> QED
  BY <1>1, <1>2, <1>3, JobLeaves

\* The time exit starts, of a forecast that is not done (time_exit).
LEMMA StartExitSolo ==
  ASSUME DayInv, Solo, StartExit, overlaps' = 0 PROVE Solo'
<1>1. EntryInv /\ RowKnows /\ InTurn /\ Fit /\ Covers /\ Over /\ "tick" \in Runners
  BY DEF DayInv, Solo, Runners
<1>2. /\ UNCHANGED <<orders, row, actual>> /\ phase \in {"exit", "last"} /\ phase' \in {"exit", "closing"}
      /\ row.state = "submitted" /\ ~row.done /\ Comes("tick")
      /\ pc' = [pc EXCEPT !["tick"] = "x read"]
      /\ local' = [local EXCEPT !["tick"].rec = row, !["tick"].last = (phase = "last")]
  BY DEF StartExit, GoesTo
<1>3. \A q \in Runners : pc[q] = "idle"
  BY <1>1, <1>2, ComesAlone
<1>4. PICK l : l = [local["tick"] EXCEPT !.rec = row, !.last = (phase = "last")]
  OBVIOUS
<1>5. local' = [local EXCEPT !["tick"] = l] /\ l.rec = row
  <2>1. local["tick"] \in Locals
    BY <1>1 DEF EntryInv, OrdersTypeOK
  <2> QED
    BY <1>2, <1>4, <2>1 DEF Locals
<1>6. Relies("x read", l)'
  BY <1>2, <1>5 DEF Relies, Counting, CheckSteps
<1>7. Drifts
  BY <1>1, <1>2, StillDrifts
<1>8. LegsKept
  BY <1>2 DEF LegsKept, Morning
<1>9. pc'["tick"] # "look up entry"
  <2>1. DOMAIN pc = Runners
    BY <1>1 DEF EntryInv, OrdersTypeOK
  <2> QED
    BY <1>1, <1>2, <2>1
<1>10. RowKnows'
  BY <1>1, <1>2, <1>7, <1>9, RowStays
<1>11. InTurn' /\ Fit'
  BY <1>1, <1>2, <1>7, <1>8, DriftInTurn, DriftFit DEF Morning
<1>12. Covers'
  BY <1>2, CoversOpen
<1>13. Over'
  BY <1>1, <1>2 DEF Over
<1> QED
  BY <1>1, <1>2, <1>3, <1>5, <1>6, <1>10, <1>11, <1>12, <1>13, SoloFrom

\* It reads the forecast's orders.
LEMMA ExitReadSolo ==
  ASSUME DayInv, Solo, ExitRead PROVE Solo'
<1>1. UNCHANGED <<phase, orders, actual>> /\ pc["tick"] = "x read" /\ pc["tick"] \in ExitSteps
  BY DEF ExitRead, ExitSteps
<1>2. /\ EntryInv /\ "tick" \in Runners /\ pc["tick"] \in CheckSteps \cup ExitSteps
      /\ phase \notin Morning /\ T.rec = row
  BY <1>1, SaleFinds
<1>3. CASE Retried
  BY <1>1, <1>3, RetriedSolo
<1>4. CASE Sees("tick", IF Unfinished(orders) = {} THEN "x sell" ELSE "x cancel")
  <2>1. PICK step \in {"x sell", "x cancel"} : step = IF Unfinished(orders) = {} THEN "x sell" ELSE "x cancel"
    OBVIOUS
  <2>2. Sees("tick", step)
    BY <1>4, <2>1
  <2>3. step = "x sell" => \A i \in Known(row) : ~Working(orders[i])
    BY <1>2, <2>1 DEF Unfinished
  <2> QED
    BY <1>1, <1>2, <2>1, <2>2, <2>3, SeesSolo
<1> QED
  BY <1>3, <1>4 DEF ExitRead

\* It asks for the end of what works.
LEMMA ExitCancelSolo ==
  ASSUME DayInv, Solo, ExitCancel PROVE Solo'
<1>1. /\ UNCHANGED <<phase, row, actual, local>> /\ pc["tick"] = "x cancel" /\ pc["tick"] \in ExitSteps
      /\ pc["tick"] \in Counting /\ pc' = [pc EXCEPT !["tick"] = "x reread"]
  BY DEF ExitCancel, ExitSteps, Counting, GoesTo
<1>2. PICK l : l = local["tick"]
  OBVIOUS
<1>3. /\ EntryInv /\ "tick" \in Runners /\ pc["tick"] \in CheckSteps \cup ExitSteps
      /\ phase \notin Morning /\ l.rec = row /\ ~row.done
  BY <1>1, <1>2, SaleFinds DEF T
<1>4. /\ Known(row) \subseteq Ids
      /\ \A i \in Known(row) : /\ ShapedOrder(i, l.snap[i])
                               /\ ~Working(l.snap[i]) => orders[i] = l.snap[i]
  BY <1>1, <1>2, <1>3, SnapFinds
<1>5. Drifts
  <2>1. PICK ids : Cancels(ids)
    BY DEF ExitCancel
  <2> QED
    BY <1>3, <2>1, CancelsDrift
<1>6. LegsKept
  BY <1>3 DEF LegsKept
<1>7. \A i \in Known(row) : ~Working(l.snap[i]) => orders'[i] = l.snap[i]
  <2> SUFFICES ASSUME NEW i \in Known(row), ~Working(l.snap[i]) PROVE orders'[i] = l.snap[i]
    OBVIOUS
  <2>1. orders[i] = l.snap[i] /\ i \in Ids
    BY <1>4
  <2>2. ~Working(orders[i])
    BY <2>1
  <2>3. orders'[i] = orders[i]
    BY <1>3, <1>5, <2>1, <2>2, DriftKeeps
  <2> QED
    BY <2>1, <2>3
<1>8. Known(row)' = Known(row) /\ row' = row
  BY <1>1 DEF Known
<1>9. Relies("x reread", l)'
  BY <1>3, <1>4, <1>7, <1>8 DEF Relies, CheckSteps
<1>10. local' = [local EXCEPT !["tick"] = l]
  BY <1>1, <1>2, <1>3 DEF EntryInv, OrdersTypeOK
<1>11. "x reread" \in Steps \ {"look up entry"}
  BY DEF Steps
<1> QED
  BY <1>1, <1>3, <1>5, <1>6, <1>9, <1>10, <1>11, JobGoesOn

\* It counts from reads after that, once all of it is final.
LEMMA ExitRereadSolo ==
  ASSUME DayInv, Solo, ExitReread PROVE Solo'
<1>1. /\ UNCHANGED <<phase, orders, actual>> /\ pc["tick"] = "x reread" /\ pc["tick"] \in ExitSteps
      /\ pc["tick"] \in Counting
  BY DEF ExitReread, ExitSteps, Counting
<1>2. /\ EntryInv /\ "tick" \in Runners /\ pc["tick"] \in CheckSteps \cup ExitSteps
      /\ phase \notin Morning /\ T.rec = row
  BY <1>1, SaleFinds
<1>3. CASE Retried
  BY <1>1, <1>3, RetriedSolo
<1>4. CASE /\ \A i \in Unfinished(T.snap) : Ended(orders[i])
           /\ local' = [local EXCEPT !["tick"].snap = CountedFrom]
           /\ GoesTo("tick", "x sell")
           /\ UNCHANGED row /\ NoMishap
  <2>1. Sees("tick", "x sell")
    BY <1>4 DEF Sees, CountedFrom, T
  <2>2. ASSUME NEW i \in Known(row) PROVE ~Working(orders[i])
    <3>1. CASE Working(T.snap[i])
      <4>1. Final(orders[i])
        BY <1>2, <1>4, <3>1 DEF Unfinished, Ended
      <4> QED
        BY <4>1 DEF Final, Working
    <3>2. CASE ~Working(T.snap[i])
      <4>1. orders[i] = T.snap[i]
        BY <1>1, <1>2, <3>2, SnapFinds DEF T
      <4> QED
        BY <3>2, <4>1
    <3> QED
      BY <3>1, <3>2
  <2> QED
    BY <1>1, <1>2, <2>1, <2>2, SeesSolo
<1> QED
  BY <1>3, <1>4 DEF ExitReread

\* Nothing is recorded of a close: while the jobs come one at a time none is posted.
LEMMA ExitRecordSolo ==
  ASSUME DayInv, Solo, ExitRecord PROVE Solo'
<1>1. pc["tick"] = "x record" /\ pc["tick"] \in ExitSteps
  BY DEF ExitRecord, ExitSteps
<1>2. Relies(pc["tick"], T)
  BY <1>1, SaleFinds
<1> QED
  BY <1>1, <1>2 DEF Relies

\* The sells that the tick sees are all that were placed.
LEMMA SellsSeen ==
  ASSUME EntryInv, RowKnows, T.rec = row
  PROVE  /\ Tried = row.tx
         /\ ExitsSeen \in SUBSET TimeExit
         /\ \A i \in TimeExit \ ExitsSeen : orders[i] = Never
<1>1. row \in Rows /\ ~row.closes
  BY DEF EntryInv, OrdersTypeOK, RowKnows
<1>2. row.tx \in Int
  BY <1>1, RowNumbers
<1>3. row.tx = 0 => orders[<<"tx", 1>>] = Never
  <2>1. 1 \in 1..MaxSells
    BY OrdersConstants
  <2>2. orders[<<"tx", 1>>] # Never => 1 <= row.tx
    BY <2>1, Zenon DEF RowKnows
  <2> QED
    BY <2>2
<1>4. Tried = row.tx
  BY <1>3 DEF Tried
<1>5. ExitsSeen = {i \in ExitsTried : orders[i] # Never}
  BY <1>1 DEF ExitsSeen
<1>6. ASSUME NEW i \in TimeExit, orders[i] # Never PROVE i \in ExitsTried
  <2>1. PICK n \in 1..MaxSells : i = <<"tx", n>>
    BY DEF TimeExit
  <2>2. n <= row.tx
    BY <1>6, <2>1, Zenon DEF RowKnows
  <2>3. row.tx # 0
    BY <2>1, <2>2
  <2>4. i[2] <= IF T.rec.tx = 0 THEN 1 ELSE T.rec.tx
    BY <2>1, <2>2, <2>3
  <2> QED
    BY <2>4 DEF ExitsTried
<1>7. ExitsTried \subseteq TimeExit
  BY DEF ExitsTried
<1> QED
  BY <1>4, <1>5, <1>6, <1>7

\* Two counts taken off are their sum taken off.
LEMMA TwoSales ==
  ASSUME NEW b \in Int, NEW e \in Int, NEW x \in Int PROVE b - e - x = b - (e + x)
OBVIOUS

\* What the exits have sold before the time exit, and at it.
LEMMA SaleAdds ==
  ASSUME NEW os \in [Ids -> Order], NEW S \in SUBSET TimeExit,
         \A i \in TimeExit \ S : os[i] = Never, os[Close] = Never
  PROVE  /\ FilledOf(os, ExitIds) = FilledOf(os, {Legs} \cup Protect \cup Flatten) + FilledOf(os, S)
         /\ FilledOf(os, ExitIds) \in Int /\ FilledOf(os, {Legs} \cup Protect \cup Flatten) \in Int
         /\ FilledOf(os, S) \in Int
<1> DEFINE Early == {Legs} \cup Protect \cup Flatten
<1>1. /\ Early \cup S \subseteq ExitIds /\ ExitIds \ (Early \cup S) \subseteq {Close} \cup (TimeExit \ S)
      /\ Early \cap S = {} /\ ExitIds \in SUBSET Ids /\ S \in SUBSET Ids /\ Early \in SUBSET Ids
  <2>1. ExitIds = Early \cup {Close} \cup TimeExit
    BY DEF ExitIds
  <2>2. Early \cap TimeExit = {} /\ ExitIds \in SUBSET Ids
    BY ExitsAreIds
  <2> QED
    BY <2>1, <2>2
<1>2. PICK E : E = Early
  OBVIOUS
<1>3. PICK B : B = E \cup S
  OBVIOUS
<1>4. B \in SUBSET Ids /\ B \subseteq ExitIds /\ E \in SUBSET Ids /\ E \cap S = {}
  BY <1>1, <1>2, <1>3
<1>5. \A i \in ExitIds \ B : i \in Ids /\ os[i] = Never
  BY <1>1, <1>2, <1>3
<1> HIDE DEF Early
<1>6. /\ Trades(os) \in [Ids -> 0..Shares] /\ \A i \in Ids : Trades(os)[i] = os[i].filled
      /\ FilledOf(os, E) = Counted(Trades(os), E)
      /\ FilledOf(os, S) = Counted(Trades(os), S)
      /\ FilledOf(os, ExitIds) = Counted(Trades(os), ExitIds)
  BY <1>1, <1>4, TradesTyped
<1>7. \A i \in ExitIds \ B : Trades(os)[i] = 0
  BY <1>5, <1>6 DEF Never
<1>8. Counted(Trades(os), ExitIds) = Counted(Trades(os), B)
  BY <1>1, <1>4, <1>6, <1>7, CountedPart
<1>9. Counted(Trades(os), B) = Counted(Trades(os), E) + Counted(Trades(os), S)
  BY <1>1, <1>3, <1>4, CountedUnion
<1>10. FilledOf(os, ExitIds) \in Nat /\ FilledOf(os, E) \in Nat /\ FilledOf(os, S) \in Nat
  BY <1>1, <1>4, FilledTyped
<1>11. FilledOf(os, ExitIds) = FilledOf(os, E) + FilledOf(os, S)
  BY <1>6, <1>8, <1>9
<1> QED
  BY <1>2, <1>10, <1>11 DEF Early

\* Nothing sells, and what the tick counts is what no exit has sold.
LEMMA SaleCounts ==
  ASSUME DayInv, Solo, orders[Close] = Never, pc["tick"] = "x sell",
         \A i \in ExitsSeen : ~Working(orders[i])
  PROVE  /\ \A i \in Ids : ~Working(orders[i])
         /\ Bought(T.snap) - SoldBy(T.snap, T.rec) - SoldAtExit = Bought(orders) - FilledOf(orders, ExitIds)
         /\ OfferedOf(orders, ExitIds) = FilledOf(orders, ExitIds)
         /\ FilledOf(orders, ExitIds) \in Int /\ Bought(orders) \in Int
<1>1. pc["tick"] \in ExitSteps /\ pc["tick"] \in Counting
  BY DEF ExitSteps, Counting
<1>2. /\ EntryInv /\ "tick" \in Runners /\ T.rec = row /\ orders \in [Ids -> Order]
      /\ Relies(pc["tick"], T)
  BY <1>1, SaleFinds
<1>3. RowKnows
  BY DEF Solo
<1>4. PICK s : s = T.snap
  OBVIOUS
<1>5. /\ s \in [Ids -> Order]
      /\ \A i \in Known(row) : ~Working(s[i]) => orders[i] = s[i]
  BY <1>1, <1>2, <1>4, SnapFinds DEF T
<1>6. \A i \in Known(row) : ~Working(s[i])
  BY <1>2, <1>4 DEF Relies
<1> DEFINE Early == {Legs} \cup Protect \cup Flatten
<1>7. /\ Early \in SUBSET Ids
      /\ \A i \in Early : ~Working(orders[i])
      /\ SoldBy(s, row) = FilledOf(orders, Early) /\ Bought(s) = Bought(orders)
  BY <1>2, <1>3, <1>5, <1>6, SoldSeen
<1>8. /\ ExitsSeen \in SUBSET TimeExit
      /\ \A i \in TimeExit \ ExitsSeen : orders[i] = Never
  BY <1>2, <1>3, SellsSeen
<1>9. /\ Early \cup ExitsSeen \subseteq ExitIds /\ ExitIds \ (Early \cup ExitsSeen) \subseteq {Close} \cup (TimeExit \ ExitsSeen)
      /\ Early \cap ExitsSeen = {} /\ ExitIds \in SUBSET Ids /\ ExitsSeen \in SUBSET Ids /\ Early \cup ExitsSeen \in SUBSET Ids
  <2>1. ExitIds = Early \cup {Close} \cup TimeExit
    BY DEF ExitIds
  <2>2. Early \cap TimeExit = {} /\ ExitIds \in SUBSET Ids
    BY ExitsAreIds
  <2> QED
    BY <1>8, <2>1, <2>2
<1> HIDE DEF Early
<1>10. \A i \in ExitIds \ (Early \cup ExitsSeen) : orders[i] = Never
  BY <1>8, <1>9
<1>11. ~Working(Never)
  BY DEF Working, Never
<1>12. \A i \in ExitIds : ~Working(orders[i])
  BY <1>7, <1>10, <1>11
<1>13. \A i \in Ids : ~Working(orders[i])
  <2>1. Final(orders[Entry])
    BY <1>2 DEF Relies
  <2>2. ~Working(orders[Entry])
    BY <2>1 DEF Final, Working
  <2> QED
    BY <1>12, <2>2 DEF Ids
<1>14. /\ FilledOf(orders, ExitIds) = FilledOf(orders, Early) + SoldAtExit
       /\ FilledOf(orders, ExitIds) \in Int /\ FilledOf(orders, Early) \in Int /\ SoldAtExit \in Int
  BY <1>2, <1>8, SaleAdds DEF Early, SoldAtExit
<1>19. Bought(orders) \in Int
  BY <1>2, IdFacts, FilledNumber DEF Bought
<1>20. Bought(T.snap) - SoldBy(T.snap, T.rec) - SoldAtExit = Bought(orders) - FilledOf(orders, ExitIds)
  <2>1. Bought(T.snap) - SoldBy(T.snap, T.rec) - SoldAtExit = Bought(orders) - FilledOf(orders, Early) - SoldAtExit
    BY <1>2, <1>4, <1>7
  <2>2. Bought(orders) - FilledOf(orders, Early) - SoldAtExit = Bought(orders) - FilledOf(orders, ExitIds)
    <3>1. PICK b \in Int, e \in Int, x \in Int :
            b = Bought(orders) /\ e = FilledOf(orders, Early) /\ x = SoldAtExit
      BY <1>14, <1>19, Zenon
    <3>2. b - e - x = b - (e + x)
      BY TwoSales, Zenon
    <3> QED
      BY <1>14, <3>1, <3>2, Zenon
  <2> QED
    BY <2>1, <2>2, Zenon
<1>21. OfferedOf(orders, ExitIds) = FilledOf(orders, ExitIds)
  BY <1>2, <1>9, <1>12, IdleOffers
<1> QED
  BY <1>13, <1>14, <1>19, <1>20, <1>21

\* A forecast is called done when nothing works for it and all is sold.
LEMMA SoldSolo ==
  ASSUME DayInv, Solo, pc["tick"] \in ExitSteps, UNCHANGED <<phase, orders, actual>>,
         row' = [row EXCEPT !.done = TRUE], EndsPass("tick"),
         \A i \in Ids : ~Working(orders[i]),
         Bought(orders) = FilledOf(orders, ExitIds)
  PROVE  Solo'
<1>1. /\ EntryInv /\ "tick" \in Runners /\ pc["tick"] \in CheckSteps \cup ExitSteps
      /\ phase \in {"exit", "last", "closing"} /\ phase \notin Morning
      /\ row.state = "submitted" /\ row \in Rows /\ ~row.closes /\ actual = "none"
      /\ \A q \in Runners \ {"tick"} : pc[q] = "idle"
  BY SaleFinds
<1>2. /\ row' \in Rows /\ row'.state = row.state /\ row'.checked = row.checked /\ row'.refused = row.refused
      /\ row'.px = row.px /\ row'.pf = row.pf /\ row'.tx = row.tx /\ row'.closes = row.closes
  BY <1>1 DEF Rows
<1>3. Writes
  <2>1. row.px <= row.px /\ row.pf <= row.pf /\ row.tx <= row.tx
    BY <1>1, RowNumbers
  <2> QED
    BY <1>1, <1>2, <2>1 DEF Writes
<1>4. row'.pf # 0 => /\ \A i \in Protect : ~Working(orders[i])
                     /\ row'.refused \/ row'.px = MaxTries \/ \E i \in Protect : Final(orders[i])
  BY <1>2 DEF Solo, RowKnows, Flattened
<1>5. pc' = [pc EXCEPT !["tick"] = "idle"] /\ local' = [local EXCEPT !["tick"] = Fresh]
  BY DEF EndsPass, GoesTo
<1>6. \A q \in Runners : pc'[q] = "idle"
  <2>1. DOMAIN pc = Runners
    BY <1>1 DEF EntryInv, OrdersTypeOK
  <2> QED
    BY <1>1, <1>5, <2>1
<1>7. Over'
  <2>1. orders' = orders /\ phase' = phase /\ actual' = "none" /\ row'.state = "submitted"
    BY <1>1, <1>2
  <2> QED
    BY <1>1, <1>6, <2>1 DEF Over
<1>8. Covers'
  BY <1>1, CoversOpen
<1>9. Relies("idle", Fresh)' /\ "idle" \in Steps \ {"look up entry"}
  BY IdleRelies DEF Steps
<1>10. Drifts /\ LegsKept
  BY <1>1, StillDrifts
<1>11. phase # "entry"
  BY <1>1
<1> QED
  BY <1>1, <1>3, <1>4, <1>5, <1>7, <1>8, <1>9, <1>10, <1>11, JobMoves

\* What is left is sold, once, and only what is left.
LEMMA ExitSellSolo ==
  ASSUME DayInv, Solo, orders[Close] = Never, ExitSell PROVE Solo'
<1>1. UNCHANGED <<phase, orders, actual>> /\ pc["tick"] = "x sell" /\ pc["tick"] \in ExitSteps
  BY DEF ExitSell, ExitSteps
<1>2. /\ EntryInv /\ "tick" \in Runners /\ pc["tick"] \in CheckSteps \cup ExitSteps
      /\ phase \in {"exit", "last", "closing"} /\ phase \notin Morning
      /\ T.rec = row /\ ~row.done /\ row.state = "submitted" /\ row \in Rows /\ ~row.closes
      /\ T \in Locals /\ orders \in [Ids -> Order] /\ Relies(pc["tick"], T)
  BY <1>1, SaleFinds
<1>3. RowKnows
  BY DEF Solo
<1>4. Tried = row.tx /\ row.tx \in 0..MaxSells /\ row.tx \in Int
  BY <1>2, <1>3, SellsSeen, RowNumbers DEF Rows
<1>5. [T.rec EXCEPT !.tx = Tried] = row
  BY <1>2, <1>4 DEF Rows
<1>6. PICK remaining : remaining = Bought(T.snap) - SoldBy(T.snap, T.rec) - SoldAtExit
  OBVIOUS
<1>7. PICK busy \in BOOLEAN : busy = \E i \in ExitsSeen : Working(orders[i])
  OBVIOUS
<1>8. \/ Retried
      \/ row' = [row EXCEPT !.notFlat = TRUE] /\ EndsPass("tick")
      \/ remaining = 0 /\ ~busy /\ row' = [row EXCEPT !.done = TRUE] /\ EndsPass("tick")
      \/ /\ remaining > 0 /\ ~busy /\ row.tx < MaxSells
         /\ row' = [row EXCEPT !.tx = row.tx + 1]
         /\ local' = [local EXCEPT !["tick"].rec = row', !["tick"].owned = remaining]
         /\ GoesTo("tick", "x post")
  BY <1>2, <1>4, <1>5, <1>6, <1>7 DEF ExitSell, Saves
<1>9. CASE Retried
  BY <1>1, <1>9, RetriedSolo
<1>10. CASE row' = [row EXCEPT !.notFlat = TRUE] /\ EndsPass("tick")
  BY <1>1, <1>2, <1>10, StillDrifts, JobLeaves
<1>11. ASSUME ~busy
       PROVE  /\ \A i \in Ids : ~Working(orders[i])
              /\ remaining = Bought(orders) - FilledOf(orders, ExitIds)
              /\ OfferedOf(orders, ExitIds) = FilledOf(orders, ExitIds)
              /\ FilledOf(orders, ExitIds) \in Int /\ Bought(orders) \in Int
  BY <1>1, <1>6, <1>7, <1>11, SaleCounts
<1>12. CASE remaining = 0 /\ ~busy /\ row' = [row EXCEPT !.done = TRUE] /\ EndsPass("tick")
  <2>1. Bought(orders) = FilledOf(orders, ExitIds)
    BY <1>11, <1>12
  <2> QED
    BY <1>1, <1>11, <1>12, <2>1, SoldSolo
<1>13. CASE /\ remaining > 0 /\ ~busy /\ row.tx < MaxSells
            /\ row' = [row EXCEPT !.tx = row.tx + 1]
            /\ local' = [local EXCEPT !["tick"].rec = row', !["tick"].owned = remaining]
            /\ GoesTo("tick", "x post")
  <2>1. row.tx + 1 \in 0..MaxSells /\ row.tx <= row.tx + 1
    <3>1. \A n \in Int : n \in 0..MaxSells /\ n < MaxSells => n + 1 \in 0..MaxSells /\ n <= n + 1
      BY OrdersConstants
    <3> QED
      BY <1>4, <1>13, <3>1
  <2>2. /\ row' \in Rows /\ row'.state = row.state /\ row'.checked = row.checked /\ row'.refused = row.refused
        /\ row'.px = row.px /\ row'.pf = row.pf /\ row'.tx = row.tx + 1 /\ row'.closes = row.closes
        /\ row'.done = row.done
    BY <1>2, <1>13, <2>1 DEF Rows
  <2>3. Writes
    <3>1. row.px <= row.px /\ row.pf <= row.pf
      BY <1>2, RowNumbers
    <3> QED
      BY <1>2, <2>1, <2>2, <3>1 DEF Writes
  <2>4. row'.pf # 0 => /\ \A i \in Protect : ~Working(orders[i])
                       /\ row'.refused \/ row'.px = MaxTries \/ \E i \in Protect : Final(orders[i])
    BY <1>3, <2>2 DEF RowKnows, Flattened
  <2>5. PICK next : next = [row EXCEPT !.tx = row.tx + 1]
    OBVIOUS
  <2>6. PICK m : m = [local["tick"] EXCEPT !.rec = next, !.owned = remaining]
    OBVIOUS
  <2>7. m.rec = next /\ m.owned = remaining
    BY <1>2, <2>6 DEF Locals, T
  <2>8. row' = next /\ pc' = [pc EXCEPT !["tick"] = "x post"] /\ local' = [local EXCEPT !["tick"] = m]
    BY <1>13, <2>5, <2>6 DEF GoesTo
  <2>9. ~row'.done
    BY <1>2, <2>2
  <2>10. Covers' /\ Over'
    BY <1>1, <1>2, <2>9, CoversOpen, OverOpen DEF Solo
  <2>11. Relies("x post", m)'
    <3>1. /\ Final(orders[Entry]) /\ Final(orders[Legs])
          /\ \A i \in Protect \cup Flatten : ~Working(orders[i])
      BY <1>1, <1>2 DEF Relies
    <3>2. \A i \in TimeExit : ~Working(orders[i])
      BY <1>11, <1>13, ExitsAreIds
    <3>3. OfferedOf(orders, ExitIds) + m.owned <= Bought(orders)
      BY <1>11, <1>13, <2>7, Rest
    <3>4. orders' = orders /\ m.rec = row'
      BY <1>1, <2>7, <2>8
    <3>5. OfferedOf(orders', ExitIds) + m.owned <= Bought(orders')
      BY <3>3, <3>4
    <3> QED
      BY <2>9, <3>1, <3>2, <3>4, <3>5 DEF Relies, Counting, CheckSteps
  <2>12. "x post" \in Steps \ {"look up entry"} /\ Drifts /\ LegsKept
    BY <1>1, <1>2, StillDrifts DEF Steps
  <2>13. phase # "entry"
    BY <1>2
  <2> QED
    BY <1>1, <1>2, <2>3, <2>4, <2>8, <2>10, <2>11, <2>12, <2>13, JobMoves
<1> QED
  BY <1>8, <1>9, <1>10, <1>12, <1>13

\* The part of the sum that stays.
LEMMA Within ==
  ASSUME NEW o \in Int, NEW n \in Nat, NEW b \in Int, o + n <= b PROVE o <= b
OBVIOUS

\* A time exit is posted.  On the last tick one that was not accepted is followed by
\* the close, of a forecast whose exits still fit.
LEMMA ExitPostSolo ==
  ASSUME DayInv, Solo, ExitPost PROVE Solo'
<1>1. UNCHANGED <<phase, row, actual>> /\ pc["tick"] = "x post" /\ pc["tick"] \in ExitSteps
  BY DEF ExitPost, ExitSteps
<1>2. /\ EntryInv /\ "tick" \in Runners /\ pc["tick"] \in CheckSteps \cup ExitSteps /\ pc["tick"] # "idle"
      /\ phase \in {"exit", "last", "closing"} /\ phase \notin Morning
      /\ row.state = "submitted" /\ row \in Rows /\ ~row.done
      /\ orders \in [Ids -> Order]
      /\ \A q \in Runners \ {"tick"} : pc[q] = "idle"
  BY <1>1, SaleFinds
<1>3. PICK l \in Locals : l = local["tick"]
  BY <1>1, SaleFinds DEF T
<1>4. l.rec = row /\ T = l
  BY <1>1, <1>3, SaleFinds DEF T
<1>5. /\ Final(orders[Entry]) /\ Final(orders[Legs])
      /\ \A i \in Protect \cup Flatten : ~Working(orders[i])
      /\ OfferedOf(orders, ExitIds) + l.owned <= Bought(orders)
  BY <1>1, <1>2, <1>3, OneAtWork DEF Relies
<1>6. l.rec.tx # 0 /\ l.owned # 0
  BY <1>1, <1>2, <1>3 DEF EntryInv, JobsHonest, Honest
<1>7. PICK owned \in 1..Shares : owned = l.owned
  <2>1. l.owned \in 0..Shares
    BY <1>3 DEF Locals
  <2> QED
    BY <1>6, <2>1, OrdersConstants, FromOne
<1>15. owned \in Nat /\ OfferedOf(orders, ExitIds) \in Int /\ Bought(orders) \in Int
  <2>1. ExitIds \in SUBSET Ids
    BY ExitsAreIds
  <2>2. OfferedOf(orders, ExitIds) \in Nat
    BY <2>1, CountedTyped DEF OfferedOf
  <2>3. Bought(orders) \in Int
    BY <1>2, IdFacts, FilledNumber DEF Bought
  <2>4. owned \in Nat
    BY OrdersConstants
  <2>5. OfferedOf(orders, ExitIds) \in Int
    BY <2>2
  <2> QED
    BY <2>3, <2>4, <2>5
<1>8. PICK id : id = <<"tx", row.tx>>
  OBVIOUS
<1>9. /\ id \in TimeExit /\ id \in ExitIds /\ id \in Ids \ {Entry, Legs} /\ id \notin Protect /\ id \notin Flatten
      /\ id \in Protect \cup Flatten \cup TimeExit
  <2>1. row.tx \in 0..MaxSells /\ row.tx # 0
    BY <1>2, <1>4, <1>6 DEF Rows
  <2>2. row.tx \in 1..MaxSells
    BY <2>1, OrdersConstants, FromOne
  <2> QED
    BY <1>8, <2>2, IdFacts, ExitsAreIds DEF TimeExit
<1>10. PICK answer \in {"accepted", "transient", "refused"} :
         /\ Posts(id, owned, answer)
         /\ IF answer = "accepted" \/ ~T.last THEN EndsPass("tick")
            ELSE GoesTo("tick", "x close") /\ UNCHANGED local
  BY <1>4, <1>7, <1>8 DEF ExitPost
<1>11. UNCHANGED orders \/ Places(id, owned)
  BY <1>2, <1>9, <1>10, PostsPlace
<1>12. PICK step \in {"idle", "x close"} :
         /\ pc' = [pc EXCEPT !["tick"] = step]
         /\ step = "idle" => local' = [local EXCEPT !["tick"] = Fresh]
         /\ step = "x close" => local' = [local EXCEPT !["tick"] = l]
  <2>1. CASE EndsPass("tick")
    BY <2>1 DEF EndsPass, GoesTo
  <2>2. CASE GoesTo("tick", "x close") /\ UNCHANGED local
    <3>1. local' = [local EXCEPT !["tick"] = l]
      BY <1>2, <1>3, <2>2 DEF EntryInv, OrdersTypeOK
    <3> QED
      BY <2>2, <3>1 DEF GoesTo
  <2> QED
    BY <1>10, <2>1, <2>2
<1>13. PICK m : m = IF step = "idle" THEN Fresh ELSE l
  OBVIOUS
<1>14. local' = [local EXCEPT !["tick"] = m] /\ (step = "x close" => m = l)
  BY <1>12, <1>13
<1>16. ASSUME /\ Final(orders'[Entry]) /\ Final(orders'[Legs])
              /\ \A i \in Protect \cup Flatten : ~Working(orders'[i])
              /\ OfferedOf(orders', ExitIds) <= Bought(orders')
       PROVE  Relies(step, m)'
  <2>1. CASE step = "idle"
    BY <2>1, IdleRelies
  <2>2. CASE step = "x close"
    <3>1. m.rec = row' /\ ~row'.done
      BY <1>1, <1>2, <1>4, <1>14, <2>2
    <3> QED
      BY <1>16, <2>2, <3>1 DEF Relies, Counting, CheckSteps
  <2> QED
    BY <2>1, <2>2
<1>17. CASE UNCHANGED orders
  <2>1. orders' = orders
    BY <1>17
  <2>2. OfferedOf(orders, ExitIds) <= Bought(orders)
    BY <1>5, <1>7, <1>15, Within
  <2>3. Relies(step, m)'
    BY <1>5, <1>16, <2>1, <2>2
  <2>4. step \in Steps \ {"look up entry"} /\ Drifts /\ LegsKept
    BY <1>2, <1>17, StillDrifts DEF Steps
  <2> QED
    BY <1>1, <1>2, <1>12, <1>14, <2>3, <2>4, JobGoesOn
<1>18. CASE Places(id, owned)
  <2>1. /\ \A i \in Ids \ {id} : orders'[i] = orders[i]
        /\ Bought(orders') = Bought(orders)
    BY <1>2, <1>9, <1>18, PlacesOne
  <2>2. ExitIds \in SUBSET Ids /\ Entry \in Ids \ {id} /\ Legs \in Ids \ {id} /\ Protect \cup Flatten \subseteq Ids \ {id}
    BY <1>9, IdFacts, ExitsAreIds
  <2>3. OfferedOf(orders', ExitIds) = OfferedOf(orders, ExitIds) + owned
    BY <1>2, <1>9, <1>18, <2>2, PlacesCounts
  <2>4. Relies(step, m)'
    <3>1. Final(orders'[Entry]) /\ Final(orders'[Legs]) /\ \A i \in Protect \cup Flatten : ~Working(orders'[i])
      BY <1>5, <2>1, <2>2
    <3>2. OfferedOf(orders', ExitIds) <= Bought(orders')
      BY <1>5, <1>7, <2>1, <2>3
    <3> QED
      BY <1>16, <3>1, <3>2
  <2>5. RowKnows /\ InTurn /\ Fit /\ Over
    BY DEF Solo
  <2>6. InTurn'
    BY <1>1, <1>2, <1>5, <1>9, <1>18, <2>5, PlacesInTurn
  <2>7. Fit'
    BY <1>2, <1>5, <1>7, <1>9, <1>18, <2>5, PlacesFit
  <2>8. pc'["tick"] # "look up entry"
    <3>1. DOMAIN pc = Runners
      BY <1>2 DEF EntryInv, OrdersTypeOK
    <3> QED
      BY <1>2, <1>12, <3>1
  <2>9. RowKnows'
    <3>1. id[2] = row.tx /\ row.tx <= row.tx
      BY <1>2, <1>8, RowNumbers
    <3> QED
      BY <1>1, <1>2, <1>9, <1>18, <2>5, <2>8, <3>1, RowPlaces
  <2>10. Covers' /\ Over'
    BY <1>1, <1>2, <2>5, CoversOpen, OverOpen
  <2> QED
    BY <1>2, <1>12, <1>14, <2>4, <2>6, <2>7, <2>9, <2>10, SoloFrom
<1> QED
  BY <1>11, <1>17, <1>18

\* Exits that offer no more than was bought, of which all is sold, have ended.
LEMMA AllSold ==
  ASSUME EntryInv, orders[Legs].status # "held", OfferedOf(orders, ExitIds) <= Bought(orders),
         Bought(orders) <= FilledOf(orders, ExitIds)
  PROVE  /\ \A i \in ExitIds : ~Working(orders[i])
         /\ Bought(orders) = FilledOf(orders, ExitIds)
<1>1. ExitIds \in SUBSET Ids /\ orders \in [Ids -> Order]
  BY ExitsAreIds DEF EntryInv, OrdersTypeOK
<1>2. ASSUME NEW i \in ExitIds PROVE orders[i].filled <= OfferedBy(orders[i])
  <2>1. i \in Ids /\ orders[i] \in Order
    BY <1>1
  <2>2. orders[i].filled <= orders[i].qty /\ orders[i].filled <= orders[i].filled
    <3>1. ShapedOrder(i, orders[i])
      BY <2>1 DEF EntryInv, Shaped
    <3>2. orders[i].filled \in Int
      BY <2>1, FilledNumber
    <3> QED
      BY <3>1, <3>2 DEF ShapedOrder
  <2> QED
    BY <2>2 DEF OfferedBy
<1>3. ASSUME NEW S \in SUBSET ExitIds PROVE FilledOf(orders, S) <= OfferedOf(orders, S)
  <2>1. S \in SUBSET Ids
    BY <1>1
  <2>2. /\ Trades(orders) \in [Ids -> 0..Shares] /\ Offers(orders) \in [Ids -> 0..Shares]
        /\ \A i \in Ids : Trades(orders)[i] = orders[i].filled /\ Offers(orders)[i] = OfferedBy(orders[i])
        /\ FilledOf(orders, S) = Counted(Trades(orders), S)
    BY <1>1, <2>1, TradesTyped
  <2>3. \A i \in S : Trades(orders)[i] <= Offers(orders)[i]
    BY <1>2, <2>1, <2>2
  <2>4. Counted(Trades(orders), S) <= Counted(Offers(orders), S)
    BY <2>1, <2>2, <2>3, CountedMonotone
  <2> QED
    BY <2>2, <2>4 DEF OfferedOf
<1>4. FilledOf(orders, ExitIds) <= OfferedOf(orders, ExitIds)
  BY <1>3
<1>5. FilledOf(orders, ExitIds) \in Nat /\ OfferedOf(orders, ExitIds) \in Nat /\ Bought(orders) \in Nat
  <2>1. Legs \in ExitIds
    BY ExitsAreIds
  <2> QED
    BY <2>1, OneExit
<1>6. Bought(orders) = FilledOf(orders, ExitIds) /\ OfferedOf(orders, ExitIds) = FilledOf(orders, ExitIds)
  BY <1>4, <1>5
<1>7. ASSUME NEW i \in ExitIds, Working(orders[i]) PROVE FALSE
  <2>1. i \in Ids /\ orders[i] \in Order /\ ShapedOrder(i, orders[i])
    BY <1>1 DEF EntryInv, Shaped
  <2>2. orders[i].status \in {"working", "canceling"}
    BY <1>7, <2>1 DEF Working, ShapedOrder
  <2>3. orders[i].filled < OfferedBy(orders[i])
    BY <2>1, <2>2 DEF OfferedBy, ShapedOrder
  <2>4. /\ FilledOf(orders, ExitIds) = FilledOf(orders, ExitIds \ {i}) + orders[i].filled
        /\ OfferedOf(orders, ExitIds) = OfferedOf(orders, ExitIds \ {i}) + OfferedBy(orders[i])
        /\ FilledOf(orders, ExitIds \ {i}) \in Nat /\ OfferedOf(orders, ExitIds \ {i}) \in Nat
        /\ orders[i].filled \in Nat /\ OfferedBy(orders[i]) \in Nat
    BY OneExit
  <2>5. FilledOf(orders, ExitIds \ {i}) <= OfferedOf(orders, ExitIds \ {i})
    BY <1>3
  <2>6. \A a, b, c, d \in Nat : a + b = c + d /\ a <= c => ~(b < d)
    OBVIOUS
  <2> QED
    BY <1>6, <2>3, <2>4, <2>5, <2>6
<1> QED
  BY <1>6, <1>7

\* The last resort: what is flat is done; otherwise a close is posted, or nothing.
LEMMA ExitCloseSolo ==
  ASSUME DayInv, Solo, ExitClose, orders[Close] = Never, orders'[Close] = Never PROVE Solo'
<1>1. UNCHANGED <<phase, actual>> /\ pc["tick"] = "x close" /\ pc["tick"] \in ExitSteps
  BY DEF ExitClose, ExitSteps
<1>2. /\ EntryInv /\ "tick" \in Runners /\ T.rec = row /\ orders \in [Ids -> Order]
  BY <1>1, SaleFinds
<1>3. /\ Final(orders[Entry]) /\ Final(orders[Legs])
      /\ OfferedOf(orders, ExitIds) <= Bought(orders)
  BY <1>1, SaleFinds DEF Relies
<1>4. CASE Position <= 0 /\ Saves("tick", [T.rec EXCEPT !.done = TRUE]) /\ EndsPass("tick") /\ UNCHANGED orders
  <2>1. Bought(orders) <= FilledOf(orders, ExitIds)
    <3>1. Legs \in ExitIds
      BY ExitsAreIds
    <3>2. FilledOf(orders, ExitIds) \in Nat /\ Bought(orders) \in Nat
      BY <1>2, <3>1, OneExit
    <3>3. OthersShares + Bought(orders) - FilledOf(orders, ExitIds) <= 0
      BY <1>4 DEF Position
    <3>4. \A a, b, c \in Nat : a + b - c <= 0 => b <= c
      OBVIOUS
    <3> QED
      BY <3>2, <3>3, <3>4, OrdersConstants
  <2>2. orders[Legs].status # "held"
    BY <1>3 DEF Final
  <2>3. /\ \A i \in ExitIds : ~Working(orders[i])
        /\ Bought(orders) = FilledOf(orders, ExitIds)
    BY <1>2, <1>3, <2>1, <2>2, AllSold
  <2>4. \A i \in Ids : ~Working(orders[i])
    <3>1. ~Working(orders[Entry])
      BY <1>3 DEF Final, Working
    <3> QED
      BY <2>3, <3>1 DEF Ids
  <2>5. row' = [row EXCEPT !.done = TRUE]
    BY <1>2, <1>4 DEF Saves
  <2> QED
    BY <1>1, <1>4, <2>3, <2>4, <2>5, SoldSolo
<1>5. CASE \E answer \in {"accepted", "transient", "refused"} :
             /\ Posts(Close, IF Position < T.owned THEN Position ELSE T.owned, answer)
             /\ IF answer = "accepted" THEN GoesTo("tick", "x record") /\ UNCHANGED <<row, local>> ELSE Retried
  <2>0. PICK qty : qty = IF Position < T.owned THEN Position ELSE T.owned
    OBVIOUS
  <2>1. PICK answer \in {"accepted", "transient", "refused"} :
             /\ Posts(Close, qty, answer)
             /\ answer # "accepted" => Retried
    BY <1>5, <2>0
  <2>2. Close \in Ids \ {Entry}
    BY IdFacts
  <2>3. ~Places(Close, qty)
    <3>1. CASE Places(Close, qty)
      <4>1. orders'[Close].status = "working"
        BY <1>2, <2>2, <3>1 DEF Places
      <4> QED
        BY <4>1 DEF Never
    <3> QED
      BY <3>1
  <2>4. UNCHANGED orders /\ answer # "accepted"
    BY <1>2, <2>1, <2>2, <2>3, PostsPlace
  <2> QED
    BY <1>1, <2>1, <2>4, RetriedSolo
<1> QED
  BY <1>4, <1>5 DEF ExitClose

\* A step of the time exit, taken alone.
LEMMA ExitSolo ==
  ASSUME DayInv, Solo, ExitStep, overlaps' = 0, orders[Close] = Never, orders'[Close] = Never PROVE Solo'
BY StartExitSolo, ExitReadSolo, ExitCancelSolo, ExitRereadSolo, ExitSellSolo, ExitPostSolo, ExitCloseSolo,
   ExitRecordSolo DEF ExitStep

-----------------------------------------------------------------------------
(* The whole, while the jobs come one at a time.                           *)

\* A day starts without orders.
LEMMA SoloInit == OrdersInit => SoloInv
<1> SUFFICES ASSUME OrdersInit PROVE SoloInv
  OBVIOUS
<1>1. EntryInv
  BY EntryInit
<1>2. /\ phase = "entry" /\ orders = Unread /\ row = NoRow /\ actual = "none"
      /\ \A r \in Runners : pc[r] = "idle"
  BY DEF OrdersInit
<1>3. \A i \in Ids : orders[i] = Never
  BY <1>2 DEF Unread
<1>4. orders[Close] = Never /\ orders[Entry] = Never /\ orders[Legs] = Never
  BY <1>3, IdFacts
<1>5. DayInv
  <2>1. \A r \in Runners : InPhase(pc[r])
    BY <1>2 DEF InPhase, CheckSteps, ExitSteps
  <2> QED
    BY <1>1, <1>4, <2>1 DEF DayInv
<1>6. \A r \in Runners : Relies(pc[r], local[r])
  BY <1>2, IdleRelies
<1>7. /\ row.state = "none" /\ ~row.checked /\ ~row.done /\ ~row.closes
      /\ row.px = 0 /\ row.pf = 0 /\ row.tx = 0
  BY <1>2 DEF NoRow
<1>8. RowKnows
  <2>1. /\ \A n \in 1..MaxTries : orders[<<"px", n>>] = Never /\ orders[<<"pf", n>>] = Never
        /\ \A n \in 1..MaxSells : orders[<<"tx", n>>] = Never
    BY <1>3, IdFacts
  <2>2. pc["tick"] # "look up entry"
    BY <1>2 DEF Runners
  <2>3. Flattened(row)
    BY <1>7 DEF Flattened
  <2> QED
    BY <1>2, <1>7, <2>1, <2>2, <2>3 DEF RowKnows
<1>9. InTurn
  <2>1. ~Final(Never) /\ Never.status = "none"
    BY DEF Final, Never
  <2>2. Protect \cup Flatten \cup TimeExit \subseteq Ids
    BY ExitsAreIds
  <2>3. \A i \in Protect \cup Flatten \cup TimeExit : orders[i] = Never
    BY <1>3, <2>2
  <2> QED
    BY <1>4, <2>1, <2>3 DEF InTurn
<1>10. Fit
  <2>1. orders \in [Ids -> Order] /\ \A i \in ExitIds \ {Legs} : orders[i] = Never
    BY <1>1, <1>3, ExitsAreIds DEF EntryInv, OrdersTypeOK
  <2>2. OfferedBy(orders[Legs]) = 0 /\ Bought(orders) = 0
    BY <1>4 DEF OfferedBy, Bought, Never
  <2>3. Legs \in ExitIds /\ Legs \in ExitIds \ Flatten /\ ExitIds \ Flatten \in SUBSET ExitIds /\ ExitIds \in SUBSET ExitIds
    BY ExitsAreIds
  <2>4. OfferedOf(orders, ExitIds) = 0
    BY <2>1, <2>2, <2>3, LegsAlone
  <2>5. OfferedOf(orders, ExitIds \ Flatten) = 0
    BY <2>1, <2>2, <2>3, LegsAlone
  <2> QED
    BY <2>2, <2>4, <2>5 DEF Fit
<1>11. Covers /\ Over
  BY <1>2, <1>7 DEF Covers, Over
<1>12. Solo
  BY <1>2, <1>6, <1>8, <1>9, <1>10, <1>11 DEF Solo, Runners
<1> QED
  BY <1>5, <1>12 DEF SoloInv

\* Who comes to a forecast at which no jobs have met, they had not met before.
LEMMA ComesFirst ==
  ASSUME EntryInv, NEW r \in Runners, Comes(r), overlaps' = 0 PROVE overlaps = 0
<1>1. overlaps \in Nat
  BY OrdersConstants DEF EntryInv, OrdersTypeOK
<1>2. overlaps + 1 # 0
  BY <1>1
<1> QED
  BY <1>2 DEF Comes

\* A step of a deadline check keeps it.
LEMMA CheckKeeps ==
  ASSUME SoloInv, NEW r \in Runners, CheckStep(r) PROVE SoloInv'
<1>1. DayInv
  BY DEF SoloInv
<1>2. /\ DayInv' /\ (orders'[Close] = Never <=> orders[Close] = Never)
      /\ overlaps' # overlaps => StartCheck(r)
  BY <1>1, CheckDay
<1>3. ASSUME OneByOne' PROVE Solo'
  <2>1. overlaps' = 0 /\ orders[Close] = Never
    BY <1>2, <1>3 DEF OneByOne
  <2>2. overlaps = 0
    <3>1. CASE overlaps' = overlaps
      BY <2>1, <3>1
    <3>2. CASE StartCheck(r)
      BY <1>1, <2>1, <3>2, ComesFirst DEF StartCheck, DayInv
    <3> QED
      BY <1>2, <3>1, <3>2
  <2>3. Solo
    BY <2>1, <2>2 DEF SoloInv, OneByOne
  <2> QED
    BY <1>1, <2>1, <2>3, CheckSolo
<1> QED
  BY <1>2, <1>3 DEF SoloInv

\* So does one of the time exit, where the close ends the claim.
LEMMA ExitKeeps ==
  ASSUME SoloInv, ExitStep PROVE SoloInv'
<1>1. DayInv /\ "tick" \in Runners
  BY DEF SoloInv, Runners
<1>2. /\ DayInv' /\ (orders[Close] # Never => orders'[Close] # Never)
      /\ overlaps' # overlaps => StartExit
  BY <1>1, ExitDay
<1>3. ASSUME OneByOne' PROVE Solo'
  <2>1. overlaps' = 0 /\ orders[Close] = Never /\ orders'[Close] = Never
    BY <1>2, <1>3 DEF OneByOne
  <2>2. overlaps = 0
    <3>1. CASE overlaps' = overlaps
      BY <2>1, <3>1
    <3>2. CASE StartExit
      BY <1>1, <2>1, <3>2, ComesFirst DEF StartExit, DayInv
    <3> QED
      BY <1>2, <3>1, <3>2
  <2>3. Solo
    BY <2>1, <2>2 DEF SoloInv, OneByOne
  <2> QED
    BY <1>1, <2>1, <2>3, ExitSolo
<1> QED
  BY <1>2, <1>3 DEF SoloInv

\* So does one of the submission.
LEMMA SubmitKeeps ==
  ASSUME SoloInv, SubmitStep PROVE SoloInv'
<1>1. DayInv /\ "tick" \in Runners
  BY DEF SoloInv, Runners
<1>2. /\ DayInv' /\ orders'[Close] = orders[Close]
      /\ overlaps' # overlaps => StartSubmit
  BY <1>1, SubmitDay
<1>3. ASSUME OneByOne' PROVE Solo'
  <2>1. overlaps' = 0 /\ orders[Close] = Never
    BY <1>2, <1>3 DEF OneByOne
  <2>2. overlaps = 0
    <3>1. CASE overlaps' = overlaps
      BY <2>1, <3>1
    <3>2. CASE StartSubmit
      BY <1>1, <2>1, <3>2, ComesFirst DEF StartSubmit, DayInv
    <3> QED
      BY <1>2, <3>1, <3>2
  <2>3. Solo
    BY <2>1, <2>2 DEF SoloInv, OneByOne
  <2> QED
    BY <1>1, <2>1, <2>3, StartSubmitSolo, PostEntrySolo, RecordEntrySolo DEF SubmitStep
<1> QED
  BY <1>2, <1>3 DEF SoloInv

\* So do the broker, the clock and the reconciliation.
LEMMA OutsideKeeps ==
  ASSUME SoloInv, TimePasses \/ Broker \/ Reconcile PROVE SoloInv'
<1>1. DayInv
  BY DEF SoloInv
<1>2. /\ DayInv' /\ overlaps' = overlaps
      /\ orders'[Close] = Never <=> orders[Close] = Never
  BY <1>1, OutsideDay
<1>3. ASSUME OneByOne' PROVE Solo'
  <2>1. overlaps = 0 /\ orders[Close] = Never
    BY <1>2, <1>3 DEF OneByOne
  <2>2. Solo
    BY <2>1 DEF SoloInv, OneByOne
  <2>3. CASE TimePasses
    BY <1>1, <2>2, <2>3, TimeSolo
  <2>4. CASE Reconcile
    BY <1>1, <2>1, <2>2, <2>4, ReconcileSolo
  <2>5. CASE Broker
    <3>1. PICK i \in Ids : Fills(i) \/ Stops(i, "canceled") \/ Stops(i, "rejected")
      BY <2>5 DEF Broker
    <3>2. Fills(i) \/ \E status \in {"canceled", "rejected"} : Stops(i, status)
      BY <3>1
    <3>3. CASE i = Entry
      <4>1. orders' \in [Ids -> Order]
        BY <1>2 DEF DayInv, EntryInv, OrdersTypeOK
      <4> QED
        BY <1>1, <2>1, <2>2, <3>2, <3>3, <4>1, EntrySolo
    <3>4. CASE i # Entry
      BY <1>1, <2>2, <3>2, <3>4, ExitOrdersSolo
    <3> QED
      BY <3>3, <3>4
  <2> QED
    BY <2>3, <2>4, <2>5
<1> QED
  BY <1>2, <1>3 DEF SoloInv

\* So does the death of a job.
LEMMA DiesKeeps ==
  ASSUME SoloInv, NEW r \in Runners, Dies(r) PROVE SoloInv'
<1>1. DayInv
  BY DEF SoloInv
<1>2. DayInv' /\ UNCHANGED <<orders, overlaps>>
  BY <1>1, DiesDay
<1>3. ASSUME OneByOne' PROVE Solo'
  <2>1. Solo
    BY <1>2, <1>3 DEF SoloInv, OneByOne
  <2> QED
    BY <1>1, <2>1, DiesSolo
<1> QED
  BY <1>2, <1>3 DEF SoloInv

\* And a step that changes nothing.
LEMMA StutterKeeps ==
  ASSUME SoloInv, UNCHANGED orderVars PROVE SoloInv'
<1>1. DayInv /\ EntryInv
  BY DEF SoloInv, DayInv
<1>2. UNCHANGED <<phase, orders, row, actual, pc, local, overlaps>>
  BY DEF orderVars
<1>3. EntryInv'
  BY <1>1, EntryStep
<1>4. DayInv'
  BY <1>1, <1>2, <1>3 DEF DayInv, InPhase
<1>5. ASSUME OneByOne' PROVE Solo'
  <2>1. Solo
    BY <1>2, <1>5 DEF SoloInv, OneByOne
  <2>2. Drifts /\ Works /\ LegsKept
    BY <1>1, <1>2, StillDrifts
  <2>3. UNCHANGED <<row, pc, local, actual>> /\ phase' = phase
    BY <1>2
  <2> QED
    BY <1>1, <2>1, <2>2, <2>3, SoloDrifts
<1> QED
  BY <1>4, <1>5 DEF SoloInv

\* Every step keeps it.
LEMMA SoloStep == SoloInv /\ [OrdersNext]_orderVars => SoloInv'
<1> SUFFICES ASSUME SoloInv, [OrdersNext]_orderVars PROVE SoloInv'
  OBVIOUS
<1>1. CASE TimePasses \/ Broker \/ Reconcile
  BY <1>1, OutsideKeeps
<1>2. CASE SubmitStep
  BY <1>2, SubmitKeeps
<1>3. CASE ExitStep
  BY <1>3, ExitKeeps
<1>4. CASE \E r \in Runners : CheckStep(r) \/ Dies(r)
  BY <1>4, CheckKeeps, DiesKeeps
<1>5. CASE UNCHANGED orderVars
  BY <1>5, StutterKeeps
<1> QED
  BY <1>1, <1>2, <1>3, <1>4, <1>5 DEF OrdersNext

\* What the row calls done is over at the broker.
LEMMA DoneIsOver == SoloInv => DoneHolds
<1> SUFFICES ASSUME SoloInv PROVE DoneHolds
  OBVIOUS
<1>1. row.done /\ OneByOne =>
        /\ \A i \in Ids : ~Working(orders[i])
        /\ Bought(orders) = FilledOf(orders, ExitIds)
        /\ actual # "none" => actual = IF Bought(orders) = 0 THEN "NO_FILL" ELSE "CLOSED"
  BY DEF SoloInv, Solo, Over
<1> QED
  BY <1>1 DEF DoneHolds, DoneIsFlat, DoneIsSettled, OneByOne

\* What exits sell and work on is what they offer.
LEMMA ClaimsOffered ==
  ASSUME EntryInv, NEW S \in SUBSET ExitIds
  PROVE  ClaimOf(S) + FilledOf(orders, S) = OfferedOf(orders, S)
<1>1. S \in SUBSET Ids /\ orders \in [Ids -> Order]
  BY ExitsAreIds DEF EntryInv, OrdersTypeOK
<1>2. PICK claimed : claimed = {share \in S \X (1..Shares) : Claims(orders[share[1]], share[2])}
  OBVIOUS
<1>3. PICK sold : sold = {share \in S \X (1..Shares) : share[2] <= orders[share[1]].filled}
  OBVIOUS
<1>4. PICK offered : offered = Pile(Offers(orders), S)
  OBVIOUS
<1>5. ASSUME NEW share \in S \X (1..Shares)
      PROVE  /\ share \in offered <=> share \in claimed \/ share \in sold
             /\ ~(share \in claimed /\ share \in sold)
  <2>1. PICK i \in S, n \in 1..Shares : share = <<i, n>> /\ i = share[1] /\ n = share[2]
    BY <1>5
  <2>2. PICK o \in Order : o = orders[i] /\ ShapedOrder(i, o)
    BY <1>1 DEF EntryInv, Shaped
  <2>3. /\ share \in claimed <=> Claims(o, n)
        /\ share \in sold <=> n <= o.filled
        /\ share \in offered <=> n <= OfferedBy(o)
    <3>1. Offers(orders)[i] = OfferedBy(o)
      BY <1>1, <2>2, TradesTyped
    <3> QED
      BY <1>2, <1>3, <1>4, <2>1, <2>2, <3>1 DEF Pile
  <2>4. n \in Int /\ o.filled \in Int /\ o.qty \in Int /\ o.filled <= o.qty
    BY <2>2, FilledNumber, OrdersConstants DEF ShapedOrder
  <2>5. CASE o.status \in {"working", "canceling"}
    <3>1. OfferedBy(o) = o.qty /\ (Claims(o, n) <=> o.filled < n /\ n <= o.qty)
      BY <2>5 DEF OfferedBy, Claims
    <3> QED
      BY <2>3, <2>4, <3>1
  <2>6. CASE o.status \notin {"working", "canceling"}
    <3>1. OfferedBy(o) = o.filled /\ ~Claims(o, n)
      BY <2>6 DEF OfferedBy, Claims
    <3> QED
      BY <2>3, <3>1
  <2> QED
    BY <2>5, <2>6
<1>6. claimed \subseteq S \X (1..Shares) /\ sold \subseteq S \X (1..Shares) /\ offered \subseteq S \X (1..Shares)
  BY <1>2, <1>3, <1>4 DEF Pile
<1>7. offered = claimed \cup sold /\ claimed \cap sold = {}
  BY <1>5, <1>6
<1>8. IsFiniteSet(offered)
  BY <1>1, <1>4, CountedTyped
<1>9. IsFiniteSet(claimed) /\ IsFiniteSet(sold)
  BY <1>7, <1>8, FS_Subset
<1>10. Cardinality(claimed \cup sold) = Cardinality(claimed) + Cardinality(sold) - Cardinality(claimed \cap sold)
  BY <1>9, FS_Union
<1>11. Cardinality(claimed \cap sold) = 0
  BY <1>7, FS_EmptySet
<1>12. PICK m \in Nat, n \in Nat : m = Cardinality(claimed) /\ n = Cardinality(sold)
  BY <1>9, FS_CardinalityType
<1>13. m + n - 0 = m + n
  OBVIOUS
<1>14. Cardinality(offered) = m + n
  BY <1>7, <1>10, <1>11, <1>12, <1>13, Zenon
<1>15. ClaimOf(S) = m /\ FilledOf(orders, S) = n /\ OfferedOf(orders, S) = Cardinality(offered)
  BY <1>2, <1>3, <1>4, <1>12 DEF ClaimOf, FilledOf, OfferedOf, Counted
<1> QED
  BY <1>14, <1>15, Zenon

\* Legs that work are the one exit there is, and have what they have not sold left.
LEMMA LegsLeave ==
  ASSUME DayInv, Solo, phase \in Morning, Final(orders[Entry]), orders[Legs].status = "working"
  PROVE  orders[Legs].qty - orders[Legs].filled = Bought(orders) - FilledOf(orders, ExitIds)
<1>1. ~Final(orders[Legs])
  BY DEF Final
<1>2. orders[Close] = Never /\ EntryInv
  BY DEF DayInv
<1>3. \A i \in ExitIds \ {Legs} : orders[i] = Never
  BY <1>1, <1>2 DEF Solo, InTurn, ExitIds
<1>4. orders \in [Ids -> Order]
  BY <1>2 DEF EntryInv, OrdersTypeOK
<1>5. FilledOf(orders, ExitIds) = orders[Legs].filled
  BY <1>3, <1>4, ExitsAreIds, LegsAlone
<1>6. orders[Legs].qty = Bought(orders)
  BY DEF Solo, InTurn
<1> QED
  BY <1>5, <1>6

\* So has a protective exit that works, after the legs.
LEMMA ProtectLeaves ==
  ASSUME DayInv, Solo, phase \in Morning, NEW i \in Protect, orders[i].status = "working"
  PROVE  orders[i].qty - orders[i].filled = Bought(orders) - FilledOf(orders, ExitIds)
<1>0. ExitIds \in SUBSET Ids /\ Legs \in ExitIds /\ Legs \in Ids /\ i \in ExitIds /\ i \in Ids /\ i # Legs
  BY ExitsAreIds, IdFacts
<1>1. orders[i] # Never /\ Working(orders[i])
  BY DEF Never, Working
<1>2. orders[Close] = Never /\ EntryInv
  BY DEF DayInv
<1>3. orders[i].qty + orders[Legs].filled = Bought(orders) /\ \A j \in Protect \ {i} : orders[j] = Never
  BY <1>1 DEF Solo, InTurn
<1>4. \A j \in TimeExit : orders[j] = Never
  BY DEF Solo, InTurn
<1>5. row.pf = 0
  BY <1>1 DEF Solo, RowKnows, Flattened
<1>6. ASSUME NEW j \in Flatten PROVE orders[j] = Never
  <2>1. PICK n \in 1..MaxTries : j = <<"pf", n>>
    BY DEF Flatten
  <2>2. orders[j] # Never => n <= row.pf
    BY <2>1, Zenon DEF Solo, RowKnows
  <2>3. ~(n <= 0)
    BY <2>1
  <2> QED
    BY <1>5, <2>2, <2>3
<1>7. \A j \in ExitIds \ {Legs, i} : orders[j] = Never
  BY <1>2, <1>3, <1>4, <1>6 DEF ExitIds
<1>8. orders \in [Ids -> Order]
  BY <1>2 DEF EntryInv, OrdersTypeOK
<1>9. /\ FilledOf(orders, ExitIds) = FilledOf(orders, ExitIds \ {i}) + orders[i].filled
      /\ orders[i].filled \in Nat
  BY <1>0, <1>2, OneExit
<1>10. FilledOf(orders, ExitIds \ {i}) = orders[Legs].filled
  <2>1. {Legs} \in SUBSET Ids /\ ExitIds \ {i} \in SUBSET Ids /\ {Legs} \subseteq ExitIds \ {i}
    BY <1>0
  <2>2. /\ Trades(orders) \in [Ids -> 0..Shares] /\ \A j \in Ids : Trades(orders)[j] = orders[j].filled
        /\ FilledOf(orders, ExitIds \ {i}) = Counted(Trades(orders), ExitIds \ {i})
    BY <1>8, <2>1, TradesTyped
  <2>3. \A j \in (ExitIds \ {i}) \ {Legs} : Trades(orders)[j] = 0
    <3> SUFFICES ASSUME NEW j \in (ExitIds \ {i}) \ {Legs} PROVE Trades(orders)[j] = 0
      OBVIOUS
    <3>1. j \in Ids /\ orders[j] = Never
      BY <1>0, <1>7
    <3> QED
      BY <2>2, <3>1 DEF Never
  <2>4. Counted(Trades(orders), ExitIds \ {i}) = Counted(Trades(orders), {Legs})
    BY <2>1, <2>2, <2>3, CountedPart
  <2>5. Counted(Trades(orders), {Legs}) = orders[Legs].filled
    BY <1>0, <2>2, CountedOne
  <2> QED
    BY <2>2, <2>4, <2>5
<1>11. orders[i].qty \in Int /\ orders[i].filled \in Int /\ orders[Legs].filled \in Int
  BY <1>0, <1>8, FilledNumber
<1>12. \A q, f, g \in Int : q - f = (q + g) - (g + f)
  OBVIOUS
<1> QED
  BY <1>3, <1>9, <1>10, <1>11, <1>12

\* While no two jobs have met in it, what a done deadline step leaves is sold or is
\* worked on by one exit of exactly that size, or that exit was rejected.
LEMMA AloneIsCovered == SoloInv /\ overlaps = 0 => CheckedIsCovered
<1> SUFFICES ASSUME SoloInv, overlaps = 0, phase \in {"due", "overdue"}, row.checked
             PROVE  CheckedIsCovered
  BY DEF CheckedIsCovered
<1>1. DayInv /\ EntryInv /\ phase \in Morning
  BY DEF SoloInv, DayInv, Morning
<1>2. Solo
  BY <1>1 DEF SoloInv, DayInv, OneByOne
<1>3. Final(orders[Entry])
  BY <1>1 DEF EntryInv, RowTrue
<1>4. Legs \in ExitIds /\ Protect \subseteq ExitIds
  BY ExitsAreIds
<1> DEFINE open == Bought(orders) - FilledOf(orders, ExitIds)
<1>5. \/ open <= 0
      \/ \E i \in ExitIds : Working(orders[i]) /\ Remaining(orders[i]) = open
      \/ \E i \in ExitIds : orders[i].status = "rejected"
  <2>1. \/ Bought(orders) <= FilledOf(orders, ExitIds)
        \/ orders[Legs].status = "working"
        \/ \E i \in Protect : orders[i].status = "working"
        \/ \E i \in ExitIds : orders[i].status = "rejected"
    BY <1>2 DEF Solo, Covers
  <2>2. CASE Bought(orders) <= FilledOf(orders, ExitIds)
    <3>1. FilledOf(orders, ExitIds) \in Nat /\ Bought(orders) \in Nat
      BY <1>1, <1>4, OneExit
    <3> QED
      BY <2>2, <3>1
  <2>3. CASE orders[Legs].status = "working"
    BY <1>1, <1>2, <1>3, <1>4, <2>3, LegsLeave DEF Working, Remaining
  <2>4. CASE \E i \in Protect : orders[i].status = "working"
    BY <1>1, <1>2, <1>4, <2>4, ProtectLeaves DEF Working, Remaining
  <2> QED
    BY <2>1, <2>2, <2>3, <2>4
<1> QED
  BY <1>5 DEF CheckedIsCovered

\* No share is offered twice.
LEMMA OfferedOnce == SoloInv => OneExitPerShare
<1> SUFFICES ASSUME SoloInv, overlaps = 0, orders[Close] = Never
             PROVE  OneExitPerShare
  BY DEF OneExitPerShare
<1>1. Solo /\ EntryInv
  BY DEF SoloInv, OneByOne, DayInv
<1>2. Fit
  BY <1>1 DEF Solo
<1>3. PICK sure : sure = IF \E i \in Protect : orders[i].filled > 0 THEN ExitIds \ Flatten ELSE ExitIds
  OBVIOUS
<1>4. sure \in SUBSET ExitIds /\ OfferedOf(orders, sure) <= Bought(orders)
  BY <1>2, <1>3 DEF Fit
<1>5. ClaimOf(sure) + FilledOf(orders, sure) <= Bought(orders)
  BY <1>1, <1>4, ClaimsOffered
<1> QED
  BY <1>3, <1>5 DEF OneExitPerShare

\* The row's word "done" is kept: nothing works for the forecast, all that was bought
\* is sold, and the reconciliation says so, unless two jobs have met or the position
\* was closed as the last resort.
THEOREM DoneIsSold == OrdersSpec => []DoneHolds
BY SoloInit, SoloStep, DoneIsOver, PTL DEF OrdersSpec

\* No share is offered twice, through refusals, retries, lost answers and crashes; and
\* while no two jobs have met in the forecast, what a done deadline step leaves is sold,
\* or worked on by one exit of exactly that size, or that exit was rejected.
THEOREM SharesHoldAlone == OrdersSpec => [](OneExitPerShare /\ (overlaps = 0 => SharesHold))
<1>1. SoloInv => OneExitPerShare /\ (overlaps = 0 => SharesHold)
  BY AloneIsCovered, OfferedOnce DEF SharesHold
<1> QED
  BY <1>1, SoloInit, SoloStep, PTL DEF OrdersSpec

=============================================================================
