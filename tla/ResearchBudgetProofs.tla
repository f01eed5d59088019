------------------------ MODULE ResearchBudgetProofs ------------------------
(***************************************************************************)
(* Theorems about ResearchBudget, for every number of containers, symbols  *)
(* and reservations, every cap and allowance, and every bound on faults.   *)
(***************************************************************************)
EXTENDS ResearchBudget, FiniteSetTheorems, TLAPS

\* Where a task is between its reservation and its charge, and between its lease and
\* the lease's release.
Reserved == {"claim", "giveup", "look", "author", "review", "charge"}
Leased == {"look", "author", "review", "charge", "record", "release", "unlease"}
Working == {"author", "review", "charge", "record"}

\* What a task relies on between two transactions: its symbol and its reservation,
\* which is nobody else's and not yet charged.
TaskInv ==
  /\ \A r \in Runners : task[r].step # "idle" => task[r].symbol \in Symbols
  /\ \A r \in Runners : task[r].step \notin {"idle", "reserve"} => task[r].token \in Tokens
  /\ \A r \in Runners : task[r].step \in Reserved => task[r].token \in uncharged
  /\ \A r, q \in Runners : task[r].token = task[q].token /\ task[r].token # None => r = q
  /\ \A s \in Symbols : record[s].status = "none" => record[s].attempts = 0

BudgetInv == TypeOK /\ TaskInv /\ CommittedFits

-----------------------------------------------------------------------------
(* Arithmetic of allowances.                                               *)

LEMMA AllowanceOfOne ==
  ASSUME NEW n \in Nat
  PROVE  Amount * (n + 1) = Amount * n + Amount
BY BudgetAssumption

LEMMA AllowancesGrow ==
  ASSUME NEW m \in Nat, NEW n \in Nat, m <= n
  PROVE  Amount * m <= Amount * n
BY BudgetAssumption

\* The reservations are finitely many.
LEMMA HoldsFinite ==
  ASSUME TypeOK
  PROVE  /\ IsFiniteSet(holds) /\ IsFiniteSet(uncharged)
         /\ Cardinality(uncharged) \in Nat /\ Cardinality(holds) \in Nat
         /\ Cardinality(uncharged) <= Cardinality(holds)
<1>1. IsFiniteSet(holds)
  BY BudgetAssumption, FS_Subset DEF TypeOK
<1>2. IsFiniteSet(uncharged) /\ Cardinality(uncharged) <= Cardinality(holds)
  BY <1>1, FS_Subset DEF TypeOK
<1> QED
  BY <1>1, <1>2, FS_CardinalityType

\* A reservation that ends uncharged only makes room (GiveUp, Release).
LEMMA RoomMade ==
  ASSUME TypeOK, CommittedFits, NEW t, spent' = spent, uncharged' = uncharged \ {t}
  PROVE  CommittedFits'
<1>1. /\ IsFiniteSet(uncharged) /\ Cardinality(uncharged) \in Nat
  BY HoldsFinite
<1>2. uncharged \ {t} \in SUBSET uncharged
  OBVIOUS
<1>3. IsFiniteSet(uncharged \ {t}) /\ Cardinality(uncharged \ {t}) <= Cardinality(uncharged)
  BY <1>1, <1>2, FS_Subset
<1>4. Cardinality(uncharged \ {t}) \in Nat
  BY <1>3, FS_CardinalityType
<1>5. Amount * Cardinality(uncharged \ {t}) <= Amount * Cardinality(uncharged)
  BY <1>1, <1>3, <1>4, AllowancesGrow
<1> DEFINE before == Amount * Cardinality(uncharged)
           after == Amount * Cardinality(uncharged \ {t})
<1>6. before \in Nat /\ after \in Nat /\ after <= before /\ spent + before <= Cap
  BY <1>1, <1>4, <1>5, BudgetAssumption DEF CommittedFits
<1>7. spent + after <= Cap
  <2> HIDE DEF before, after
  <2> QED
    BY <1>6, BudgetAssumption DEF TypeOK
<1> QED
  BY <1>7 DEF CommittedFits

\* A charge takes no more than the allowance that it frees (Charge).
LEMMA ChargedFromAllowance ==
  ASSUME TypeOK, CommittedFits, NEW t \in uncharged, NEW cost \in 0..Amount,
         spent' = spent + cost, uncharged' = uncharged \ {t}
  PROVE  CommittedFits' /\ spent' \in 0..Cap
<1>1. IsFiniteSet(uncharged) /\ Cardinality(uncharged) \in Nat
  BY HoldsFinite
<1>2. /\ IsFiniteSet(uncharged \ {t})
      /\ Cardinality(uncharged \ {t}) = Cardinality(uncharged) - 1
  BY <1>1, FS_RemoveElement
<1>3. Cardinality(uncharged \ {t}) \in Nat
  BY <1>2, FS_CardinalityType
<1> DEFINE n == Cardinality(uncharged \ {t})
           after == Amount * n
<1>4. Amount * Cardinality(uncharged) = after + Amount
  <2>1. Cardinality(uncharged) = n + 1
    BY <1>1, <1>2
  <2> QED
    BY <2>1, <1>3, AllowanceOfOne
<1>5. after \in Nat /\ spent + (after + Amount) <= Cap
  BY <1>3, <1>4, BudgetAssumption DEF CommittedFits
<1>6. spent + cost + after <= Cap /\ spent + cost \in 0..Cap
  <2> HIDE DEF after, n
  <2> QED
    BY <1>5, BudgetAssumption DEF TypeOK
<1> QED
  BY <1>6 DEF CommittedFits

\* Admission leaves room for one allowance beside all reservations (reserve).
LEMMA AdmittedFits ==
  ASSUME TypeOK, CommittedFits, Fits, NEW t \in Tokens \ holds,
         spent' = spent, uncharged' = uncharged \cup {t}
  PROVE  CommittedFits'
<1>1. /\ IsFiniteSet(uncharged)
      /\ Cardinality(uncharged) \in Nat /\ Cardinality(holds) \in Nat
      /\ Cardinality(uncharged) <= Cardinality(holds)
  BY HoldsFinite
<1>2. t \notin uncharged
  BY DEF TypeOK
<1>3. Cardinality(uncharged \cup {t}) = Cardinality(uncharged) + 1
  BY <1>1, <1>2, FS_AddElement
<1> DEFINE held == Amount * Cardinality(holds)
           owed == Amount * Cardinality(uncharged)
<1>4. owed <= held /\ Amount * Cardinality(uncharged \cup {t}) = owed + Amount
  BY <1>1, <1>3, AllowancesGrow, AllowanceOfOne
<1>5. held \in Nat /\ owed \in Nat /\ spent + held + Amount <= Cap
  BY <1>1, BudgetAssumption DEF Fits
<1>6. spent + (owed + Amount) <= Cap
  <2> HIDE DEF held, owed
  <2> QED
    BY <1>4, <1>5, BudgetAssumption DEF TypeOK
<1> QED
  BY <1>4, <1>6 DEF CommittedFits

-----------------------------------------------------------------------------
(* Types, and what a task relies on.                                       *)

\* No two tasks have a reservation in common.
LEMMA OwnToken ==
  ASSUME TaskInv, NEW r \in Runners, NEW q \in Runners \ {r}, task[r].token # None
  PROVE  task[q].token # task[r].token
BY DEF TaskInv

\* What a step of task r must show for all to rely on: t is r's task afterwards.
LEMMA TaskMoves ==
  ASSUME BudgetInv, NEW r \in Runners, NEW t \in Task,
         task' = [task EXCEPT ![r] = t],
         spent' \in 0..Cap, CommittedFits',
         holds' \subseteq Tokens, uncharged' \subseteq holds',
         uncharged \ {task[r].token} \subseteq uncharged',
         lease' \in [Symbols -> Lease], record' \in [Symbols -> Record],
         \A s \in Symbols : record'[s].status = "none" => record'[s].attempts = 0,
         real' \in Nat, faults' \in 0..MaxFaults, suspended' \in BOOLEAN,
         t.token # None => \A q \in Runners \ {r} : task[q].token # t.token,
         t.step # "idle" => t.symbol \in Symbols,
         t.step \notin {"idle", "reserve"} => t.token \in Tokens,
         t.step \in Reserved => t.token \in uncharged'
  PROVE  BudgetInv'
<1>1. task' \in [Runners -> Task]
  BY DEF BudgetInv, TypeOK
<1>2. task'[r] = t /\ \A q \in Runners \ {r} : task'[q] = task[q]
  BY DEF BudgetInv, TypeOK
<1>3. TypeOK'
  BY <1>1 DEF TypeOK
<1>4. \A q \in Runners \ {r} : task[q].step \in Reserved => task[q].token \in uncharged'
  <2> SUFFICES ASSUME NEW q \in Runners \ {r}, task[q].step \in Reserved
               PROVE  task[q].token \in uncharged'
    OBVIOUS
  <2>1. task[q].token \in uncharged /\ task[q].token # None
    BY BudgetAssumption DEF BudgetInv, TypeOK, TaskInv
  <2>2. task[r].token # task[q].token
    BY <2>1, OwnToken DEF BudgetInv
  <2> QED
    BY <2>1, <2>2
<1>5. \A p, q \in Runners : task'[p].token = task'[q].token /\ task'[p].token # None => p = q
  BY <1>2 DEF BudgetInv, TaskInv
<1>6. TaskInv'
  BY <1>2, <1>4, <1>5 DEF BudgetInv, TaskInv
<1> QED
  BY <1>3, <1>6 DEF BudgetInv

\* A step of task r that only moves it on (Goes, Billed, and the ends of a task).
LEMMA RowsKept ==
  ASSUME BudgetInv, NEW r \in Runners, NEW t \in Task,
         task' = [task EXCEPT ![r] = t],
         UNCHANGED <<spent, holds, record, uncharged>>,
         lease' \in [Symbols -> Lease],
         real' \in Nat, faults' \in 0..MaxFaults, suspended' \in BOOLEAN,
         t.token \in {task[r].token, None},
         t.step # "idle" => t.symbol \in Symbols,
         t.step \notin {"idle", "reserve"} => t.token \in Tokens,
         t.step \in Reserved => t.token \in uncharged
  PROVE  BudgetInv'
<1>1. CommittedFits'
  BY DEF BudgetInv, CommittedFits
<1>2. t.token # None => \A q \in Runners \ {r} : task[q].token # t.token
  BY OwnToken DEF BudgetInv
<1>3. /\ spent' \in 0..Cap /\ holds' \subseteq Tokens /\ uncharged' \subseteq holds'
      /\ uncharged \ {task[r].token} \subseteq uncharged'
      /\ record' \in [Symbols -> Record]
      /\ \A s \in Symbols : record'[s].status = "none" => record'[s].attempts = 0
      /\ t.step \in Reserved => t.token \in uncharged'
  BY DEF BudgetInv, TypeOK, TaskInv
<1> QED
  BY <1>1, <1>2, <1>3, TaskMoves

\* The task of r, moved on to another step.
LEMMA Moved ==
  ASSUME TypeOK, NEW r \in Runners, NEW step \in Steps, Goes(r, step)
  PROVE  \E t \in Task :
           /\ task' = [task EXCEPT ![r] = t]
           /\ t.step = step /\ t.symbol = task[r].symbol /\ t.token = task[r].token
<1> DEFINE t == [task[r] EXCEPT !.step = step]
<1>1. t \in Task /\ t.step = step /\ t.symbol = task[r].symbol /\ t.token = task[r].token
  BY DEF TypeOK, Task
<1>2. task' = [task EXCEPT ![r] = t]
  BY DEF Goes
<1> QED
  BY <1>1, <1>2

\* A task that is over.
LEMMA NoTaskTyped == NoTask \in Task /\ NoTask.step = "idle" /\ NoTask.token = None
BY BudgetAssumption DEF NoTask, Task, Steps

\* The constants, one by one.
LEMMA ConstantsTyped ==
  /\ Cap \in Nat /\ MaxFaults \in Nat /\ MaxAttempts \in Nat
  /\ Amount \in Nat /\ Headroom \in Nat /\ FailedCost \in Nat
  /\ FailedCost <= Headroom /\ Headroom <= Amount
BY BudgetAssumption

LEMMA BudgetInit == Init => BudgetInv
<1> SUFFICES ASSUME Init PROVE BudgetInv
  OBVIOUS
<1> USE BudgetAssumption
<1>1. TypeOK
  <2>1. spent \in 0..Cap /\ real \in Nat /\ faults \in 0..MaxFaults
    BY ConstantsTyped DEF Init
  <2>2. Free \in Lease
    BY DEF Free, Lease
  <2>3. NoRecord \in Record
    BY ConstantsTyped DEF NoRecord, Record, Statuses
  <2> QED
    BY <2>1, <2>2, <2>3, NoTaskTyped DEF Init, TypeOK
<1>2. TaskInv
  BY NoTaskTyped DEF Init, TaskInv, NoRecord, Reserved
<1>3. CommittedFits
  BY FS_EmptySet DEF Init, CommittedFits
<1> QED
  BY <1>1, <1>2, <1>3 DEF BudgetInv

LEMMA AdmissionKeeps ==
  ASSUME BudgetInv, NEW r \in Runners, Pick(r) \/ Reserve(r) \/ Claim(r) \/ GiveUp(r) \/ Look(r)
  PROVE  BudgetInv'
<1> USE BudgetAssumption DEF Reserved
<1>1. CASE Pick(r)
  <2>1. PICK i \in DOMAIN Queue :
          task' = [task EXCEPT ![r] = [NoTask EXCEPT !.step = "reserve", !.symbol = Queue[i]]]
    BY <1>1 DEF Pick
  <2> DEFINE t == [NoTask EXCEPT !.step = "reserve", !.symbol = Queue[i]]
  <2>2. Queue[i] \in Symbols
    BY DEF Symbols
  <2>3. t \in Task /\ t.step = "reserve" /\ t.symbol = Queue[i] /\ t.token = None
    BY <2>2, NoTaskTyped DEF Task, Steps
  <2>4. UNCHANGED <<spent, holds, lease, record, uncharged, real, faults, suspended>>
    BY <1>1 DEF Pick
  <2>5. task' = [task EXCEPT ![r] = t]
    BY <2>1
  <2> HIDE DEF t
  <2> QED
    BY <2>2, <2>3, <2>4, <2>5, RowsKept DEF BudgetInv, TypeOK
<1>2. CASE Reserve(r)
  <2>1. UNCHANGED <<spent, lease, record, real, faults, suspended>>
    BY <1>2 DEF Reserve
  <2>2. CASE task' = [task EXCEPT ![r] = NoTask] /\ UNCHANGED <<holds, uncharged>>
    BY <2>1, <2>2, NoTaskTyped, RowsKept DEF BudgetInv, TypeOK
  <2>3. ASSUME Fits, NEW n \in Unused, holds' = holds \cup {n}, uncharged' = uncharged \cup {n},
               task' = [task EXCEPT ![r].step = "claim", ![r].token = n]
        PROVE  BudgetInv'
    <3> DEFINE t == [task[r] EXCEPT !.step = "claim", !.token = n]
    <3>1. task[r].step = "reserve" /\ task[r].symbol \in Symbols
      BY <1>2 DEF Reserve, BudgetInv, TaskInv
    <3>2. n \in Tokens \ holds /\ \A q \in Runners : task[q].token # n
      BY DEF Unused
    <3>3. t \in Task /\ t.step = "claim" /\ t.symbol = task[r].symbol /\ t.token = n
      BY <3>2 DEF BudgetInv, TypeOK, Task, Steps
    <3>4. task' = [task EXCEPT ![r] = t]
      BY <2>3
    <3>5. CommittedFits'
      BY <2>1, <2>3, <3>2, AdmittedFits DEF BudgetInv
    <3>6. /\ spent' \in 0..Cap /\ holds' \subseteq Tokens /\ uncharged' \subseteq holds'
          /\ uncharged \ {task[r].token} \subseteq uncharged'
          /\ lease' \in [Symbols -> Lease] /\ record' \in [Symbols -> Record]
          /\ \A s \in Symbols : record'[s].status = "none" => record'[s].attempts = 0
          /\ real' \in Nat /\ faults' \in 0..MaxFaults /\ suspended' \in BOOLEAN
      BY <2>1, <2>3, <3>2 DEF BudgetInv, TypeOK, TaskInv
    <3>7. n \in uncharged'
      BY <2>3
    <3> HIDE DEF t
    <3> QED
      BY <3>1, <3>2, <3>3, <3>4, <3>5, <3>6, <3>7, TaskMoves
  <2> QED
    BY <1>2, <2>2, <2>3 DEF Reserve
<1>3. CASE Claim(r)
  <2>1. UNCHANGED <<spent, holds, record, uncharged, real, faults, suspended>>
    BY <1>3 DEF Claim
  <2>2. /\ task[r].step = "claim" /\ task[r].symbol \in Symbols
        /\ task[r].token \in Tokens /\ task[r].token \in uncharged
    BY <1>3 DEF Claim, BudgetInv, TaskInv
  <2>3. lease' \in [Symbols -> Lease]
    <3>1. [owner |-> task[r].token, over |-> FALSE] \in Lease
      BY <2>2 DEF Lease
    <3>2. \/ lease' = lease
          \/ lease' = [lease EXCEPT ![task[r].symbol] = [owner |-> task[r].token, over |-> FALSE]]
      BY <1>3 DEF Claim
    <3> QED
      BY <3>1, <3>2 DEF BudgetInv, TypeOK
  <2>4. PICK step \in {"look", "giveup"} : Goes(r, step)
    BY <1>3 DEF Claim
  <2>5. PICK t \in Task : /\ task' = [task EXCEPT ![r] = t]
                          /\ t.step = step /\ t.symbol = task[r].symbol /\ t.token = task[r].token
    BY <2>4, Moved DEF BudgetInv, Steps
  <2> QED
    BY <2>1, <2>2, <2>3, <2>5, RowsKept DEF BudgetInv, TypeOK
<1>4. CASE GiveUp(r)
  <2>1. /\ UNCHANGED <<spent, lease, record, real, faults, suspended>>
        /\ holds' = holds \ {task[r].token} /\ uncharged' = uncharged \ {task[r].token}
        /\ task' = [task EXCEPT ![r] = NoTask]
    BY <1>4 DEF GiveUp
  <2>2. CommittedFits'
    BY <2>1, RoomMade DEF BudgetInv
  <2>3. /\ spent' \in 0..Cap /\ holds' \subseteq Tokens /\ uncharged' \subseteq holds'
        /\ lease' \in [Symbols -> Lease] /\ record' \in [Symbols -> Record]
        /\ \A s \in Symbols : record'[s].status = "none" => record'[s].attempts = 0
        /\ real' \in Nat /\ faults' \in 0..MaxFaults /\ suspended' \in BOOLEAN
    BY <2>1 DEF BudgetInv, TypeOK, TaskInv
  <2> QED
    BY <2>1, <2>2, <2>3, NoTaskTyped, TaskMoves
<1>5. CASE Look(r)
  <2>1. UNCHANGED <<spent, holds, lease, record, uncharged, real, faults, suspended>>
    BY <1>5 DEF Look
  <2>2. /\ task[r].step = "look" /\ task[r].symbol \in Symbols
        /\ task[r].token \in Tokens /\ task[r].token \in uncharged
    BY <1>5 DEF Look, BudgetInv, TaskInv
  <2>3. CASE StillDue(r)
    <3> DEFINE n == record[task[r].symbol].attempts + 1
               t == [task[r] EXCEPT !.step = "author", !.attempts = n]
    <3>1. record[task[r].symbol] \in Record /\ Due(task[r].symbol)
      BY <2>2, <2>3 DEF StillDue, BudgetInv, TypeOK
    <3>2. n \in 0..MaxAttempts
      BY <2>2, <3>1 DEF Due, Record, BudgetInv, TaskInv
    <3>3. t \in Task /\ t.step = "author" /\ t.symbol = task[r].symbol /\ t.token = task[r].token
      <4> HIDE DEF n
      <4> QED
        BY <3>2 DEF BudgetInv, TypeOK, Task, Steps
    <3>4. task' = [task EXCEPT ![r] = t]
      BY <1>5, <2>3 DEF Look
    <3> HIDE DEF t
    <3> QED
      BY <2>1, <2>2, <3>3, <3>4, RowsKept DEF BudgetInv, TypeOK
  <2>4. CASE ~StillDue(r)
    <3>1. Goes(r, "release")
      BY <1>5, <2>4 DEF Look
    <3>2. PICK t \in Task : /\ task' = [task EXCEPT ![r] = t]
                            /\ t.step = "release" /\ t.symbol = task[r].symbol /\ t.token = task[r].token
      BY <3>1, Moved DEF BudgetInv, Steps
    <3> QED
      BY <2>1, <2>2, <3>2, RowsKept DEF BudgetInv, TypeOK
  <2> QED
    BY <2>3, <2>4
<1> QED
  BY <1>1, <1>2, <1>3, <1>4, <1>5

\* A paid call moves its task on, by what it bills and no more than its allowance.
LEMMA CallBilled ==
  ASSUME BudgetInv, NEW r \in Runners, AuthorAnswers(r) \/ AuthorFails(r) \/ Reviews(r)
  PROVE  \E next \in {"author", "review", "charge"}, cost \in Nat, bill \in Nat, failed \in BOOLEAN :
           bill <= cost /\ task[r].cost + cost <= Amount /\ Billed(r, next, cost, bill, failed)
<1>1. task[r].cost \in 0..Amount
  BY DEF BudgetInv, TypeOK, Task
<1> DEFINE Call(next, cost, bill, failed) ==
             bill <= cost /\ task[r].cost + cost <= Amount /\ Billed(r, next, cost, bill, failed)
<1> SUFFICES \E next \in {"author", "review", "charge"}, cost \in Nat, bill \in Nat, failed \in BOOLEAN :
               Call(next, cost, bill, failed)
  OBVIOUS
<1>2. /\ 0 \in Nat /\ FailedCost \in Nat /\ task[r].cost + 0 <= Amount
      /\ 0 <= 0 /\ FailedCost <= FailedCost
  BY <1>1, ConstantsTyped
<1>3. ASSUME Admits(r), NEW bill \in 1..Headroom
      PROVE  bill \in Nat /\ bill <= bill /\ task[r].cost + bill <= Amount
  BY <1>1, <1>3, ConstantsTyped DEF Admits
<1>4. Admits(r) => task[r].cost + FailedCost <= Amount
  BY <1>1, ConstantsTyped DEF Admits
<1>5. CASE AuthorAnswers(r)
  <2>1. PICK bill \in 1..Headroom, next \in {"author", "review", "charge"} :
          Billed(r, next, bill, bill, FALSE)
    BY <1>5 DEF AuthorAnswers
  <2>2. Call(next, bill, bill, FALSE) /\ bill \in Nat
    BY <1>3, <1>5, <2>1 DEF AuthorAnswers
  <2> QED
    BY <2>2, Zenon
<1>6. ASSUME NEW failed \in BOOLEAN, Admits(r), Billed(r, "charge", Estimate, FailedCost, failed)
      PROVE  \E next \in {"author", "review", "charge"}, cost \in Nat, bill \in Nat, f \in BOOLEAN :
               Call(next, cost, bill, f)
  <2>1. Call("charge", FailedCost, FailedCost, failed)
    BY <1>2, <1>4, <1>6 DEF Estimate
  <2> QED
    BY <1>2, <2>1, Zenon
<1>7. ASSUME NEW failed \in BOOLEAN, Billed(r, "charge", 0, 0, failed)
      PROVE  \E next \in {"author", "review", "charge"}, cost \in Nat, bill \in Nat, f \in BOOLEAN :
               Call(next, cost, bill, f)
  <2>1. Call("charge", 0, 0, failed)
    BY <1>2, <1>7
  <2> QED
    BY <1>2, <2>1, Zenon
<1>8. ASSUME NEW bill \in 1..Headroom, NEW next \in {"review", "charge"},
             task[r].cost + bill <= Amount, Billed(r, next, bill, bill, FALSE)
      PROVE  \E n \in {"author", "review", "charge"}, cost \in Nat, b \in Nat, f \in BOOLEAN :
               Call(n, cost, b, f)
  <2>1. bill \in Nat /\ bill <= bill /\ next \in {"author", "review", "charge"}
    BY ConstantsTyped
  <2>2. Call(next, bill, bill, FALSE)
    BY <1>8, <2>1, Zenon
  <2> QED
    BY <2>1, <2>2, Zenon
<1>9. TRUE \in BOOLEAN /\ FALSE \in BOOLEAN
  OBVIOUS
<1>10. CASE AuthorFails(r)
  <2> HIDE DEF Call
  <2> QED
    BY <1>6, <1>7, <1>9, <1>10, Zenon DEF AuthorFails
<1>11. CASE Reviews(r)
  <2> HIDE DEF Call
  <2> QED
    BY <1>6, <1>7, <1>8, <1>9, <1>11, Zenon DEF Reviews
<1> QED
  BY <1>5, <1>10, <1>11

LEMMA CallsKeep ==
  ASSUME BudgetInv, NEW r \in Runners, AuthorAnswers(r) \/ AuthorFails(r) \/ Reviews(r)
  PROVE  BudgetInv'
<1> USE BudgetAssumption
<1>1. /\ task[r] \in Task /\ task[r].cost \in 0..Amount /\ real \in Nat
      /\ task[r].symbol \in Symbols /\ task[r].token \in Tokens /\ task[r].token \in uncharged
      /\ task[r].step \in {"author", "review"}
  BY DEF AuthorAnswers, AuthorFails, Reviews, BudgetInv, TypeOK, TaskInv, Task, Reserved
<1>2. UNCHANGED <<spent, holds, lease, record, uncharged, faults, suspended>>
  BY DEF AuthorAnswers, AuthorFails, Reviews
<1>3. PICK next \in {"author", "review", "charge"}, cost \in Nat, bill \in Nat, failed \in BOOLEAN :
        bill <= cost /\ task[r].cost + cost <= Amount /\ Billed(r, next, cost, bill, failed)
  BY CallBilled
<1> DEFINE sum == task[r].cost + cost
           t == [task[r] EXCEPT !.step = next, !.cost = sum, !.failed = failed]
<1>4. sum \in 0..Amount
  BY <1>1, <1>3, ConstantsTyped
<1>5. task' = [task EXCEPT ![r] = t] /\ real' \in Nat
  <2>1. real' = real + bill
    BY <1>3 DEF Billed
  <2>2. task' = [task EXCEPT ![r] = t]
    BY <1>3 DEF Billed
  <2> QED
    BY <1>1, <2>1, <2>2
<1>6. t \in Task /\ t.step = next /\ t.symbol = task[r].symbol /\ t.token = task[r].token
  <2> HIDE DEF sum
  <2> QED
    BY <1>1, <1>4 DEF Task, Steps
<1> HIDE DEF t
<1> QED
  BY <1>1, <1>2, <1>5, <1>6, RowsKept DEF BudgetInv, TypeOK

LEMMA EndKeeps ==
  ASSUME BudgetInv, NEW r \in Runners, Charge(r) \/ Put(r) \/ Release(r) \/ Unlease(r)
  PROVE  BudgetInv'
<1> USE BudgetAssumption DEF Reserved
<1>1. /\ task[r] \in Task /\ task[r].symbol \in Symbols /\ task[r].token \in Tokens
      /\ task[r].step \in {"charge", "record", "release", "unlease"}
  BY DEF Charge, Put, Release, Unlease, BudgetInv, TypeOK, TaskInv
<1>2. task[r].token # None => \A q \in Runners \ {r} : task[q].token # task[r].token
  BY OwnToken DEF BudgetInv
<1>3. CASE Charge(r)
  <2>1. /\ UNCHANGED <<holds, lease, record, real, faults, suspended>>
        /\ spent' = spent + task[r].cost /\ uncharged' = uncharged \ {task[r].token}
        /\ task[r].cost \in 0..Amount /\ task[r].token \in uncharged
    BY <1>1, <1>3 DEF Charge, Task, BudgetInv, TaskInv
  <2>2. CommittedFits' /\ spent' \in 0..Cap
    BY <2>1, ChargedFromAllowance DEF BudgetInv
  <2>3. PICK t \in Task : /\ task' = [task EXCEPT ![r] = t]
                          /\ t.step = "record" /\ t.symbol = task[r].symbol /\ t.token = task[r].token
    BY <1>3, Moved DEF Charge, BudgetInv, Steps
  <2>4. /\ holds' \subseteq Tokens /\ uncharged' \subseteq holds'
        /\ lease' \in [Symbols -> Lease] /\ record' \in [Symbols -> Record]
        /\ \A s \in Symbols : record'[s].status = "none" => record'[s].attempts = 0
        /\ real' \in Nat /\ faults' \in 0..MaxFaults /\ suspended' \in BOOLEAN
    BY <2>1 DEF BudgetInv, TypeOK, TaskInv
  <2> QED
    BY <1>1, <1>2, <2>1, <2>2, <2>3, <2>4, TaskMoves
<1>4. CASE Put(r)
  <2>1. /\ UNCHANGED <<spent, holds, lease, uncharged, real, faults, suspended>>
        /\ record' = [record EXCEPT ![task[r].symbol] =
             [status |-> IF task[r].failed THEN "backoff" ELSE "done", attempts |-> task[r].attempts]]
    BY <1>4 DEF Put
  <2>2. PICK t \in Task : /\ task' = [task EXCEPT ![r] = t]
                          /\ t.step = "release" /\ t.symbol = task[r].symbol /\ t.token = task[r].token
    BY <1>4, Moved DEF Put, BudgetInv, Steps
  <2>3. /\ record' \in [Symbols -> Record]
        /\ \A s \in Symbols : record'[s].status = "none" => record'[s].attempts = 0
    BY <1>1, <2>1 DEF BudgetInv, TypeOK, TaskInv, Task, Record, Statuses
  <2>4. CommittedFits'
    BY <2>1 DEF BudgetInv, CommittedFits
  <2>5. /\ spent' \in 0..Cap /\ holds' \subseteq Tokens /\ uncharged' \subseteq holds'
        /\ uncharged \ {task[r].token} \subseteq uncharged'
        /\ lease' \in [Symbols -> Lease]
        /\ real' \in Nat /\ faults' \in 0..MaxFaults /\ suspended' \in BOOLEAN
    BY <2>1 DEF BudgetInv, TypeOK
  <2> QED
    BY <1>1, <1>2, <2>2, <2>3, <2>4, <2>5, TaskMoves
<1>5. CASE Release(r)
  <2>1. /\ UNCHANGED <<spent, lease, record, real, faults, suspended>>
        /\ holds' = holds \ {task[r].token} /\ uncharged' = uncharged \ {task[r].token}
    BY <1>5 DEF Release, Held
  <2>2. CommittedFits'
    BY <2>1, RoomMade DEF BudgetInv
  <2>3. PICK t \in Task : /\ task' = [task EXCEPT ![r] = t]
                          /\ t.step = "unlease" /\ t.symbol = task[r].symbol /\ t.token = task[r].token
    BY <1>5, Moved DEF Release, BudgetInv, Steps
  <2>4. /\ spent' \in 0..Cap /\ holds' \subseteq Tokens /\ uncharged' \subseteq holds'
        /\ lease' \in [Symbols -> Lease] /\ record' \in [Symbols -> Record]
        /\ \A s \in Symbols : record'[s].status = "none" => record'[s].attempts = 0
        /\ real' \in Nat /\ faults' \in 0..MaxFaults /\ suspended' \in BOOLEAN
    BY <2>1 DEF BudgetInv, TypeOK, TaskInv
  <2> QED
    BY <1>1, <1>2, <2>1, <2>2, <2>3, <2>4, TaskMoves
<1>6. CASE Unlease(r)
  <2>1. /\ UNCHANGED <<spent, holds, record, uncharged, real, faults, suspended>>
        /\ task' = [task EXCEPT ![r] = NoTask]
    BY <1>6 DEF Unlease
  <2>2. lease' \in [Symbols -> Lease]
    BY <1>6 DEF Unlease, BudgetInv, TypeOK, Free, Lease
  <2> QED
    BY <2>1, <2>2, NoTaskTyped, RowsKept DEF BudgetInv, TypeOK
<1> QED
  BY <1>3, <1>4, <1>5, <1>6

\* A task may be interrupted anywhere: it keeps its reservation (Raises, Killed).
LEMMA InterruptionKeeps ==
  ASSUME BudgetInv, NEW r \in Runners, Raises(r) \/ Killed(r)
  PROVE  BudgetInv'
<1> USE BudgetAssumption
<1>1. /\ UNCHANGED <<spent, holds, lease, record, uncharged, suspended>>
      /\ faults' \in 0..MaxFaults
  BY DEF Raises, Killed, Fault, BudgetInv, TypeOK
<1>2. real' \in Nat
  <2>1. InFlight(r) \in Nat
    BY DEF InFlight, Admits, Paying, BudgetInv, TypeOK, Task
  <2> QED
    BY <2>1 DEF Raises, Killed, BudgetInv, TypeOK
<1>3. CASE Raises(r)
  <2>1. task[r].symbol \in Symbols /\ task[r].token \in Tokens
    BY <1>3 DEF Raises, BudgetInv, TaskInv
  <2>2. PICK t \in Task : /\ task' = [task EXCEPT ![r] = t]
                          /\ t.step = "unlease" /\ t.symbol = task[r].symbol /\ t.token = task[r].token
    BY <1>3, Moved DEF Raises, BudgetInv, Steps
  <2> QED
    BY <1>1, <1>2, <2>1, <2>2, RowsKept DEF BudgetInv, TypeOK, Reserved
<1>4. CASE Killed(r)
  <2>1. task' = [task EXCEPT ![r] = NoTask]
    BY <1>4 DEF Killed
  <2> QED
    BY <1>1, <1>2, <2>1, NoTaskTyped, RowsKept DEF BudgetInv, TypeOK, Reserved
<1> QED
  BY <1>3, <1>4

LEMMA TimeKeeps ==
  ASSUME BudgetInv, NEW s \in Symbols, LeaseOver(s) \/ BackoffOver(s)
  PROVE  BudgetInv'
<1> USE BudgetAssumption
<1>1. UNCHANGED <<spent, holds, task, uncharged, real>>
  BY DEF LeaseOver, BackoffOver
<1>2. TypeOK'
  <2>1. CASE LeaseOver(s)
    <3>1. faults' \in 0..MaxFaults /\ suspended' \in BOOLEAN /\ record' = record
      <4>1. faults \in 0..MaxFaults /\ suspended \in BOOLEAN
        BY DEF BudgetInv, TypeOK
      <4>2. CASE UNCHANGED <<faults, suspended>>
        BY <2>1, <4>1, <4>2 DEF LeaseOver
      <4>3. CASE Fault /\ suspended' = TRUE
        BY <2>1, <4>1, <4>3, ConstantsTyped DEF LeaseOver, Fault
      <4> QED
        BY <2>1, <4>2, <4>3 DEF LeaseOver
    <3>2. lease' \in [Symbols -> Lease]
      BY <2>1 DEF LeaseOver, BudgetInv, TypeOK, Lease
    <3> QED
      BY <1>1, <3>1, <3>2 DEF BudgetInv, TypeOK
  <2>2. CASE BackoffOver(s)
    BY <1>1, <2>2 DEF BackoffOver, BudgetInv, TypeOK, Record, Statuses
  <2> QED
    BY <2>1, <2>2
<1>3. TaskInv'
  BY <1>1 DEF LeaseOver, BackoffOver, BudgetInv, TypeOK, TaskInv, Record
<1>4. CommittedFits'
  BY <1>1 DEF BudgetInv, CommittedFits
<1> QED
  BY <1>2, <1>3, <1>4 DEF BudgetInv

LEMMA BudgetNext == BudgetInv /\ [Next]_vars => BudgetInv'
<1> SUFFICES ASSUME BudgetInv, [Next]_vars PROVE BudgetInv'
  OBVIOUS
<1>1. ASSUME NEW r \in Runners, Step(r) PROVE BudgetInv'
  BY <1>1, AdmissionKeeps, CallsKeep, EndKeeps DEF Step
<1>2. ASSUME NEW r \in Runners, Raises(r) \/ Killed(r) PROVE BudgetInv'
  BY <1>2, InterruptionKeeps
<1>3. ASSUME NEW s \in Symbols, LeaseOver(s) \/ BackoffOver(s) PROVE BudgetInv'
  BY <1>3, TimeKeeps
<1>4. CASE UNCHANGED vars
  BY <1>4 DEF vars, BudgetInv, TypeOK, TaskInv, CommittedFits
<1> QED
  BY <1>1, <1>2, <1>3, <1>4 DEF Next

\* The inductive invariant of the budget.
THEOREM BudgetCorrect == Spec => []BudgetInv
BY BudgetInit, BudgetNext, PTL DEF Spec

\* Whatever is killed, suspended or raises, and between whichever steps, what was charged
\* and the allowances of all tasks that were not charged fit under the cap
\* (reserve, charge and release of research_budget).
THEOREM AllowancesFit == Spec => []AllowancesHold
<1>1. BudgetInv => AllowancesHold
  BY DEF BudgetInv, AllowancesHold
<1> QED
  BY <1>1, BudgetCorrect, PTL

-----------------------------------------------------------------------------
(* The lease.  While no task was suspended past its lease, the lease of a   *)
(* symbol names the one task at work on it, which is why the record it      *)
(* found due is still due when it writes.                                   *)

LeaseInv ==
  suspended \/ \A r \in Runners :
    /\ task[r].step \in Leased => lease[task[r].symbol] = [owner |-> task[r].token, over |-> FALSE]
    /\ task[r].step \in Working => record[task[r].symbol].status # "done"

\* A task under its lease.
LEMMA LeaseOf ==
  ASSUME BudgetInv, LeaseInv, ~suspended, NEW r \in Runners, task[r].step \in Leased
  PROVE  /\ task[r].symbol \in Symbols /\ task[r].token \in Tokens /\ task[r].token # None
         /\ lease[task[r].symbol].owner = task[r].token
         /\ ~lease[task[r].symbol].over
<1>1. task[r].step \notin {"idle", "reserve"}
  BY DEF Leased
<1>2. task[r].symbol \in Symbols /\ task[r].token \in Tokens
  BY <1>1 DEF BudgetInv, TaskInv
<1>3. lease[task[r].symbol] = [owner |-> task[r].token, over |-> FALSE]
  BY DEF LeaseInv
<1> QED
  BY <1>2, <1>3, BudgetAssumption

\* A lease has one task at work under it.
LEMMA LeaseIsOwn ==
  ASSUME BudgetInv, LeaseInv, ~suspended,
         NEW r \in Runners, NEW q \in Runners, task[r].step \in Leased, task[q].step \in Leased,
         task[r].symbol = task[q].symbol
  PROVE  r = q
<1>1. task[r].token = task[q].token /\ task[r].token # None
  BY LeaseOf
<1> QED
  BY <1>1 DEF BudgetInv, TaskInv

LEMMA LeaseInit == Init => LeaseInv
BY DEF Init, LeaseInv, NoTask, Leased, Working

\* A step of a task takes the lease of its symbol only when nobody is at work on it, and
\* gives back and records only under its own.
LEMMA LeaseStep ==
  ASSUME BudgetInv, LeaseInv, NEW r \in Runners, Step(r)
  PROVE  LeaseInv'
<1>0. suspended' = suspended
  BY DEF Step, Pick, Reserve, Claim, GiveUp, Look, AuthorAnswers, AuthorFails, Reviews,
         Charge, Put, Release, Unlease
<1> SUFFICES ASSUME ~suspended PROVE LeaseInv'
  BY <1>0 DEF LeaseInv
<1> DEFINE Others == \A q \in Runners \ {r} : task'[q] = task[q]
<1> USE DEF Leased, Working
<1>1. CASE Pick(r) \/ Reserve(r) \/ GiveUp(r)
  <2>1. UNCHANGED <<lease, record, suspended>>
    BY <1>1 DEF Pick, Reserve, GiveUp
  <2>2. task'[r].step \in {"idle", "reserve", "claim"} /\ Others
    <3>1. CASE Pick(r)
      BY <3>1 DEF Pick, NoTask, BudgetInv, TypeOK
    <3>2. CASE Reserve(r)
      BY <3>2 DEF Reserve, NoTask, BudgetInv, TypeOK, Task
    <3>3. CASE GiveUp(r)
      BY <3>3 DEF GiveUp, NoTask, BudgetInv, TypeOK
    <3> QED
      BY <1>1, <3>1, <3>2, <3>3
  <2> QED
    BY <2>1, <2>2 DEF LeaseInv
<1>2. CASE Claim(r)
  <2>1. UNCHANGED <<record, suspended>> /\ task[r].symbol \in Symbols
    BY <1>2 DEF Claim, BudgetInv, TaskInv
  <2>2. CASE ~Takeable(task[r].symbol)
    <3>1. task'[r].step = "giveup" /\ Others /\ lease' = lease
      BY <1>2, <2>2 DEF Claim, Goes, BudgetInv, TypeOK, Task
    <3> QED
      BY <2>1, <3>1 DEF LeaseInv
  <2>3. CASE Takeable(task[r].symbol)
    <3>1. /\ task'[r].step = "look" /\ Others
          /\ task'[r].symbol = task[r].symbol /\ task'[r].token = task[r].token
          /\ lease' = [lease EXCEPT ![task[r].symbol] = [owner |-> task[r].token, over |-> FALSE]]
      BY <1>2, <2>3 DEF Claim, Goes, BudgetInv, TypeOK, Task
    <3>2. \A q \in Runners : task[q].step \in Leased => task[q].symbol # task[r].symbol
      BY <2>3, LeaseOf DEF Takeable
    <3>3. \A q \in Runners : task[q].step \in Leased => task[q].symbol \in Symbols
      BY LeaseOf
    <3> QED
      BY <2>1, <3>1, <3>2, <3>3 DEF LeaseInv, BudgetInv, TypeOK
  <2> QED
    BY <2>2, <2>3
<1>3. CASE Look(r)
  <2>1. UNCHANGED <<lease, record, suspended>> /\ task[r].step = "look"
    BY <1>3 DEF Look
  <2>2. /\ task'[r].step \in {"author", "release"} /\ Others
        /\ task'[r].symbol = task[r].symbol /\ task'[r].token = task[r].token
        /\ task'[r].step = "author" => record[task[r].symbol].status # "done"
    BY <1>3 DEF Look, StillDue, Due, Goes, BudgetInv, TypeOK, Task
  <2> QED
    BY <2>1, <2>2 DEF LeaseInv
<1>4. CASE AuthorAnswers(r) \/ AuthorFails(r) \/ Reviews(r) \/ Charge(r) \/ Release(r)
  <2>1. UNCHANGED <<lease, record, suspended>>
    BY <1>4 DEF AuthorAnswers, AuthorFails, Reviews, Charge, Release
  <2>2. /\ task[r].step \in Leased /\ Others
        /\ task'[r].symbol = task[r].symbol /\ task'[r].token = task[r].token
        /\ task'[r].step \in Working => task[r].step \in Working
    <3>1. task \in [Runners -> Task] /\ task[r] \in Task
      BY DEF BudgetInv, TypeOK
    <3>2. CASE Charge(r) \/ Release(r)
      BY <3>1, <3>2 DEF Charge, Release, Goes, Task
    <3>3. CASE AuthorAnswers(r) \/ AuthorFails(r) \/ Reviews(r)
      <4>1. PICK next \in {"author", "review", "charge"}, cost \in Nat, bill \in Nat, failed \in BOOLEAN :
              Billed(r, next, cost, bill, failed)
        BY <3>3, CallBilled
      <4>2. task[r].step \in {"author", "review"}
        BY <3>3 DEF AuthorAnswers, AuthorFails, Reviews
      <4> QED
        BY <3>1, <4>1, <4>2 DEF Billed, Task
    <3> QED
      BY <1>4, <3>2, <3>3
  <2> QED
    BY <2>1, <2>2 DEF LeaseInv
<1>5. CASE Put(r)
  <2>1. /\ UNCHANGED <<lease, suspended>> /\ task[r].step = "record"
        /\ \A s \in Symbols \ {task[r].symbol} : record'[s] = record[s]
    BY <1>5 DEF Put, BudgetInv, TypeOK
  <2>2. /\ task'[r].step = "release" /\ Others
        /\ task'[r].symbol = task[r].symbol /\ task'[r].token = task[r].token
    BY <1>5 DEF Put, Goes, BudgetInv, TypeOK, Task
  <2>3. \A q \in Runners \ {r} : task[q].step \in Working => task[q].symbol # task[r].symbol
    BY <2>1, LeaseIsOwn
  <2>4. \A q \in Runners : task[q].step \in Working => task[q].symbol \in Symbols
    BY DEF BudgetInv, TaskInv
  <2> QED
    BY <2>1, <2>2, <2>3, <2>4 DEF LeaseInv
<1>6. CASE Unlease(r)
  <2>1. /\ UNCHANGED <<record, suspended>> /\ task[r].step = "unlease"
        /\ task'[r].step = "idle" /\ Others
    BY <1>6 DEF Unlease, NoTask, BudgetInv, TypeOK
  <2>2. \A q \in Runners \ {r} :
          task[q].step \in Leased => task[q].symbol \in Symbols /\ task[q].symbol # task[r].symbol
    BY <2>1, LeaseIsOwn DEF BudgetInv, TaskInv
  <2>3. \A s \in Symbols \ {task[r].symbol} : lease'[s] = lease[s]
    BY <1>6 DEF Unlease
  <2> QED
    BY <2>1, <2>2, <2>3 DEF LeaseInv
<1> QED
  BY <1>1, <1>2, <1>3, <1>4, <1>5, <1>6 DEF Step

\* Whoever is interrupted is not at work, and its lease stays until its time is over.
LEMMA LeaseInterrupted ==
  ASSUME BudgetInv, LeaseInv, NEW r \in Runners, Raises(r) \/ Killed(r)
  PROVE  LeaseInv'
<1>1. UNCHANGED <<lease, record, suspended>>
  BY DEF Raises, Killed
<1>2. \A q \in Runners \ {r} : task'[q] = task[q]
  BY DEF Raises, Killed, Goes, BudgetInv, TypeOK
<1>3. \/ task'[r].step = "idle"
      \/ /\ task'[r].step = "unlease" /\ task[r].step \in Leased
         /\ task'[r].symbol = task[r].symbol /\ task'[r].token = task[r].token
  BY DEF Raises, Killed, Goes, NoTask, Leased, BudgetInv, TypeOK, Task
<1> QED
  BY <1>1, <1>2, <1>3 DEF LeaseInv, Leased, Working

LEMMA LeaseInTime ==
  ASSUME BudgetInv, LeaseInv, NEW s \in Symbols, LeaseOver(s) \/ BackoffOver(s)
  PROVE  LeaseInv'
<1>1. CASE LeaseOver(s)
  <2>1. CASE Alive(s)
    BY <1>1, <2>1 DEF LeaseOver, LeaseInv
  <2>2. CASE ~Alive(s)
    <3>1. UNCHANGED <<record, task, suspended>> /\ \A x \in Symbols \ {s} : lease'[x] = lease[x]
      BY <1>1, <2>2 DEF LeaseOver, BudgetInv, TypeOK
    <3>2. suspended \/ \A r \in Runners : task[r].step \in Leased => task[r].symbol \in Symbols \ {s}
      BY <2>2, LeaseOf DEF Alive
    <3> QED
      BY <3>1, <3>2 DEF LeaseInv
  <2> QED
    BY <2>1, <2>2
<1>2. CASE BackoffOver(s)
  <2>1. UNCHANGED <<lease, task, suspended>>
    BY <1>2 DEF BackoffOver
  <2>2. \A x \in Symbols : record[x].status # "done" => record'[x].status # "done"
    BY <1>2 DEF BackoffOver, BudgetInv, TypeOK, Record
  <2>3. \A r \in Runners : task[r].step \in Working => task[r].symbol \in Symbols
    BY DEF BudgetInv, TaskInv, Working
  <2> QED
    BY <2>1, <2>2, <2>3 DEF LeaseInv
<1> QED
  BY <1>1, <1>2

LEMMA LeaseNext == BudgetInv /\ LeaseInv /\ [Next]_vars => LeaseInv'
<1> SUFFICES ASSUME BudgetInv, LeaseInv, [Next]_vars PROVE LeaseInv'
  OBVIOUS
<1>1. CASE UNCHANGED vars
  BY <1>1 DEF vars, LeaseInv
<1>2. CASE Next
  BY <1>2, LeaseStep, LeaseInterrupted, LeaseInTime DEF Next
<1> QED
  BY <1>1, <1>2

THEOREM LeaseCorrect == Spec => []LeaseInv
<1>1. Init => LeaseInv
  BY LeaseInit
<1>2. BudgetInv /\ LeaseInv /\ [Next]_vars => LeaseInv'
  BY LeaseNext
<1> QED
  BY <1>1, <1>2, BudgetCorrect, PTL DEF Spec

\* Two containers never pay for the same symbol at the same time, however many tasks are
\* killed, unless one was suspended past its lease (the claim of research_worker).
THEOREM PaidForOnce == Spec => []PaidOnce
<1>1. BudgetInv /\ LeaseInv => PaidOnce
  <2> SUFFICES ASSUME BudgetInv, LeaseInv, ~suspended,
                      NEW p \in Runners, NEW q \in Runners, p # q, Paying(p), Paying(q),
                      task[p].symbol = task[q].symbol
               PROVE  FALSE
    BY DEF PaidOnce
  <2>1. task[p].step \in Leased /\ task[q].step \in Leased
    BY DEF Paying, Leased
  <2> QED
    BY <2>1, LeaseIsOwn
<1> QED
  BY <1>1, BudgetCorrect, LeaseCorrect, PTL

\* What was recorded as researched stays recorded, unless a task was suspended past its
\* lease: the record is read again under the lease before it is written.
THEOREM RecordStands == Spec => RecordKept
<1>1. BudgetInv /\ LeaseInv /\ [Next]_vars
        => [\A s \in Symbols : record[s].status = "done" => record'[s].status = "done" \/ suspended]_vars
  <2> SUFFICES ASSUME BudgetInv, LeaseInv, Next, ~suspended,
                      NEW s \in Symbols, record[s].status = "done"
               PROVE  record'[s].status = "done"
    OBVIOUS
  <2>1. ASSUME NEW r \in Runners, Put(r) PROVE record'[s].status = "done"
    <3>1. record[task[r].symbol].status # "done"
      BY <2>1 DEF Put, LeaseInv, Working
    <3> QED
      BY <2>1, <3>1 DEF Put, BudgetInv, TypeOK
  <2>2. ASSUME NEW x \in Symbols, BackoffOver(x) PROVE record'[s].status = "done"
    BY <2>2 DEF BackoffOver, BudgetInv, TypeOK, Record
  <2>3. CASE UNCHANGED record
    BY <2>3
  <2>4. (\E r \in Runners : Put(r)) \/ (\E x \in Symbols : BackoffOver(x)) \/ UNCHANGED record
    BY DEF Next, Step, Pick, Reserve, Claim, GiveUp, Look, AuthorAnswers, AuthorFails, Reviews,
           Charge, Release, Unlease, Raises, Killed, LeaseOver
  <2> QED
    BY <2>1, <2>2, <2>3, <2>4
<1> QED
  BY <1>1, BudgetCorrect, LeaseCorrect, PTL DEF Spec, RecordKept

-----------------------------------------------------------------------------
(* What was billed.  Each unit that may have been billed to a reservation  *)
(* and was not charged is a member of a pile of its own, so that the sum   *)
(* over all reservations is the cardinality of a set.                      *)

Pile(f) == {unit \in Tokens \X (1..Amount) : unit[2] <= f[unit[1]]}

\* The bills f of the uncharged reservations: nothing before the first call, and no more than
\* its task knows of as long as it is there to charge it.
BillsOf(f) ==
  /\ real <= spent + Cardinality(Pile(f))
  /\ \A t \in Tokens \ uncharged : f[t] = 0
  /\ \A r \in Runners :
       /\ task[r].step \in {"claim", "giveup", "look", "record", "release"} => f[task[r].token] = 0
       /\ task[r].step \in {"author", "review", "charge"} => f[task[r].token] <= task[r].cost

BillsInv == \E f \in [Tokens -> 0..Amount] : BillsOf(f)

LEMMA UpTo ==
  ASSUME NEW v \in Nat
  PROVE  IsFiniteSet(1..v) /\ Cardinality(1..v) = v
<1>1. 1 \in Int /\ v \in Int
  OBVIOUS
<1>2. IsFiniteSet(1..v) /\ Cardinality(1..v) = IF 1 > v THEN 0 ELSE v - 1 + 1
  BY <1>1, FS_Interval
<1>3. (IF 1 > v THEN 0 ELSE v - 1 + 1) = v
  OBVIOUS
<1> QED
  BY <1>2, <1>3

LEMMA PileFinite ==
  ASSUME NEW f \in [Tokens -> 0..Amount]
  PROVE  IsFiniteSet(Pile(f)) /\ Cardinality(Pile(f)) \in Nat
<1>1. IsFiniteSet(Tokens) /\ IsFiniteSet(1..Amount)
  BY BudgetAssumption, ConstantsTyped, UpTo
<1>2. IsFiniteSet(Tokens \X (1..Amount))
  BY <1>1, FS_Product
<1>3. Pile(f) \in SUBSET (Tokens \X (1..Amount))
  BY DEF Pile
<1> QED
  BY <1>2, <1>3, FS_Subset, FS_CardinalityType

\* The units of one reservation beside those of the others.
LEMMA PileOfOne ==
  ASSUME NEW f \in [Tokens -> 0..Amount], NEW t \in Tokens, NEW v \in 0..Amount
  PROVE  Cardinality(Pile([f EXCEPT ![t] = v])) = Cardinality(Pile([f EXCEPT ![t] = 0])) + v
<1> DEFINE g == [f EXCEPT ![t] = v]
           h == [f EXCEPT ![t] = 0]
           own == {t} \X (1..v)
<1>1. Amount \in Nat /\ v \in Nat /\ v <= Amount
  BY BudgetAssumption
<1>2. g \in [Tokens -> 0..Amount] /\ h \in [Tokens -> 0..Amount]
  BY <1>1
<1>3. \A u \in Tokens : g[u] = (IF u = t THEN v ELSE f[u]) /\ h[u] = (IF u = t THEN 0 ELSE f[u])
  OBVIOUS
<1>4. IsFiniteSet(own) /\ Cardinality(own) = v
  <2>1. IsFiniteSet({t}) /\ Cardinality({t}) = 1
    BY FS_Singleton
  <2>2. IsFiniteSet(1..v) /\ Cardinality(1..v) = v
    BY <1>1, UpTo
  <2>3. IsFiniteSet(own) /\ Cardinality(own) = Cardinality({t}) * Cardinality(1..v)
    BY <2>1, <2>2, FS_Product
  <2>4. 1 * v = v
    BY <1>1
  <2> QED
    BY <2>1, <2>2, <2>3, <2>4
<1> HIDE DEF g, h
<1>5. Pile(g) = Pile(h) \cup own
  <2>1. ASSUME NEW unit \in Tokens \X (1..Amount)
        PROVE  unit[2] <= g[unit[1]] <=> unit[2] <= h[unit[1]] \/ unit \in own
    <3>1. unit[1] \in Tokens /\ unit[2] \in 1..Amount /\ unit = <<unit[1], unit[2]>>
      OBVIOUS
    <3>2. unit \in own <=> unit[1] = t /\ unit[2] \in 1..v
      BY <3>1
    <3> QED
      BY <1>1, <1>3, <3>1, <3>2
  <2>2. own \subseteq Tokens \X (1..Amount)
    BY <1>1
  <2> HIDE DEF own
  <2> QED
    BY <2>1, <2>2 DEF Pile
<1>6. Pile(h) \cap own = {}
  BY <1>1, <1>3 DEF Pile
<1>7. IsFiniteSet(Pile(h)) /\ Cardinality(Pile(h)) \in Nat
  BY <1>2, PileFinite
<1> HIDE DEF own
<1>8. Cardinality(Pile(h) \cup own) = Cardinality(Pile(h)) + Cardinality(own) - 0
  BY <1>4, <1>6, <1>7, FS_Union, FS_EmptySet
<1>9. Cardinality(Pile(g)) = Cardinality(Pile(h)) + v
  BY <1>1, <1>4, <1>5, <1>7, <1>8
<1> QED
  BY <1>9 DEF g, h

\* The bills of one reservation change.
LEMMA PileMoves ==
  ASSUME NEW f \in [Tokens -> 0..Amount], NEW t \in Tokens, NEW v \in 0..Amount
  PROVE  /\ [f EXCEPT ![t] = v] \in [Tokens -> 0..Amount]
         /\ Cardinality(Pile([f EXCEPT ![t] = v])) = Cardinality(Pile(f)) - f[t] + v
<1>1. f[t] \in 0..Amount /\ 0 \in 0..Amount
  BY BudgetAssumption
<1>2. [f EXCEPT ![t] = f[t]] = f
  OBVIOUS
<1>3. [f EXCEPT ![t] = v] \in [Tokens -> 0..Amount] /\ [f EXCEPT ![t] = 0] \in [Tokens -> 0..Amount]
  BY <1>1
<1>4. Cardinality(Pile(f)) = Cardinality(Pile([f EXCEPT ![t] = 0])) + f[t]
  BY <1>1, <1>2, PileOfOne
<1>5. Cardinality(Pile([f EXCEPT ![t] = v])) = Cardinality(Pile([f EXCEPT ![t] = 0])) + v
  BY PileOfOne
<1>6. Cardinality(Pile([f EXCEPT ![t] = 0])) \in Nat
  BY <1>3, PileFinite
<1>7. f[t] \in Nat /\ v \in Nat
  BY <1>1, ConstantsTyped
<1> QED
  BY <1>3, <1>4, <1>5, <1>6, <1>7

\* The bills of the uncharged reservations fit into their allowances.
LEMMA PileFits ==
  ASSUME TypeOK, NEW f \in [Tokens -> 0..Amount], \A t \in Tokens \ uncharged : f[t] = 0
  PROVE  Cardinality(Pile(f)) <= Amount * Cardinality(uncharged)
<1>1. Amount \in Nat /\ IsFiniteSet(1..Amount) /\ Cardinality(1..Amount) = Amount
  BY ConstantsTyped, UpTo
<1>2. IsFiniteSet(uncharged) /\ Cardinality(uncharged) \in Nat
  BY HoldsFinite
<1>3. /\ IsFiniteSet(uncharged \X (1..Amount))
      /\ Cardinality(uncharged \X (1..Amount)) = Cardinality(uncharged) * Amount
  BY <1>1, <1>2, FS_Product
<1>4. Pile(f) \in SUBSET (uncharged \X (1..Amount))
  <2> SUFFICES ASSUME NEW unit \in Tokens \X (1..Amount), unit[2] <= f[unit[1]]
               PROVE  unit \in uncharged \X (1..Amount)
    BY DEF Pile
  <2>1. unit[1] \in Tokens /\ unit[2] \in 1..Amount /\ unit = <<unit[1], unit[2]>>
    OBVIOUS
  <2>2. f[unit[1]] # 0
    BY <1>1, <2>1
  <2> QED
    BY <2>1, <2>2
<1>5. Cardinality(Pile(f)) <= Cardinality(uncharged) * Amount
  BY <1>3, <1>4, FS_Subset
<1>6. Cardinality(uncharged) * Amount = Amount * Cardinality(uncharged)
  BY <1>1, <1>2
<1> QED
  BY <1>5, <1>6

Unbilled == {"claim", "giveup", "look", "record", "release"}
Billing == {"author", "review", "charge"}

\* What a step of task r must show: g are the bills afterwards, other reservations' as before.
LEMMA BillsStep ==
  ASSUME BudgetInv, NEW r \in Runners,
         NEW f \in [Tokens -> 0..Amount], BillsOf(f), NEW g \in [Tokens -> 0..Amount],
         \A t \in Tokens : t # task[r].token => g[t] = f[t],
         real' <= spent' + Cardinality(Pile(g)),
         \A t \in Tokens \ uncharged' : g[t] = 0,
         \A q \in Runners \ {r} : task'[q] = task[q],
         task'[r].step \in Unbilled => g[task'[r].token] = 0,
         task'[r].step \in Billing => g[task'[r].token] <= task'[r].cost
  PROVE  BillsInv'
<1>1. ASSUME NEW q \in Runners \ {r}, task[q].step \in Unbilled \cup Billing
      PROVE  g[task[q].token] = f[task[q].token]
  <2>1. task[q].token \in Tokens /\ task[q].token # None
    BY <1>1, BudgetAssumption DEF BudgetInv, TaskInv, Unbilled, Billing
  <2>2. task[q].token # task[r].token
    BY <2>1 DEF BudgetInv, TaskInv
  <2> QED
    BY <2>1, <2>2
<1>2. \A q \in Runners :
        /\ task'[q].step \in Unbilled => g[task'[q].token] = 0
        /\ task'[q].step \in Billing => g[task'[q].token] <= task'[q].cost
  BY <1>1 DEF BillsOf, Unbilled, Billing
<1>3. BillsOf(g)'
  BY <1>2 DEF BillsOf, Unbilled, Billing
<1> QED
  BY <1>3 DEF BillsInv

\* A call of task r bills, and is charged to the task or interrupts it.
LEMMA BillsGrow ==
  ASSUME BudgetInv, BillsInv, NEW r \in Runners, task[r].step \in {"author", "review"},
         NEW cost \in Nat, NEW bill \in Nat, bill <= cost, task[r].cost + cost <= Amount,
         real' = real + bill, UNCHANGED <<spent, uncharged>>,
         \A q \in Runners \ {r} : task'[q] = task[q],
         \/ /\ task'[r].step \in Billing
            /\ task'[r].token = task[r].token /\ task'[r].cost = task[r].cost + cost
         \/ task'[r].step \in {"idle", "unlease"}
  PROVE  BillsInv'
<1>1. PICK f \in [Tokens -> 0..Amount] : BillsOf(f)
  BY DEF BillsInv
<1>2. PICK t \in uncharged : t = task[r].token
  BY DEF BudgetInv, TaskInv, Reserved
<1>3. t \in Tokens /\ task[r].cost \in 0..Amount /\ real \in Nat /\ spent \in Nat
  BY DEF BudgetInv, TypeOK, Task
<1>4. f[t] \in Nat /\ f[t] <= task[r].cost /\ Amount \in Nat
  BY <1>1, <1>2, <1>3, ConstantsTyped DEF BillsOf
<1>5. PICK v \in 0..Amount : v = f[t] + cost
  BY <1>3, <1>4, ConstantsTyped
<1> DEFINE g == [f EXCEPT ![t] = v]
<1>6. g \in [Tokens -> 0..Amount] /\ Cardinality(Pile(g)) = Cardinality(Pile(f)) - f[t] + v
  BY <1>3, PileMoves
<1>7. Cardinality(Pile(f)) \in Nat
  BY PileFinite
<1>8. real' <= spent' + Cardinality(Pile(g))
  <2>1. Cardinality(Pile(g)) = Cardinality(Pile(f)) + cost
    BY <1>4, <1>5, <1>6, <1>7
  <2>2. real <= spent + Cardinality(Pile(f))
    BY <1>1 DEF BillsOf
  <2> HIDE DEF g
  <2> QED
    BY <1>3, <1>7, <2>1, <2>2
<1>9. \A u \in Tokens : u # task[r].token => g[u] = f[u]
  BY <1>2
<1>10. g[t] = v /\ v <= task[r].cost + cost
  BY <1>3, <1>4, <1>5
<1>11. \A u \in Tokens \ uncharged' : g[u] = 0
  BY <1>1, <1>2 DEF BillsOf
<1> HIDE DEF g
<1>12. /\ task'[r].step \in Unbilled => g[task'[r].token] = 0
       /\ task'[r].step \in Billing => g[task'[r].token] <= task'[r].cost
  BY <1>2, <1>10 DEF Unbilled, Billing
<1> QED
  BY <1>1, <1>6, <1>8, <1>9, <1>11, <1>12, BillsStep

\* A step that bills nothing and charges nothing.
LEMMA BillsStay ==
  ASSUME BudgetInv, BillsInv, NEW r \in Runners, UNCHANGED <<real, spent>>,
         \A q \in Runners \ {r} : task'[q] = task[q],
         \/ UNCHANGED uncharged
         \/ \E t \in Tokens : uncharged' = uncharged \cup {t}
         \/ task[r].step \in {"giveup", "release"} /\ uncharged' = uncharged \ {task[r].token},
         \/ task'[r].step \in {"idle", "reserve", "unlease"}
         \/ task'[r].step \in Unbilled \cup Billing /\ task[r].step \in Unbilled /\ task'[r].token = task[r].token
            /\ task'[r].cost \in Nat
         \/ task'[r].step \in Unbilled /\ task'[r].token \in Tokens \ uncharged
  PROVE  BillsInv'
<1>1. PICK f \in [Tokens -> 0..Amount] : BillsOf(f)
  BY DEF BillsInv
<1>2. real' <= spent' + Cardinality(Pile(f))
  BY <1>1 DEF BillsOf
<1>3. task[r].step \in Unbilled => f[task[r].token] = 0
  BY <1>1 DEF BillsOf, Unbilled
<1>4. \A t \in Tokens \ uncharged' : f[t] = 0
  BY <1>1, <1>3 DEF BillsOf, Unbilled
<1>5. /\ task'[r].step \in Unbilled => f[task'[r].token] = 0
      /\ task'[r].step \in Billing => f[task'[r].token] <= task'[r].cost
  BY <1>1, <1>3 DEF BillsOf, Unbilled, Billing
<1> QED
  BY <1>1, <1>2, <1>4, <1>5, BillsStep

\* The task charges what it was billed.
LEMMA BillsCharged ==
  ASSUME BudgetInv, BillsInv, NEW r \in Runners, Charge(r)
  PROVE  BillsInv'
<1>1. PICK f \in [Tokens -> 0..Amount] : BillsOf(f)
  BY DEF BillsInv
<1>2. PICK t \in uncharged : t = task[r].token
  BY DEF BudgetInv, TaskInv, Reserved, Charge
<1>3. t \in Tokens /\ task[r].cost \in 0..Amount /\ real \in Nat /\ spent \in Nat /\ task[r] \in Task
  BY DEF BudgetInv, TypeOK, Task
<1>4. f[t] \in Nat /\ f[t] <= task[r].cost /\ 0 \in 0..Amount /\ task[r].cost \in Nat
  BY <1>1, <1>2, <1>3, ConstantsTyped DEF BillsOf, Charge
<1>0. PICK none \in 0..Amount : none = 0
  BY <1>4
<1> DEFINE g == [f EXCEPT ![t] = none]
<1>5. g \in [Tokens -> 0..Amount] /\ Cardinality(Pile(g)) = Cardinality(Pile(f)) - f[t] + none
  <2>1. t \in Tokens
    BY <1>3
  <2> QED
    BY <2>1, PileMoves
<1>6. Cardinality(Pile(f)) \in Nat /\ Cardinality(Pile(g)) \in Nat
  BY <1>5, PileFinite
<1>7. real' = real /\ spent' = spent + task[r].cost /\ uncharged' = uncharged \ {t}
  BY <1>2 DEF Charge
<1>8. real' <= spent' + Cardinality(Pile(g))
  <2>1. real <= spent + Cardinality(Pile(f))
    BY <1>1 DEF BillsOf
  <2> HIDE DEF g
  <2> QED
    BY <1>0, <1>3, <1>4, <1>5, <1>6, <1>7, <2>1
<1>9. \A u \in Tokens : u # task[r].token => g[u] = f[u]
  BY <1>2
<1>10. \A u \in Tokens \ uncharged' : g[u] = 0
  BY <1>0, <1>1, <1>3, <1>7 DEF BillsOf
<1>11. task'[r].step = "record" /\ task'[r].token = t /\ \A q \in Runners \ {r} : task'[q] = task[q]
  BY <1>2, <1>3 DEF Charge, Goes, BudgetInv, TypeOK, Task
<1>12. g[t] = 0
  BY <1>0, <1>3
<1> HIDE DEF g
<1> QED
  BY <1>1, <1>5, <1>8, <1>9, <1>10, <1>11, <1>12, BillsStep DEF Unbilled, Billing

\* A step of task r leaves the other tasks alone.
LEMMA OthersStay ==
  ASSUME BudgetInv, NEW r \in Runners, Step(r) \/ Raises(r) \/ Killed(r)
  PROVE  \A q \in Runners \ {r} : task'[q] = task[q]
BY DEF BudgetInv, TypeOK, Step, Pick, Reserve, Claim, GiveUp, Look, AuthorAnswers, AuthorFails, Reviews,
       Billed, Charge, Put, Release, Unlease, Raises, Killed, Goes

LEMMA BillsAdmitted ==
  ASSUME BudgetInv, BillsInv, NEW r \in Runners,
         Pick(r) \/ Reserve(r) \/ Claim(r) \/ GiveUp(r) \/ Look(r)
  PROVE  BillsInv'
<1>0. UNCHANGED <<real, spent>> /\ \A q \in Runners \ {r} : task'[q] = task[q]
  BY OthersStay DEF Step, Pick, Reserve, Claim, GiveUp, Look
<1>1. task[r] \in Task /\ task[r].cost \in Nat /\ task \in [Runners -> Task]
  BY ConstantsTyped DEF BudgetInv, TypeOK, Task
<1>2. CASE Pick(r)
  <2>1. task'[r].step = "reserve" /\ UNCHANGED uncharged
    BY <1>1, <1>2 DEF Pick, NoTask
  <2> QED
    BY <1>0, <2>1, BillsStay
<1>3. CASE Reserve(r)
  <2>1. CASE task' = [task EXCEPT ![r] = NoTask] /\ UNCHANGED uncharged
    <3>1. task'[r].step = "idle"
      BY <1>1, <2>1 DEF NoTask
    <3> QED
      BY <1>0, <2>1, <3>1, BillsStay
  <2>2. ASSUME NEW t \in Unused, uncharged' = uncharged \cup {t},
               task' = [task EXCEPT ![r].step = "claim", ![r].token = t]
        PROVE  BillsInv'
    <3>1. t \in Tokens /\ t \notin uncharged
      BY DEF Unused, BudgetInv, TypeOK
    <3>2. task'[r].step = "claim" /\ task'[r].token = t
      BY <1>1, <2>2 DEF Task
    <3> QED
      BY <1>0, <2>2, <3>1, <3>2, BillsStay DEF Unbilled
  <2> QED
    BY <1>3, <2>1, <2>2 DEF Reserve
<1>4. CASE Claim(r) \/ Look(r)
  <2>1. /\ UNCHANGED uncharged /\ task[r].step \in Unbilled /\ task'[r].step \in Unbilled \cup Billing
        /\ task'[r].token = task[r].token /\ task'[r].cost \in Nat
    BY <1>1, <1>4 DEF Claim, Look, Goes, Task, Unbilled, Billing
  <2> QED
    BY <1>0, <2>1, BillsStay
<1>5. CASE GiveUp(r)
  <2>1. /\ task'[r].step = "idle" /\ task[r].step = "giveup"
        /\ uncharged' = uncharged \ {task[r].token}
    BY <1>1, <1>5 DEF GiveUp, NoTask
  <2> QED
    BY <1>0, <2>1, BillsStay
<1> QED
  BY <1>2, <1>3, <1>4, <1>5

LEMMA BillsCalled ==
  ASSUME BudgetInv, BillsInv, NEW r \in Runners, AuthorAnswers(r) \/ AuthorFails(r) \/ Reviews(r)
  PROVE  BillsInv'
<1>1. /\ task[r].step \in {"author", "review"} /\ UNCHANGED <<spent, uncharged>>
      /\ task[r] \in Task /\ task \in [Runners -> Task]
  BY DEF AuthorAnswers, AuthorFails, Reviews, BudgetInv, TypeOK
<1>2. PICK next \in {"author", "review", "charge"}, cost \in Nat, bill \in Nat, failed \in BOOLEAN :
        bill <= cost /\ task[r].cost + cost <= Amount /\ Billed(r, next, cost, bill, failed)
  BY CallBilled
<1>3. /\ task'[r].step \in Billing /\ task'[r].token = task[r].token
      /\ task'[r].cost = task[r].cost + cost /\ real' = real + bill
  BY <1>1, <1>2 DEF Billed, Billing, Task
<1>4. \A q \in Runners \ {r} : task'[q] = task[q]
  BY OthersStay DEF Step
<1> QED
  BY <1>1, <1>2, <1>3, <1>4, BillsGrow

\* Whatever a call under way may still bill fits into the allowance of its task.
LEMMA BillsInterrupted ==
  ASSUME BudgetInv, BillsInv, NEW r \in Runners, Raises(r) \/ Killed(r)
  PROVE  BillsInv'
<1>1. /\ UNCHANGED <<spent, uncharged>> /\ real' = real + InFlight(r)
      /\ \A q \in Runners \ {r} : task'[q] = task[q]
      /\ task[r] \in Task /\ task \in [Runners -> Task] /\ real \in Nat
  BY OthersStay DEF Raises, Killed, BudgetInv, TypeOK
<1>2. task'[r].step \in {"idle", "unlease"}
  BY <1>1 DEF Raises, Killed, Goes, NoTask, Task
<1>3. task[r].cost \in 0..Amount /\ Amount \in Nat /\ Headroom \in Nat
  BY <1>1, ConstantsTyped DEF Task
<1>4. CASE task[r].step \in {"author", "review"}
  <2>1. InFlight(r) \in Nat /\ task[r].cost + InFlight(r) <= Amount
    BY <1>3, <1>4 DEF InFlight, Paying, Admits
  <2>2. PICK n \in Nat : n = InFlight(r)
    BY <2>1
  <2> QED
    BY <1>1, <1>2, <1>4, <2>1, <2>2, BillsGrow
<1>5. CASE task[r].step \notin {"author", "review"}
  <2>1. InFlight(r) = 0
    BY <1>5 DEF InFlight, Paying
  <2> QED
    BY <1>1, <1>2, <2>1, BillsStay
<1> QED
  BY <1>4, <1>5

LEMMA BillsNext == BudgetInv /\ BillsInv /\ [Next]_vars => BillsInv'
<1> SUFFICES ASSUME BudgetInv, BillsInv, [Next]_vars PROVE BillsInv'
  OBVIOUS
<1>1. ASSUME NEW r \in Runners, Put(r) \/ Release(r) \/ Unlease(r) PROVE BillsInv'
  <2>1. UNCHANGED <<real, spent>> /\ \A q \in Runners \ {r} : task'[q] = task[q]
    BY <1>1, OthersStay DEF Step, Put, Release, Unlease
  <2>2. task[r] \in Task /\ task \in [Runners -> Task] /\ task[r].cost \in Nat
    BY ConstantsTyped DEF BudgetInv, TypeOK, Task
  <2>3. CASE Put(r)
    <3>1. /\ task[r].step = "record" /\ task'[r].step = "release" /\ UNCHANGED uncharged
          /\ task'[r].token = task[r].token /\ task'[r].cost = task[r].cost
      BY <2>2, <2>3 DEF Put, Goes, Task
    <3> QED
      BY <2>1, <2>2, <3>1, BillsStay DEF Unbilled
  <2>4. CASE Release(r)
    <3>1. /\ task[r].step = "release" /\ task'[r].step = "unlease"
          /\ uncharged' = uncharged \ {task[r].token}
      BY <2>2, <2>4 DEF Release, Goes, Task
    <3> QED
      BY <2>1, <3>1, BillsStay
  <2>5. CASE Unlease(r)
    <3>1. task'[r].step = "idle" /\ UNCHANGED uncharged
      BY <2>2, <2>5 DEF Unlease, NoTask
    <3> QED
      BY <2>1, <3>1, BillsStay
  <2> QED
    BY <1>1, <2>3, <2>4, <2>5
<1>2. ASSUME NEW r \in Runners, Step(r) PROVE BillsInv'
  BY <1>1, <1>2, BillsAdmitted, BillsCalled, BillsCharged DEF Step
<1>3. ASSUME UNCHANGED <<real, spent, task, uncharged>> PROVE BillsInv'
  BY <1>3 DEF BillsInv, BillsOf
<1>4. CASE UNCHANGED vars
  BY <1>3, <1>4 DEF vars
<1>5. ASSUME NEW s \in Symbols, LeaseOver(s) \/ BackoffOver(s) PROVE BillsInv'
  BY <1>3, <1>5 DEF LeaseOver, BackoffOver
<1> QED
  BY <1>2, <1>4, <1>5, BillsInterrupted DEF Next

\* The providers bill no more than the cap of the day, whatever is killed, suspended or raises in
\* the middle of a paid call: a bill that nobody charged stays under the allowance that its
\* reservation keeps (reserve, _ask, charge).
THEOREM BillsFit == Spec => []BilledWithinCap
<1>1. Init => BillsInv
  <2> SUFFICES ASSUME Init PROVE BillsInv
    OBVIOUS
  <2> DEFINE none == [t \in Tokens |-> 0]
  <2>1. none \in [Tokens -> 0..Amount] /\ \A t \in Tokens : none[t] = 0
    BY ConstantsTyped
  <2>2. \A r \in Runners : task[r].step = "idle"
    BY DEF Init, NoTask
  <2>3. real = 0 /\ spent = 0
    BY DEF Init
  <2> HIDE DEF none
  <2>4. Cardinality(Pile(none)) \in Nat
    BY <2>1, PileFinite
  <2>5. BillsOf(none)
    BY <2>1, <2>2, <2>3, <2>4 DEF BillsOf
  <2> QED
    BY <2>1, <2>5 DEF BillsInv
<1>2. BudgetInv /\ BillsInv => BilledWithinCap
  <2> SUFFICES ASSUME BudgetInv, BillsInv PROVE real <= Cap
    BY DEF BilledWithinCap
  <2>1. PICK f \in [Tokens -> 0..Amount] : BillsOf(f)
    BY DEF BillsInv
  <2>2. Cardinality(Pile(f)) <= Amount * Cardinality(uncharged)
    BY <2>1, PileFits DEF BillsOf, BudgetInv
  <2>3. Cardinality(Pile(f)) \in Nat /\ Cardinality(uncharged) \in Nat
    BY PileFinite, HoldsFinite DEF BudgetInv
  <2>4. PICK n \in Nat : n = Amount * Cardinality(uncharged)
    BY <2>3, ConstantsTyped
  <2>5. real <= spent + Cardinality(Pile(f)) /\ spent + n <= Cap
    BY <2>1, <2>4 DEF BillsOf, BudgetInv, CommittedFits
  <2>6. real \in Nat /\ spent \in Nat /\ Cap \in Nat
    BY ConstantsTyped DEF BudgetInv, TypeOK
  <2> QED
    BY <2>2, <2>3, <2>4, <2>5, <2>6
<1> QED
  BY <1>1, <1>2, BillsNext, BudgetCorrect, PTL DEF Spec
=============================================================================
