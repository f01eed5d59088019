--------------------------- MODULE ResearchBudget ---------------------------
(***************************************************************************)
(* One morning of paid catalyst research: a task reserves its allowance    *)
(* from the cap of the day, takes the lease of its symbol, calls models    *)
(* that bill, charges what it used, records what it found, and gives the   *)
(* reservation and the lease back.  Every step is a transaction or a call  *)
(* of its own, and two containers may run ticks at the same time.          *)
(*                                                                         *)
(* A task that is interrupted keeps its reservation: it may have been      *)
(* billed for a call that nobody charged.                                  *)
(***************************************************************************)
EXTENDS Integers, FiniteSets, Sequences

CONSTANTS
  Runners,     \* containers that run edge ticks
  Queue,       \* the symbols of the research queue, in its order
  Tokens,      \* names of reservations
  Cap,         \* EDGE_RESEARCH_DAILY_USD
  Amount,      \* EDGE_RESEARCH_TASK_RESERVE_USD
  Headroom,    \* CALL_HEADROOM_USD, the most a call is taken to cost
  FailedCost,  \* FAILED_CALL_USD, the most a call that raised is taken to have billed
  MaxAttempts,
  None,
  MaxFaults    \* bound: processes killed or suspended, steps that raise

ASSUME BudgetAssumption ==
  /\ {Cap, MaxFaults} \subseteq Nat
  /\ {Amount, Headroom, FailedCost, MaxAttempts} \subseteq Nat \ {0}
  /\ FailedCost <= Headroom /\ Headroom <= Amount
  /\ Tokens \in SUBSET Nat /\ IsFiniteSet(Tokens) /\ None \notin Tokens

Symbols == {Queue[i] : i \in DOMAIN Queue}

VARIABLES
  spent,      \* spent_usd of the day's row
  holds,      \* its reservations
  lease,      \* [Symbols -> the owner of the lease of the symbol, and whether its time is over]
  record,     \* [Symbols -> edge_research]
  task,       \* [Runners -> the task a tick of it is at]
  uncharged,  \* history: reservations whose task has not been charged
  real,       \* history: the most that the providers may have billed
  faults,     \* interruptions
  suspended   \* history: a lease ended while its task was still running

vars == <<spent, holds, lease, record, task, uncharged, real, faults, suspended>>

\* A failed task backs off, and is then due again.
Statuses == {"none", "backoff", "retry", "done"}
Steps == {"idle", "reserve", "claim", "giveup", "look", "author", "review", "charge", "record", "release", "unlease"}

Lease == [owner : Tokens \cup {None}, over : BOOLEAN]
Record == [status : Statuses, attempts : 0..MaxAttempts]
Task == [step : Steps, symbol : Symbols \cup {None}, token : Tokens \cup {None},
         attempts : 0..MaxAttempts, cost : 0..Amount, failed : BOOLEAN]

Free == [owner |-> None, over |-> FALSE]
NoRecord == [status |-> "none", attempts |-> 0]
NoTask == [step |-> "idle", symbol |-> None, token |-> None, attempts |-> 0, cost |-> 0, failed |-> FALSE]

Init ==
  /\ spent = 0 /\ holds = {}
  /\ lease = [s \in Symbols |-> Free]
  /\ record = [s \in Symbols |-> NoRecord]
  /\ task = [r \in Runners |-> NoTask]
  /\ uncharged = {} /\ real = 0 /\ faults = 0 /\ suspended = FALSE

Fault == faults < MaxFaults /\ faults' = faults + 1
Goes(r, step) == task' = [task EXCEPT ![r].step = step]

Due(s) == record[s].status = "none" \/ (record[s].status = "retry" /\ record[s].attempts < MaxAttempts)

-----------------------------------------------------------------------------
(* Admission: research_step and research_symbol.                           *)

\* The first symbol of the queue that is due.
Pick(r) ==
  /\ task[r].step = "idle"
  /\ \E i \in DOMAIN Queue :
       /\ Due(Queue[i]) /\ \A j \in 1..(i - 1) : ~Due(Queue[j])
       /\ task' = [task EXCEPT ![r] = [NoTask EXCEPT !.step = "reserve", !.symbol = Queue[i]]]
  /\ UNCHANGED <<spent, holds, lease, record, uncharged, real, faults, suspended>>

\* Mutant: reservations of tasks that have not been charged do not count.
Fits_SpentOnly == spent + Amount <= Cap

Fits == spent + Amount * Cardinality(holds) + Amount <= Cap

\* A new name; the lowest that is not in use stands for it.
Unused ==
  {t \in Tokens \ holds : (\A s \in Symbols : lease[s].owner # t) /\ \A r \in Runners : task[r].token # t}

Reserve(r) ==
  /\ task[r].step = "reserve"
  /\ \/ /\ Fits
        /\ \E t \in Unused :
             /\ \A u \in Unused : t <= u
             /\ holds' = holds \cup {t} /\ uncharged' = uncharged \cup {t}
             /\ task' = [task EXCEPT ![r].step = "claim", ![r].token = t]
     \/ ~Fits /\ task' = [task EXCEPT ![r] = NoTask] /\ UNCHANGED <<holds, uncharged>>
  /\ UNCHANGED <<spent, lease, record, real, faults, suspended>>

\* Mutant: a lease that is held by another may be taken.
Takeable_Always(s) == TRUE

Takeable(s) == lease[s].owner = None \/ lease[s].over

Claim(r) ==
  /\ task[r].step = "claim"
  /\ LET s == task[r].symbol
     IN  \/ /\ Takeable(s)
            /\ lease' = [lease EXCEPT ![s] = [owner |-> task[r].token, over |-> FALSE]]
            /\ Goes(r, "look")
         \/ ~Takeable(s) /\ Goes(r, "giveup") /\ UNCHANGED lease
  /\ UNCHANGED <<spent, holds, record, uncharged, real, faults, suspended>>

\* The symbol is being researched by another: nothing was paid.
GiveUp(r) ==
  /\ task[r].step = "giveup"
  /\ holds' = holds \ {task[r].token} /\ uncharged' = uncharged \ {task[r].token}
  /\ task' = [task EXCEPT ![r] = NoTask]
  /\ UNCHANGED <<spent, lease, record, real, faults, suspended>>

\* Mutant: what another finished since the symbol was picked is not looked at.
StillDue_AsPicked(r) == TRUE

\* The record is read again under the lease.
StillDue(r) == Due(task[r].symbol) /\ spent < Cap

Look(r) ==
  /\ task[r].step = "look"
  /\ IF StillDue(r)
     THEN task' = [task EXCEPT ![r].step = "author", ![r].attempts = record[task[r].symbol].attempts + 1]
     ELSE Goes(r, "release")
  /\ UNCHANGED <<spent, holds, lease, record, uncharged, real, faults, suspended>>

-----------------------------------------------------------------------------
(* The paid calls: _ask for the author and the reviewer, and the other     *)
(* provider's review.                                                      *)

\* Mutant: the headroom is checked against the allowance alone.
Admits_Whole(r) == Headroom <= Amount

Admits(r) == task[r].cost + Headroom <= Amount

\* The task goes on at `step`, `cost` dearer for a call that billed `bill`.
Billed(r, step, cost, bill, failed) ==
  /\ task' = [task EXCEPT ![r].step = step, ![r].cost = @ + cost, ![r].failed = failed]
  /\ real' = real + bill

\* The author answers, with claims to review or without, or pauses and is asked again.
AuthorAnswers(r) ==
  /\ task[r].step = "author" /\ Admits(r)
  /\ \E bill \in 1..Headroom, next \in {"author", "review", "charge"} : Billed(r, next, bill, bill, FALSE)
  /\ UNCHANGED <<spent, holds, lease, record, uncharged, faults, suspended>>

\* Mutant: a call that raised is not charged.
Estimate_Nothing == 0

Estimate == FailedCost

\* A call that raised may have been billed and is charged an estimate, unless it was
\* rejected before any work; without headroom there is no call at all.
AuthorFails(r) ==
  /\ task[r].step = "author"
  /\ \/ Admits(r) /\ Billed(r, "charge", Estimate, FailedCost, TRUE)
     \/ Billed(r, "charge", 0, 0, TRUE)
  /\ UNCHANGED <<spent, holds, lease, record, uncharged, faults, suspended>>

\* A review that answers, pauses or cannot be used, by the author's model or by another
\* provider, whose own estimate has to fit; none may come at all.
Reviews(r) ==
  /\ task[r].step = "review"
  /\ \/ \E bill \in 1..Headroom, next \in {"review", "charge"} :
          task[r].cost + bill <= Amount /\ Billed(r, next, bill, bill, FALSE)
     \/ Admits(r) /\ Billed(r, "charge", Estimate, FailedCost, FALSE)
     \/ Billed(r, "charge", 0, 0, FALSE)
  /\ UNCHANGED <<spent, holds, lease, record, uncharged, faults, suspended>>

-----------------------------------------------------------------------------
(* The end of a task.                                                      *)

Charge(r) ==
  /\ task[r].step = "charge"
  /\ spent' = spent + task[r].cost
  /\ uncharged' = uncharged \ {task[r].token}
  /\ Goes(r, "record")
  /\ UNCHANGED <<holds, lease, record, real, faults, suspended>>

Put(r) ==
  /\ task[r].step = "record"
  /\ record' = [record EXCEPT ![task[r].symbol] =
       [status |-> IF task[r].failed THEN "backoff" ELSE "done", attempts |-> task[r].attempts]]
  /\ Goes(r, "release")
  /\ UNCHANGED <<spent, holds, lease, uncharged, real, faults, suspended>>

\* Mutant: a task that has ended keeps its reservation.
Held_Kept(r) == holds

Held(r) == holds \ {task[r].token}

Release(r) ==
  /\ task[r].step = "release"
  /\ holds' = Held(r) /\ uncharged' = uncharged \ {task[r].token}
  /\ Goes(r, "unlease")
  /\ UNCHANGED <<spent, lease, record, real, faults, suspended>>

\* Only the owner releases a lease.
Unlease(r) ==
  /\ task[r].step = "unlease"
  /\ lease' = [s \in Symbols |-> IF s = task[r].symbol /\ lease[s].owner = task[r].token THEN Free ELSE lease[s]]
  /\ task' = [task EXCEPT ![r] = NoTask]
  /\ UNCHANGED <<spent, holds, record, uncharged, real, faults, suspended>>

-----------------------------------------------------------------------------
(* Interruptions and time.                                                 *)

Paying(r) == task[r].step \in {"author", "review"}

\* What a call that is under way may still bill.
InFlight(r) ==
  CASE Paying(r) /\ Admits(r) -> Headroom
    [] task[r].step = "review" /\ ~Admits(r) -> Amount - task[r].cost
    [] OTHER -> 0

\* Under the lease a step raises: the lease goes, the reservation stays.
Raises(r) ==
  /\ task[r].step \in {"look", "author", "review", "charge", "record", "release"}
  /\ real' = real + InFlight(r)
  /\ Goes(r, "unlease")
  /\ Fault
  /\ UNCHANGED <<spent, holds, lease, record, uncharged, suspended>>

\* The process is killed, in the middle of a call too.
Killed(r) ==
  /\ task[r].step # "idle"
  /\ real' = real + InFlight(r)
  /\ task' = [task EXCEPT ![r] = NoTask]
  /\ Fault
  /\ UNCHANGED <<spent, holds, lease, record, uncharged, suspended>>

Alive(s) == \E r \in Runners : task[r].token = lease[s].owner

\* The timeouts of its calls end a task before its lease does, unless it is suspended.
LeaseOver(s) ==
  /\ lease[s].owner # None /\ ~lease[s].over
  /\ lease' = [lease EXCEPT ![s].over = TRUE]
  /\ \/ ~Alive(s) /\ UNCHANGED <<faults, suspended>>
     \/ Alive(s) /\ Fault /\ suspended' = TRUE
  /\ UNCHANGED <<spent, holds, record, task, uncharged, real>>

\* All checks of one task use the clock it read when it started, moments before them.
BackoffOver(s) ==
  /\ record[s].status = "backoff"
  /\ \A r \in Runners : task[r].symbol = s => task[r].step \notin {"reserve", "claim", "look"}
  /\ record' = [record EXCEPT ![s].status = "retry"]
  /\ UNCHANGED <<spent, holds, lease, task, uncharged, real, faults, suspended>>

Step(r) ==
  \/ Pick(r) \/ Reserve(r) \/ Claim(r) \/ GiveUp(r) \/ Look(r)
  \/ AuthorAnswers(r) \/ AuthorFails(r) \/ Reviews(r)
  \/ Charge(r) \/ Put(r) \/ Release(r) \/ Unlease(r)

Next ==
  \/ \E r \in Runners : Step(r) \/ Raises(r) \/ Killed(r)
  \/ \E s \in Symbols : LeaseOver(s) \/ BackoffOver(s)

Spec == Init /\ [][Next]_vars

\* The edge job runs again and again in each container, and time goes on.
FairSpec ==
  /\ Spec
  /\ \A r \in Runners : WF_vars(Step(r))
  /\ \A s \in Symbols : WF_vars(~Alive(s) /\ LeaseOver(s)) /\ WF_vars(BackoffOver(s))

-----------------------------------------------------------------------------
(* Properties.                                                             *)

\* Type correctness; a task under way owns a reservation of its own.
TypeOK ==
  /\ spent \in 0..Cap
  /\ holds \subseteq Tokens /\ uncharged \subseteq holds
  /\ lease \in [Symbols -> Lease]
  /\ record \in [Symbols -> Record]
  /\ task \in [Runners -> Task]
  /\ real \in Nat /\ faults \in 0..MaxFaults /\ suspended \in BOOLEAN

\* What was charged, and the allowance of every task that may still be billed or was
\* interrupted before it was charged, fit under the cap together.
CommittedFits == spent + Amount * Cardinality(uncharged) <= Cap

\* Admission leaves every task that runs, or was interrupted, the whole of its allowance.
AllowancesHold == TypeOK /\ CommittedFits

\* The providers never bill more than the cap, whatever is interrupted: as far as no
\* call costs more than its headroom and a failed one no more than its estimate.
BilledWithinCap == real <= Cap

\* Two tasks pay for one symbol at the same time only after one was suspended so long
\* that its lease ended.
PaidOnce ==
  \A r1, r2 \in Runners :
    r1 # r2 /\ Paying(r1) /\ Paying(r2) /\ task[r1].symbol = task[r2].symbol => suspended

\* Research that was recorded is not paid for again, and its record is not replaced,
\* unless a task was suspended: not when one was killed.
RecordKept == [][\A s \in Symbols : record[s].status = "done" => record'[s].status = "done" \/ suspended]_vars

\* On a day without interruptions each symbol is researched, or its attempts are used, or
\* the money is spent: a reservation never keeps money from the other symbols for good.
Answered ==
  <>[](\/ faults > 0
       \/ spent + Amount > Cap
       \/ \A s \in Symbols : record[s].status = "done" \/ record[s].attempts = MaxAttempts)
=============================================================================
