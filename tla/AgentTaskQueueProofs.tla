------------------------ MODULE AgentTaskQueueProofs ------------------------
(***************************************************************************)
(* Theorems about AgentTaskQueue and, from "The workers" on, AgentWorker,  *)
(* for every set of tasks and agents and every value of the bounds.        *)
(***************************************************************************)
EXTENDS AgentWorker, FiniteSetTheorems, SequenceTheorems, TLAPS

-----------------------------------------------------------------------------
(* What the helpers of the model return.                                   *)

\* Ending the newest lease of a history leaves its length, its older leases
\* and the agents and claim times of all of them as they are.
LEMMA ClosedFacts ==
  ASSUME NEW ls \in Seq(LeaseRecord), ls # << >>,
         NEW how \in {"RELEASED", "SUBMITTED", "EXPIRED"}, NEW now \in Nat
  PROVE  /\ Closed(ls, how, now) \in Seq(LeaseRecord)
         /\ Len(Closed(ls, how, now)) = Len(ls)
         /\ DOMAIN Closed(ls, how, now) = DOMAIN ls
         /\ \A l \in DOMAIN ls :
              /\ Closed(ls, how, now)[l].agent = ls[l].agent
              /\ Closed(ls, how, now)[l].at = ls[l].at
              /\ Closed(ls, how, now)[l].end = IF l = Len(ls) THEN how ELSE ls[l].end
              /\ Closed(ls, how, now)[l].endAt = IF l = Len(ls) THEN now ELSE ls[l].endAt
<1> DEFINE r == [ls[Len(ls)] EXCEPT !.end = how, !.endAt = now]
<1>1. Len(ls) \in 1..Len(ls) /\ DOMAIN ls = 1..Len(ls)
  BY EmptySeq
<1>2. ls[Len(ls)] \in LeaseRecord
  BY <1>1, ElementOfSeq
<1>3. /\ r \in LeaseRecord /\ r.end = how /\ r.endAt = now
      /\ r.agent = ls[Len(ls)].agent /\ r.at = ls[Len(ls)].at
  BY <1>2 DEF LeaseRecord
<1>4. Closed(ls, how, now) = [ls EXCEPT ![Len(ls)] = r]
  BY DEF Closed
<1>5. [ls EXCEPT ![Len(ls)] = r] \in Seq(LeaseRecord) /\ Len([ls EXCEPT ![Len(ls)] = r]) = Len(ls)
  BY <1>1, <1>3, ExceptSeq
<1>6. \A l \in DOMAIN ls : [ls EXCEPT ![Len(ls)] = r][l] = IF l = Len(ls) THEN r ELSE ls[l]
  BY <1>1
<1>7. DOMAIN [ls EXCEPT ![Len(ls)] = r] = DOMAIN ls
  OBVIOUS
<1> HIDE DEF r
<1> QED
  BY <1>1, <1>3, <1>4, <1>5, <1>6, <1>7

\* Clearing the lease columns of a row leaves the others, and a row.
LEMMA UnleasedFacts ==
  ASSUME NEW row \in TaskRow, NEW s \in Statuses
  PROVE  /\ Unleased(row, s) \in TaskRow
         /\ Unleased(row, s).status = s
         /\ Unleased(row, s).claimedBy = None
         /\ Unleased(row, s).lease = NoLease
         /\ Unleased(row, s).attempts = row.attempts
         /\ Unleased(row, s).deadline = row.deadline
BY DEF Unleased, TaskRow, NoLease

\* A task that loses its lease is PENDING with attempts left, or dead-lettered.
LEMMA ReturnedFacts ==
  ASSUME TypeOK, NEW t \in Tasks
  PROVE  /\ Returned(t) \in {"PENDING", "DEAD_LETTER"}
         /\ Returned(t) = "PENDING" => task[t].attempts < Request[t].maxAttempts
<1>1. Request[t].maxAttempts \in Nat
  BY RequestAssumption DEF ValidRequest, RequestRecord
<1>2. task[t].attempts \in Nat
  BY DEF TypeOK, TaskRow
<1> QED
  BY <1>1, <1>2 DEF Returned

\* What the ledger says of a row whose newest lease is ended with it.
LEMMA LedgerAfterClose ==
  ASSUME TypeOK, LeaseLedger, NEW t \in Tasks, task[t].status = "CLAIMED",
         NEW how \in {"RELEASED", "SUBMITTED", "EXPIRED"}, NEW now \in Nat,
         NEW s \in Statuses \ {"CLAIMED", "ABSENT"}
  PROVE  /\ Unleased(task[t], s) \in TaskRow
         /\ Closed(leases[t], how, now) \in Seq(LeaseRecord)
         /\ Ledger(t, Unleased(task[t], s), Closed(leases[t], how, now))
<1>1. task[t] \in TaskRow /\ leases[t] \in Seq(LeaseRecord) /\ Ledger(t, task[t], leases[t])
  BY DEF TypeOK, LeaseLedger
<1>2. leases[t] # << >> /\ task[t].lease = Len(leases[t])
  BY <1>1 DEF Ledger
<1> DEFINE u == Unleased(task[t], s)
           c == Closed(leases[t], how, now)
<1>3. /\ u \in TaskRow /\ u.status = s /\ u.claimedBy = None /\ u.lease = NoLease
      /\ u.attempts = task[t].attempts
  BY <1>1, UnleasedFacts
<1>4. /\ c \in Seq(LeaseRecord) /\ Len(c) = Len(leases[t]) /\ DOMAIN c = DOMAIN leases[t]
      /\ \A l \in DOMAIN leases[t] :
           c[l].end = IF l = Len(leases[t]) THEN how ELSE leases[t][l].end
  BY <1>1, <1>2, ClosedFacts
<1>5. ASSUME NEW l \in DOMAIN c
      PROVE  c[l].end # "OPEN" /\ u.lease # l
  <2>1. l \in 1..Len(leases[t])
    BY <1>1, <1>4, LenProperties
  <2>2. leases[t][l].end = "OPEN" <=> l = Len(leases[t])
    BY <1>1, <1>2, <1>4 DEF Ledger
  <2> QED
    BY <1>3, <1>4, <2>1, <2>2 DEF NoLease
<1> HIDE DEF u, c
<1>6. Ledger(t, u, c)
  BY <1>1, <1>3, <1>4, <1>5 DEF Ledger, NoLease
<1> QED
  BY <1>3, <1>4, <1>6 DEF u, c

\* The sweep keeps the ledger, and touches neither the attempts nor the times.
LEMMA SweepFacts ==
  ASSUME TypeOK, LeaseLedger, NEW now \in Nat, NEW t \in Tasks
  PROVE  /\ Swept(now)[t] \in TaskRow
         /\ SweptLeases(now)[t] \in Seq(LeaseRecord)
         /\ Ledger(t, Swept(now)[t], SweptLeases(now)[t])
         /\ Swept(now)[t].status = SweptStatus(t, now)
         /\ Swept(now)[t].attempts = task[t].attempts
<1>1. task[t] \in TaskRow /\ leases[t] \in Seq(LeaseRecord) /\ Ledger(t, task[t], leases[t])
  BY DEF TypeOK, LeaseLedger
<1>2. Returned(t) \in {"PENDING", "DEAD_LETTER"}
  BY ReturnedFacts
<1>3. task[t].status \in Statuses
  BY <1>1 DEF TaskRow
<1>4. CASE task[t].status = "CLAIMED" /\ (Missed(t, now) \/ LeaseOver(t, now))
  <2>1. SweptStatus(t, now) \in {"EXPIRED", "PENDING", "DEAD_LETTER"}
    BY <1>2, <1>4 DEF SweptStatus
  <2>2. SweptStatus(t, now) \in Statuses \ {"CLAIMED", "ABSENT"}
    BY <2>1 DEF Statuses
  <2>3. Swept(now)[t] = Unleased(task[t], SweptStatus(t, now))
    BY <1>4, <2>2 DEF Swept
  <2>4. SweptLeases(now)[t] = Closed(leases[t], "EXPIRED", now)
    BY <1>4 DEF SweptLeases
  <2>5. /\ Unleased(task[t], SweptStatus(t, now)) \in TaskRow
        /\ Closed(leases[t], "EXPIRED", now) \in Seq(LeaseRecord)
        /\ Ledger(t, Unleased(task[t], SweptStatus(t, now)), Closed(leases[t], "EXPIRED", now))
    BY <1>4, <2>2, LedgerAfterClose
  <2>6. /\ Unleased(task[t], SweptStatus(t, now)).status = SweptStatus(t, now)
        /\ Unleased(task[t], SweptStatus(t, now)).attempts = task[t].attempts
    BY <1>1, <2>2, UnleasedFacts
  <2> QED
    BY <2>3, <2>4, <2>5, <2>6
<1>5. CASE ~(task[t].status = "CLAIMED" /\ (Missed(t, now) \/ LeaseOver(t, now)))
  <2>1. SweptLeases(now)[t] = leases[t]
    BY <1>5 DEF SweptLeases
  <2>2. CASE SweptStatus(t, now) = task[t].status
    BY <1>1, <2>1, <2>2 DEF Swept
  <2>3. CASE SweptStatus(t, now) # task[t].status
    <3>1. task[t].status = "PENDING" /\ SweptStatus(t, now) \in {"EXPIRED", "DEAD_LETTER", "PENDING"}
      BY <1>2, <1>5, <2>3 DEF SweptStatus, Missed, Active, LeaseOver, Exhausted
    <3>2. Swept(now)[t] = Unleased(task[t], SweptStatus(t, now))
      BY <2>3 DEF Swept
    <3>3. SweptStatus(t, now) \in Statuses
      BY <3>1 DEF Statuses
    <3> QED
      BY <1>1, <2>1, <3>1, <3>2, <3>3, UnleasedFacts DEF Ledger, NoLease
  <2> QED
    BY <2>2, <2>3
<1> QED
  BY <1>4, <1>5

\* What the sweep leaves PENDING has attempts left.
LEMMA SweepStrandsNothing ==
  ASSUME TypeOK, NEW now \in Nat, NEW t \in Tasks, SweptStatus(t, now) = "PENDING"
  PROVE  task[t].attempts < Request[t].maxAttempts
<1>1. Request[t].maxAttempts \in Nat
  BY RequestAssumption DEF ValidRequest, RequestRecord
<1>2. task[t].attempts \in Nat
  BY DEF TypeOK, TaskRow
<1>3. CASE Missed(t, now)
  BY <1>3 DEF SweptStatus
<1>4. CASE ~Missed(t, now) /\ (LeaseOver(t, now) \/ Exhausted(t))
  BY <1>4, ReturnedFacts DEF SweptStatus
<1>5. CASE ~Missed(t, now) /\ ~LeaseOver(t, now) /\ ~Exhausted(t)
  BY <1>1, <1>2, <1>5 DEF SweptStatus, Exhausted
<1> QED
  BY <1>3, <1>4, <1>5

\* A captured now is a time.
LEMMA CapturedIsNat ==
  ASSUME TypeOK, NEW now \in CapturedNow
  PROVE  now \in Nat
BY BoundAssumption DEF TypeOK, CapturedNow

-----------------------------------------------------------------------------
(* The type invariant and the lease ledger, together: ending a lease has a *)
(* type only because a claimed task has a newest lease.                    *)

LedgerInv == TypeOK /\ LeaseLedger /\ NeverStranded

\* The empty table and the empty histories agree.
LEMMA LedgerInit == Init => LedgerInv
<1> SUFFICES ASSUME Init PROVE LedgerInv
  OBVIOUS
<1>1. AbsentTask \in TaskRow /\ AbsentTask.status = "ABSENT" /\ AbsentTask.attempts = 0
      /\ AbsentTask.lease = NoLease /\ AbsentTask.claimedBy = None
  BY DEF AbsentTask, TaskRow, Statuses, NoLease
<1>2. TypeOK
  BY <1>1, BoundAssumption, EmptySeq DEF Init, TypeOK
<1>3. ASSUME NEW t \in Tasks PROVE Ledger(t, task[t], leases[t])
  <2>1. task[t] = AbsentTask /\ leases[t] = << >>
    BY DEF Init
  <2>2. Request[t].maxAttempts \in Nat
    BY RequestAssumption DEF ValidRequest, RequestRecord
  <2>3. Len(<< >>) = 0 /\ DOMAIN << >> = {}
    OBVIOUS
  <2> QED
    BY <1>1, <2>1, <2>2, <2>3 DEF Ledger, NoLease
<1>4. NeverStranded
  BY <1>1 DEF Init, NeverStranded
<1> QED
  BY <1>2, <1>3, <1>4 DEF LedgerInv, LeaseLedger

\* Every action but Tick gives one task, or all of them, a new row and history:
\* the ledger holds after a step if it holds of each new pair.
LEMMA LedgerOneTask ==
  ASSUME LedgerInv, clock' = clock, evidence' \in [Tasks -> Seq(EvidenceRow)],
         NEW t \in Tasks, NEW row \in TaskRow, NEW ls \in Seq(LeaseRecord),
         task' = [task EXCEPT ![t] = row], leases' = [leases EXCEPT ![t] = ls],
         Ledger(t, row, ls),
         row.status = "PENDING" => row.attempts < Request[t].maxAttempts
  PROVE  LedgerInv'
<1>1. TypeOK'
  BY DEF LedgerInv, TypeOK
<1>2. \A u \in Tasks : /\ task'[u] = IF u = t THEN row ELSE task[u]
                       /\ leases'[u] = IF u = t THEN ls ELSE leases[u]
  BY DEF LedgerInv, TypeOK
<1>3. \A u \in Tasks : Ledger(u, task[u], leases[u])
  BY DEF LedgerInv, LeaseLedger
<1>4. \A u \in Tasks : Ledger(u, task'[u], leases'[u])
  BY <1>2, <1>3
<1>5. NeverStranded'
  BY <1>2 DEF LedgerInv, NeverStranded
<1> QED
  BY <1>1, <1>4, <1>5 DEF LedgerInv, LeaseLedger

\* Time alone disturbs neither types nor ledger.
LEMMA LedgerTick == LedgerInv /\ Tick => LedgerInv'
<1> SUFFICES ASSUME LedgerInv, Tick PROVE LedgerInv'
  OBVIOUS
<1>1. clock' \in 0..MaxClock
  BY BoundAssumption DEF LedgerInv, TypeOK, Tick
<1> QED
  BY <1>1 DEF LedgerInv, TypeOK, LeaseLedger, NeverStranded, Tick

\* create_task inserts a PENDING row, with no lease and an empty history.
LEMMA LedgerCreate ==
  ASSUME LedgerInv, NEW t \in Tasks, Create(t)
  PROVE  LedgerInv'
<1>1. PICK now \in CapturedNow :
        task' = [task EXCEPT ![t] =
                  [AbsentTask EXCEPT
                    !.status = "PENDING",
                    !.available = now + Request[t].startsIn,
                    !.deadline = IF Request[t].dueIn = None THEN None ELSE now + Request[t].dueIn,
                    !.created = now]]
  BY DEF Create
<1> DEFINE row == [AbsentTask EXCEPT
                    !.status = "PENDING",
                    !.available = now + Request[t].startsIn,
                    !.deadline = IF Request[t].dueIn = None THEN None ELSE now + Request[t].dueIn,
                    !.created = now]
<1>2. now \in Nat
  BY CapturedIsNat DEF LedgerInv
<1>3. /\ Request[t].startsIn \in Nat /\ Request[t].dueIn \in Nat \cup {None}
      /\ Request[t].maxAttempts \in Nat /\ Request[t].maxAttempts > 0
  BY RequestAssumption DEF ValidRequest, RequestRecord
<1>4. now + Request[t].startsIn \in Nat
  BY <1>2, <1>3
<1>5. (IF Request[t].dueIn = None THEN None ELSE now + Request[t].dueIn) \in Nat \cup {None}
  BY <1>2, <1>3
<1>6. /\ row \in TaskRow /\ row.status = "PENDING" /\ row.attempts = 0
      /\ row.lease = NoLease /\ row.claimedBy = None
  BY <1>2, <1>4, <1>5 DEF AbsentTask, TaskRow, Statuses, NoLease
<1>7. leases[t] \in Seq(LeaseRecord) /\ Ledger(t, task[t], leases[t]) /\ task[t].status = "ABSENT"
  BY DEF LedgerInv, TypeOK, LeaseLedger, Create
<1> HIDE DEF row
<1>8. Ledger(t, row, leases[t])
  BY <1>3, <1>6, <1>7 DEF Ledger, NoLease
<1>9. leases' = [leases EXCEPT ![t] = leases[t]] /\ task' = [task EXCEPT ![t] = row]
  BY <1>1 DEF Create, LedgerInv, TypeOK, row
<1> QED
  BY <1>3, <1>6, <1>7, <1>8, <1>9, LedgerOneTask DEF Create, LedgerInv, TypeOK

\* The sweep of maintain_workflow ends leases in the row and in the history alike.
LEMMA LedgerMaintain == LedgerInv /\ Maintain => LedgerInv'
<1> SUFFICES ASSUME LedgerInv, Maintain PROVE LedgerInv'
  OBVIOUS
<1>1. PICK now \in CapturedNow : task' = Swept(now) /\ leases' = SweptLeases(now)
  BY DEF Maintain
<1>2. now \in Nat
  BY CapturedIsNat DEF LedgerInv
<1>3. \A t \in Tasks :
        /\ task'[t] \in TaskRow /\ leases'[t] \in Seq(LeaseRecord)
        /\ Ledger(t, task'[t], leases'[t])
        /\ task'[t].status = SweptStatus(t, now) /\ task'[t].attempts = task[t].attempts
  BY <1>1, <1>2, SweepFacts DEF LedgerInv
<1>4. task' \in [Tasks -> TaskRow] /\ leases' \in [Tasks -> Seq(LeaseRecord)]
  BY <1>1, <1>3 DEF Swept, SweptLeases
<1>5. NeverStranded'
  BY <1>2, <1>3, SweepStrandsNothing DEF LedgerInv, NeverStranded
<1> QED
  BY <1>3, <1>4, <1>5 DEF LedgerInv, TypeOK, LeaseLedger, Maintain

\* claim_task opens, after its sweep, the lease whose number is the new attempt.
LEMMA LedgerClaim ==
  ASSUME LedgerInv, NEW t \in Tasks, NEW a \in Agents, Claim(t, a)
  PROVE  LedgerInv'
<1>1. PICK now \in CapturedNow, s \in LeaseTimes :
        /\ Claimable(t, a, now)
        /\ task' = [Swept(now) EXCEPT
                     ![t].status = "CLAIMED",
                     ![t].claimedBy = a,
                     ![t].lease = task[t].attempts + 1,
                     ![t].leaseExpires = now + s,
                     ![t].attempts = task[t].attempts + 1]
        /\ leases' = [SweptLeases(now) EXCEPT
                       ![t] = Append(@, [agent |-> a, at |-> now, end |-> "OPEN", endAt |-> 0])]
  BY DEF Claim
<1> DEFINE row == [Swept(now)[t] EXCEPT
                     !.status = "CLAIMED",
                     !.claimedBy = a,
                     !.lease = task[t].attempts + 1,
                     !.leaseExpires = now + s,
                     !.attempts = task[t].attempts + 1]
           new == [agent |-> a, at |-> now, end |-> "OPEN", endAt |-> 0]
           old == SweptLeases(now)[t]
<1>2. now \in Nat /\ now + s \in Nat
  BY <1>1, CapturedIsNat, BoundAssumption DEF LedgerInv
<1>3. \A u \in Tasks :
        /\ Swept(now)[u] \in TaskRow /\ SweptLeases(now)[u] \in Seq(LeaseRecord)
        /\ Ledger(u, Swept(now)[u], SweptLeases(now)[u])
        /\ Swept(now)[u].status = SweptStatus(u, now)
        /\ Swept(now)[u].attempts = task[u].attempts
  BY <1>2, SweepFacts DEF LedgerInv
<1>4. /\ Swept(now)[t].status = "PENDING"
      /\ task[t].attempts < Request[t].maxAttempts
      /\ task[t].attempts \in Nat /\ Request[t].maxAttempts \in Nat
  <2>1. Swept(now)[t].status = "PENDING" /\ Swept(now)[t].attempts < Request[t].maxAttempts
    BY <1>1 DEF Claimable
  <2>2. task[t].attempts \in Nat
    BY DEF LedgerInv, TypeOK, TaskRow
  <2>3. Request[t].maxAttempts \in Nat
    BY RequestAssumption DEF ValidRequest, RequestRecord
  <2> QED
    BY <1>3, <2>1, <2>2, <2>3
<1>5. DOMAIN Swept(now) = Tasks /\ DOMAIN SweptLeases(now) = Tasks
  BY DEF Swept, SweptLeases
<1>6. /\ row \in TaskRow /\ row.status = "CLAIMED" /\ row.claimedBy = a
      /\ row.lease = task[t].attempts + 1 /\ row.attempts = task[t].attempts + 1
  <2> DEFINE w == Swept(now)[t]
  <2>1. w \in TaskRow
    BY <1>3
  <2>2. task[t].attempts + 1 \in Nat
    BY <1>4
  <2> HIDE DEF w
  <2>3. LET v == [w EXCEPT !.status = "CLAIMED", !.claimedBy = a, !.lease = task[t].attempts + 1,
                           !.leaseExpires = now + s, !.attempts = task[t].attempts + 1]
        IN  /\ v \in TaskRow /\ v.status = "CLAIMED" /\ v.claimedBy = a
            /\ v.lease = task[t].attempts + 1 /\ v.attempts = task[t].attempts + 1
    BY <1>2, <2>1, <2>2 DEF TaskRow, Statuses
  <2> QED
    BY <2>3 DEF w
<1>7. new \in LeaseRecord /\ new.agent = a /\ new.end = "OPEN"
  BY <1>2 DEF LeaseRecord
<1>8. /\ old \in Seq(LeaseRecord) /\ Len(old) = task[t].attempts
      /\ \A l \in DOMAIN old : old[l].end # "OPEN"
  <2>1. old \in Seq(LeaseRecord) /\ Len(old) = task[t].attempts /\ Swept(now)[t].lease = 0
    BY <1>3, <1>4 DEF Ledger, NoLease
  <2> QED
    BY <1>3, <2>1, LenProperties DEF Ledger
<1> HIDE DEF row, new, old
<1>9. /\ Append(old, new) \in Seq(LeaseRecord) /\ Len(Append(old, new)) = Len(old) + 1
      /\ DOMAIN old = 1..Len(old) /\ DOMAIN Append(old, new) = 1..(Len(old) + 1)
      /\ \A l \in 1..(Len(old) + 1) : Append(old, new)[l] = IF l = Len(old) + 1 THEN new ELSE old[l]
  BY <1>7, <1>8
<1>10. Ledger(t, row, Append(old, new))
  <2> DEFINE ls == Append(old, new)
  <2>1. Len(old) \in Nat /\ Len(ls) = Len(old) + 1 /\ ls # << >> /\ ls[Len(ls)] = new
    BY <1>4, <1>8, <1>9, EmptySeq
  <2>2. \A l \in DOMAIN ls : ls[l].end = "OPEN" <=> row.lease = l
    BY <1>6, <1>7, <1>8, <1>9, <2>1
  <2> HIDE DEF ls
  <2>3. Ledger(t, row, ls)
    BY <1>4, <1>6, <1>7, <1>8, <2>1, <2>2 DEF Ledger, NoLease
  <2> QED
    BY <2>3 DEF ls
<1>11. /\ task' = [Swept(now) EXCEPT ![t] = row]
       /\ leases' = [SweptLeases(now) EXCEPT ![t] = Append(old, new)]
  BY <1>1, <1>5 DEF row, new, old
<1>12. \A u \in Tasks : /\ task'[u] = IF u = t THEN row ELSE Swept(now)[u]
                        /\ leases'[u] = IF u = t THEN Append(old, new) ELSE SweptLeases(now)[u]
  BY <1>5, <1>11
<1>13. TypeOK'
  <2>1. task' \in [Tasks -> TaskRow]
    BY <1>3, <1>5, <1>6, <1>11, <1>12
  <2>2. leases' \in [Tasks -> Seq(LeaseRecord)]
    BY <1>3, <1>5, <1>9, <1>11, <1>12
  <2> QED
    BY <2>1, <2>2 DEF LedgerInv, TypeOK, Claim
<1>14. LeaseLedger'
  BY <1>3, <1>10, <1>12 DEF LeaseLedger
<1>15. NeverStranded'
  BY <1>2, <1>3, <1>6, <1>12, SweepStrandsNothing DEF LedgerInv, NeverStranded
<1> QED
  BY <1>13, <1>14, <1>15 DEF LedgerInv

\* heartbeat_task moves the expiry of the open lease and nothing else.
LEMMA LedgerHeartbeat ==
  ASSUME LedgerInv, NEW t \in Tasks, NEW a \in Agents, NEW l, Heartbeat(t, a, l)
  PROVE  LedgerInv'
<1>1. PICK now \in CapturedNow, s \in LeaseTimes :
        ActiveLease(t, a, l, now) /\ task' = [task EXCEPT ![t].leaseExpires = now + s]
  BY DEF Heartbeat
<1> DEFINE row == [task[t] EXCEPT !.leaseExpires = now + s]
<1>2. now + s \in Nat
  BY <1>1, CapturedIsNat, BoundAssumption DEF LedgerInv
<1>3. task[t] \in TaskRow /\ leases[t] \in Seq(LeaseRecord) /\ Ledger(t, task[t], leases[t])
  BY DEF LedgerInv, TypeOK, LeaseLedger
<1>4. /\ row \in TaskRow /\ row.status = task[t].status /\ row.claimedBy = task[t].claimedBy
      /\ row.lease = task[t].lease /\ row.attempts = task[t].attempts
  BY <1>2, <1>3 DEF TaskRow
<1>5. row.status = "CLAIMED"
  BY <1>1, <1>4 DEF ActiveLease
<1> HIDE DEF row
<1>6. Ledger(t, row, leases[t])
  BY <1>3, <1>4 DEF Ledger
<1>7. leases' = [leases EXCEPT ![t] = leases[t]] /\ task' = [task EXCEPT ![t] = row]
  BY <1>1 DEF Heartbeat, LedgerInv, TypeOK, row
<1> QED
  BY <1>3, <1>4, <1>5, <1>6, <1>7, LedgerOneTask DEF Heartbeat, LedgerInv, TypeOK

\* A lease ended by its agent: what release_task and submit_evidence share.
LEMMA LedgerEndLease ==
  ASSUME LedgerInv, NEW t \in Tasks, NEW now \in CapturedNow, task[t].status = "CLAIMED",
         NEW how \in {"RELEASED", "SUBMITTED"},
         NEW s \in {"PENDING", "DEAD_LETTER", "COMPLETED"},
         s = "PENDING" => task[t].attempts < Request[t].maxAttempts,
         clock' = clock, evidence' \in [Tasks -> Seq(EvidenceRow)],
         task' = [task EXCEPT ![t] = Unleased(@, s)],
         leases' = [leases EXCEPT ![t] = Closed(@, how, now)]
  PROVE  LedgerInv'
<1>1. now \in Nat
  BY CapturedIsNat DEF LedgerInv
<1>2. s \in Statuses \ {"CLAIMED", "ABSENT"}
  BY DEF Statuses
<1>3. /\ Unleased(task[t], s) \in TaskRow
      /\ Closed(leases[t], how, now) \in Seq(LeaseRecord)
      /\ Ledger(t, Unleased(task[t], s), Closed(leases[t], how, now))
  BY <1>1, <1>2, LedgerAfterClose DEF LedgerInv
<1>4. /\ Unleased(task[t], s).status = s
      /\ Unleased(task[t], s).attempts = task[t].attempts
  BY <1>2, UnleasedFacts DEF LedgerInv, TypeOK
<1>5. /\ task' = [task EXCEPT ![t] = Unleased(task[t], s)]
      /\ leases' = [leases EXCEPT ![t] = Closed(leases[t], how, now)]
  BY DEF LedgerInv, TypeOK
<1> QED
  BY <1>3, <1>4, <1>5, LedgerOneTask

\* release_task ends the open lease in the row and in the history.
LEMMA LedgerRelease ==
  ASSUME LedgerInv, NEW t \in Tasks, NEW a \in Agents, NEW l, Release(t, a, l)
  PROVE  LedgerInv'
<1>1. PICK now \in CapturedNow :
        /\ ActiveLease(t, a, l, now)
        /\ task' = [task EXCEPT ![t] = Unleased(@, Returned(t))]
        /\ leases' = [leases EXCEPT ![t] = Closed(@, "RELEASED", now)]
  BY DEF Release
<1>2. /\ Returned(t) \in {"PENDING", "DEAD_LETTER"}
      /\ Returned(t) = "PENDING" => task[t].attempts < Request[t].maxAttempts
  BY ReturnedFacts DEF LedgerInv
<1>3. clock' = clock /\ evidence' \in [Tasks -> Seq(EvidenceRow)] /\ task[t].status = "CLAIMED"
  BY <1>1 DEF Release, ActiveLease, LedgerInv, TypeOK
<1> QED
  BY <1>1, <1>2, <1>3, LedgerEndLease

\* submit_evidence appends one well-formed row of evidence.
LEMMA SubmitEvidenceType ==
  ASSUME TypeOK, NEW t \in Tasks, NEW a \in Agents, NEW l, NEW b \in Bodies, NEW r \in Nat,
         Submit(t, a, l, b, r)
  PROVE  evidence' \in [Tasks -> Seq(EvidenceRow)]
<1>1. l \in Nat
  <2>1. leases[t] \in Seq(LeaseRecord)
    BY DEF TypeOK
  <2> QED
    BY <2>1, LenProperties DEF Submit, Granted
<1>2. [agent |-> a, lease |-> l, body |-> b, repairs |-> r] \in EvidenceRow
  BY <1>1 DEF EvidenceRow
<1>3. evidence[t] \in Seq(EvidenceRow)
  BY DEF TypeOK
<1>4. Append(evidence[t], [agent |-> a, lease |-> l, body |-> b, repairs |-> r]) \in Seq(EvidenceRow)
  BY <1>2, <1>3
<1> QED
  BY <1>4 DEF Submit, TypeOK

\* submit_evidence keeps the lease for a repair, or ends it in row and history.
LEMMA LedgerSubmit ==
  ASSUME LedgerInv, NEW t \in Tasks, NEW a \in Agents, NEW l, NEW b \in Bodies, NEW r \in Nat,
         Submit(t, a, l, b, r)
  PROVE  LedgerInv'
<1>1. evidence' \in [Tasks -> Seq(EvidenceRow)] /\ clock' = clock
  BY SubmitEvidenceType DEF LedgerInv, Submit
<1>2. PICK now \in CapturedNow :
        /\ ActiveLease(t, a, l, now)
        /\ IF Check[b] = "repairable" /\ RepairsLeft(t, l)
           THEN UNCHANGED <<task, leases>>
           ELSE LET quorum == Check[b] = "clean" /\ QuorumWith(t, a)
                    next   == IF quorum THEN "COMPLETED" ELSE Returned(t)
                IN  /\ task' = [task EXCEPT ![t] = Unleased(@, next)]
                    /\ leases' = [leases EXCEPT ![t] = Closed(@, "SUBMITTED", now)]
  BY DEF Submit
<1>3. CASE Check[b] = "repairable" /\ RepairsLeft(t, l)
  BY <1>1, <1>2, <1>3 DEF LedgerInv, TypeOK, LeaseLedger, NeverStranded
<1>4. CASE ~(Check[b] = "repairable" /\ RepairsLeft(t, l))
  <2> DEFINE next == IF Check[b] = "clean" /\ QuorumWith(t, a) THEN "COMPLETED" ELSE Returned(t)
  <2>1. /\ next \in {"PENDING", "DEAD_LETTER", "COMPLETED"}
        /\ next = "PENDING" => task[t].attempts < Request[t].maxAttempts
    BY ReturnedFacts DEF LedgerInv
  <2>2. /\ task' = [task EXCEPT ![t] = Unleased(@, next)]
        /\ leases' = [leases EXCEPT ![t] = Closed(@, "SUBMITTED", now)]
    BY <1>2, <1>4
  <2>3. task[t].status = "CLAIMED"
    BY <1>2 DEF ActiveLease
  <2> HIDE DEF next
  <2> QED
    BY <1>1, <2>1, <2>2, <2>3, LedgerEndLease
<1> QED
  BY <1>3, <1>4

\* Every step of the queue keeps the types, the ledger and the attempts.
LEMMA LedgerNext == LedgerInv /\ [Next]_vars => LedgerInv'
<1> SUFFICES ASSUME LedgerInv, [Next]_vars PROVE LedgerInv'
  OBVIOUS
<1>1. CASE Tick
  BY <1>1, LedgerTick
<1>2. CASE Maintain
  BY <1>2, LedgerMaintain
<1>3. ASSUME NEW t \in Tasks, Create(t) PROVE LedgerInv'
  BY <1>3, LedgerCreate
<1>4. ASSUME NEW t \in Tasks, NEW a \in Agents, AgentStep(t, a) PROVE LedgerInv'
  <2>1. CASE Claim(t, a)
    BY <2>1, LedgerClaim
  <2>2. ASSUME NEW l \in DOMAIN leases[t], Heartbeat(t, a, l) PROVE LedgerInv'
    BY <2>2, LedgerHeartbeat
  <2>3. ASSUME NEW l \in DOMAIN leases[t], Release(t, a, l) PROVE LedgerInv'
    BY <2>3, LedgerRelease
  <2>4. ASSUME NEW l \in DOMAIN leases[t], NEW b \in Bodies, NEW r \in 0..Len(evidence[t]),
               Submit(t, a, l, b, r)
        PROVE  LedgerInv'
    <3>1. r \in Nat
      OBVIOUS
    <3> QED
      BY <2>4, <3>1, LedgerSubmit
  <2> QED
    BY <1>4, <2>1, <2>2, <2>3, <2>4 DEF AgentStep
<1>5. CASE UNCHANGED vars
  BY <1>5 DEF vars, LedgerInv, TypeOK, LeaseLedger, NeverStranded
<1> QED
  BY <1>1, <1>2, <1>3, <1>4, <1>5 DEF Next

\* The inductive invariant behind the two theorems that follow.
THEOREM LedgerCorrect == Spec => []LedgerInv
BY LedgerInit, LedgerNext, PTL DEF Spec

\* Every column keeps its type, the lease columns and attempt_count of a row agree with
\* the leases granted, and no task is left PENDING with its attempts spent (AGENT-03), at
\* every step of every interleaving of claims, sweeps, submissions and releases.
THEOREM LedgerAgrees == Spec => []LeasesHold
<1>1. LedgerInv => LeasesHold
  BY DEF LedgerInv, LeasesHold
<1> QED
  BY <1>1, LedgerCorrect, PTL

-----------------------------------------------------------------------------
(* The quorum.  QuorumExact is not inductive alone: that an acceptance adds *)
(* an agent to those that accepted rests on the holder never being one of  *)
(* them, which the claim establishes and every later step must keep.       *)

HolderFresh ==
  \A t \in Tasks : task[t].status = "CLAIMED" => task[t].claimedBy \notin AcceptedAgents(t)

NothingEarly == \A t \in Tasks : task[t].status = "ABSENT" => evidence[t] = << >>

QuorumInv == QuorumExact /\ HolderFresh /\ OneVoicePerAgent /\ NothingEarly

\* The agents counted by a quorum are finitely many.
LEMMA AcceptedFinite ==
  ASSUME NEW t \in Tasks
  PROVE  IsFiniteSet(AcceptedAgents(t)) /\ AcceptedAgents(t) \subseteq Agents
BY AgentsAssumption, FS_Subset DEF AcceptedAgents

\* Nothing is accepted at first, and every task needs at least one agent.
LEMMA QuorumInit == Init => QuorumInv
<1> SUFFICES ASSUME Init PROVE QuorumInv
  OBVIOUS
<1>1. ASSUME NEW t \in Tasks
      PROVE  /\ evidence[t] = << >> /\ task[t].status = "ABSENT"
             /\ AcceptedAgents(t) = {} /\ Request[t].required \in 1..5
  <2>1. evidence[t] = << >> /\ task[t].status = "ABSENT" /\ DOMAIN << >> = {}
    BY DEF Init, AbsentTask
  <2>2. AcceptedAgents(t) = {}
    BY <2>1 DEF AcceptedAgents
  <2>3. Request[t].required \in 1..5
    BY RequestAssumption DEF ValidRequest, RequestRecord
  <2> QED
    BY <2>1, <2>2, <2>3
<1>2. QuorumExact
  <2>1. Cardinality({}) = 0
    BY FS_EmptySet
  <2>2. ASSUME NEW t \in Tasks PROVE Cardinality(AcceptedAgents(t)) = 0
    BY <1>1, <2>1
  <2> QED
    BY <1>1, <2>2 DEF QuorumExact
<1>3. HolderFresh /\ OneVoicePerAgent /\ NothingEarly
  BY <1>1 DEF HolderFresh, OneVoicePerAgent, NothingEarly
<1> QED
  BY <1>2, <1>3 DEF QuorumInv

\* A step that records nothing keeps the quorum if it completes nothing,
\* reopens nothing and gives no task to an agent that accepted it.
LEMMA QuorumFrame ==
  ASSUME QuorumInv, evidence' = evidence,
         \A u \in Tasks :
           /\ task'[u].status = "COMPLETED" <=> task[u].status = "COMPLETED"
           /\ task'[u].status = "ABSENT" => task[u].status = "ABSENT"
           /\ task'[u].status = "CLAIMED" => task'[u].claimedBy \notin AcceptedAgents(u)
  PROVE  QuorumInv'
<1>1. \A u \in Tasks : AcceptedAgents(u)' = AcceptedAgents(u)
  BY DEF AcceptedAgents, Accepted
<1>2. QuorumExact'
  BY <1>1 DEF QuorumInv, QuorumExact
<1>3. HolderFresh'
  BY <1>1 DEF HolderFresh
<1>4. OneVoicePerAgent' /\ NothingEarly'
  BY DEF QuorumInv, OneVoicePerAgent, NothingEarly, Accepted
<1> QED
  BY <1>2, <1>3, <1>4 DEF QuorumInv

\* The sweep neither completes nor reopens a task, nor passes one on.
LEMMA SweptStatusFacts ==
  ASSUME TypeOK, NEW now \in Nat, NEW t \in Tasks
  PROVE  /\ SweptStatus(t, now) = "COMPLETED" <=> task[t].status = "COMPLETED"
         /\ SweptStatus(t, now) = "ABSENT" <=> task[t].status = "ABSENT"
         /\ SweptStatus(t, now) = "CLAIMED" => Swept(now)[t] = task[t]
         /\ SweptStatus(t, now) = "PENDING" => task[t].status \in Active
<1>1. Returned(t) \in {"PENDING", "DEAD_LETTER"}
  BY ReturnedFacts
<1>2. CASE Missed(t, now)
  BY <1>2 DEF SweptStatus, Missed, Active
<1>3. CASE ~Missed(t, now) /\ (LeaseOver(t, now) \/ Exhausted(t))
  BY <1>1, <1>3 DEF SweptStatus, LeaseOver, Exhausted, Active
<1>4. CASE ~Missed(t, now) /\ ~(LeaseOver(t, now) \/ Exhausted(t))
  BY <1>4 DEF SweptStatus, Swept, Active
<1> QED
  BY <1>2, <1>3, <1>4

\* The sweep touches no evidence and completes nothing.
LEMMA QuorumMaintain ==
  ASSUME LedgerInv, QuorumInv, Maintain
  PROVE  QuorumInv'
<1>1. PICK now \in CapturedNow : task' = Swept(now)
  BY DEF Maintain
<1>2. now \in Nat
  BY CapturedIsNat DEF LedgerInv
<1>3. ASSUME NEW u \in Tasks
      PROVE  /\ task'[u].status = "COMPLETED" <=> task[u].status = "COMPLETED"
             /\ task'[u].status = "ABSENT" => task[u].status = "ABSENT"
             /\ task'[u].status = "CLAIMED" => task'[u].claimedBy \notin AcceptedAgents(u)
  <2>1. task'[u].status = SweptStatus(u, now)
    BY <1>1, <1>2, SweepFacts DEF LedgerInv
  <2> QED
    BY <1>1, <1>2, <2>1, SweptStatusFacts DEF LedgerInv, QuorumInv, HolderFresh
<1> QED
  BY <1>3, QuorumFrame DEF Maintain

\* claim_task gives a task to nobody whose evidence is accepted on it.
LEMMA QuorumClaim ==
  ASSUME LedgerInv, QuorumInv, NEW t \in Tasks, NEW a \in Agents, Claim(t, a)
  PROVE  QuorumInv'
<1>1. PICK now \in CapturedNow, s \in LeaseTimes :
        /\ Claimable(t, a, now)
        /\ task' = [Swept(now) EXCEPT
                     ![t].status = "CLAIMED",
                     ![t].claimedBy = a,
                     ![t].lease = task[t].attempts + 1,
                     ![t].leaseExpires = now + s,
                     ![t].attempts = task[t].attempts + 1]
  BY DEF Claim
<1>2. now \in Nat
  BY CapturedIsNat DEF LedgerInv
<1>3. /\ \A u \in Tasks : Swept(now)[u].status = SweptStatus(u, now)
      /\ \A u \in Tasks : Swept(now)[u] \in TaskRow
      /\ DOMAIN Swept(now) = Tasks
  BY <1>2, SweepFacts DEF LedgerInv, Swept
<1>4. /\ SweptStatus(t, now) = "PENDING"
      /\ a \notin AcceptedAgents(t)
  BY <1>1, <1>3 DEF Claimable, Answered
<1>5. task[t].status \in Active
  BY <1>2, <1>4, SweptStatusFacts DEF LedgerInv
<1>6. task'[t].status = "CLAIMED" /\ task'[t].claimedBy = a
  <2> DEFINE w == Swept(now)[t]
  <2>1. w \in TaskRow
    BY <1>3
  <2>2. task'[t] = [w EXCEPT !.status = "CLAIMED", !.claimedBy = a, !.lease = task[t].attempts + 1,
                             !.leaseExpires = now + s, !.attempts = task[t].attempts + 1]
    BY <1>1, <1>3
  <2> HIDE DEF w
  <2>3. LET v == [w EXCEPT !.status = "CLAIMED", !.claimedBy = a, !.lease = task[t].attempts + 1,
                           !.leaseExpires = now + s, !.attempts = task[t].attempts + 1]
        IN  v.status = "CLAIMED" /\ v.claimedBy = a
    BY <2>1 DEF TaskRow
  <2> QED
    BY <2>2, <2>3
<1>7. \A u \in Tasks \ {t} : task'[u] = Swept(now)[u]
  BY <1>1, <1>3
<1>8. ASSUME NEW u \in Tasks
      PROVE  /\ task'[u].status = "COMPLETED" <=> task[u].status = "COMPLETED"
             /\ task'[u].status = "ABSENT" => task[u].status = "ABSENT"
             /\ task'[u].status = "CLAIMED" => task'[u].claimedBy \notin AcceptedAgents(u)
  <2>1. CASE u = t
    BY <1>4, <1>5, <1>6, <2>1 DEF Active
  <2>2. CASE u # t
    BY <1>2, <1>3, <1>7, <2>2, SweptStatusFacts DEF LedgerInv, QuorumInv, HolderFresh
  <2> QED
    BY <2>1, <2>2
<1> QED
  BY <1>8, QuorumFrame DEF Claim

\* release_task completes nothing.
LEMMA QuorumRelease ==
  ASSUME LedgerInv, QuorumInv, NEW t \in Tasks, NEW a \in Agents, NEW l, Release(t, a, l)
  PROVE  QuorumInv'
<1>1. task' = [task EXCEPT ![t] = Unleased(@, Returned(t))] /\ task[t].status = "CLAIMED"
  BY DEF Release, ActiveLease
<1>2. Returned(t) \in {"PENDING", "DEAD_LETTER"}
  BY ReturnedFacts DEF LedgerInv
<1>3. task'[t].status = Returned(t)
  <2>1. task[t] \in TaskRow /\ Returned(t) \in Statuses
    BY <1>2 DEF LedgerInv, TypeOK, Statuses
  <2> QED
    BY <1>1, <2>1, UnleasedFacts DEF LedgerInv, TypeOK
<1>4. \A u \in Tasks \ {t} : task'[u] = task[u]
  BY <1>1 DEF LedgerInv, TypeOK
<1>5. \A u \in Tasks :
        /\ task'[u].status = "COMPLETED" <=> task[u].status = "COMPLETED"
        /\ task'[u].status = "ABSENT" => task[u].status = "ABSENT"
        /\ task'[u].status = "CLAIMED" => task'[u].claimedBy \notin AcceptedAgents(u)
  BY <1>1, <1>2, <1>3, <1>4 DEF QuorumInv, HolderFresh
<1> QED
  BY <1>5, QuorumFrame DEF Release

\* The sequence new is old and one row of evidence of agent a with body b.
OneMore(new, old, a, b) ==
  /\ DOMAIN new = DOMAIN old \cup {Len(old) + 1} /\ Len(old) + 1 \notin DOMAIN old
  /\ \A i \in DOMAIN old : new[i] = old[i]
  /\ new[Len(old) + 1].agent = a
  /\ new[Len(old) + 1].body = b

\* submit_evidence appends one row of evidence, to its own task.
LEMMA SubmitAppends ==
  ASSUME TypeOK, NEW t \in Tasks, NEW a \in Agents, NEW l, NEW b \in Bodies, NEW r \in Nat,
         Submit(t, a, l, b, r)
  PROVE  \A u \in Tasks : IF u = t THEN OneMore(evidence'[u], evidence[u], a, b)
                                    ELSE evidence'[u] = evidence[u]
<1> DEFINE e == [agent |-> a, lease |-> l, body |-> b, repairs |-> r]
           old == evidence[t]
           n == Len(old) + 1
<1>1. old \in Seq(EvidenceRow) /\ evidence' = [evidence EXCEPT ![t] = Append(old, e)]
  BY DEF TypeOK, Submit
<1>2. \A u \in Tasks : evidence'[u] = IF u = t THEN Append(old, e) ELSE evidence[u]
  BY <1>1 DEF TypeOK
<1>3. e.agent = a /\ e.body = b
  OBVIOUS
<1> HIDE DEF e, old
<1>4. /\ Len(old) \in Nat /\ DOMAIN old = 1..Len(old) /\ DOMAIN Append(old, e) = 1..n
      /\ Append(old, e)[n] = e
      /\ \A i \in 1..Len(old) : Append(old, e)[i] = old[i]
  BY <1>1, LenProperties, AppendProperties
<1>5. 1..n = 1..Len(old) \cup {n} /\ n \notin 1..Len(old)
  BY <1>4
<1>6. OneMore(Append(old, e), old, a, b)
  BY <1>3, <1>4, <1>5 DEF OneMore
<1> QED
  BY <1>2, <1>6 DEF old

\* What a submission adds to the agents that accepted.
LEMMA SubmitSupport ==
  ASSUME TypeOK, NEW t \in Tasks, NEW a \in Agents, NEW l, NEW b \in Bodies, NEW r \in Nat,
         Submit(t, a, l, b, r)
  PROVE  \A u \in Tasks : AcceptedAgents(u)' =
           IF u = t /\ Check[b] = "clean" THEN AcceptedAgents(u) \cup {a} ELSE AcceptedAgents(u)
<1> SUFFICES ASSUME NEW u \in Tasks
             PROVE  AcceptedAgents(u)' =
               IF u = t /\ Check[b] = "clean" THEN AcceptedAgents(u) \cup {a} ELSE AcceptedAgents(u)
  OBVIOUS
<1>1. AcceptedAgents(u)' = {x \in Agents : \E i \in DOMAIN evidence'[u] :
                              evidence'[u][i].agent = x /\ Check[evidence'[u][i].body] = "clean"}
  BY DEF AcceptedAgents, Accepted
<1>2. AcceptedAgents(u) = {x \in Agents : \E i \in DOMAIN evidence[u] :
                              evidence[u][i].agent = x /\ Check[evidence[u][i].body] = "clean"}
  BY DEF AcceptedAgents, Accepted
<1>3. CASE u # t
  <2>1. evidence'[u] = evidence[u]
    BY <1>3, SubmitAppends
  <2> QED
    BY <1>1, <1>2, <1>3, <2>1
<1>4. CASE u = t
  <2>1. OneMore(evidence'[u], evidence[u], a, b)
    BY <1>4, SubmitAppends
  <2> QED
    BY <1>1, <1>2, <1>4, <2>1 DEF OneMore
<1> QED
  BY <1>3, <1>4

\* submit_evidence completes the task with the agent that makes the quorum, and
\* counts that agent for the first time.
LEMMA QuorumSubmit ==
  ASSUME LedgerInv, QuorumInv, NEW t \in Tasks, NEW a \in Agents, NEW l, NEW b \in Bodies,
         NEW r \in Nat, Submit(t, a, l, b, r)
  PROVE  QuorumInv'
<1>1. PICK now \in CapturedNow :
        /\ ActiveLease(t, a, l, now)
        /\ IF Check[b] = "repairable" /\ RepairsLeft(t, l)
           THEN UNCHANGED <<task, leases>>
           ELSE LET quorum == Check[b] = "clean" /\ QuorumWith(t, a)
                    next   == IF quorum THEN "COMPLETED" ELSE Returned(t)
                IN  /\ task' = [task EXCEPT ![t] = Unleased(@, next)]
                    /\ leases' = [leases EXCEPT ![t] = Closed(@, "SUBMITTED", now)]
  BY DEF Submit
<1>2. task[t].status = "CLAIMED" /\ a \notin AcceptedAgents(t)
  BY <1>1 DEF ActiveLease, QuorumInv, HolderFresh
<1>3. /\ \A u \in Tasks \ {t} : AcceptedAgents(u)' = AcceptedAgents(u) /\ evidence'[u] = evidence[u]
      /\ AcceptedAgents(t)' = IF Check[b] = "clean" THEN AcceptedAgents(t) \cup {a}
                                                    ELSE AcceptedAgents(t)
      /\ OneMore(evidence'[t], evidence[t], a, b)
  <2>1. TypeOK
    BY DEF LedgerInv
  <2>2. \A u \in Tasks : AcceptedAgents(u)' =
          IF u = t /\ Check[b] = "clean" THEN AcceptedAgents(u) \cup {a} ELSE AcceptedAgents(u)
    BY <2>1, SubmitSupport
  <2>3. \A u \in Tasks : IF u = t THEN OneMore(evidence'[u], evidence[u], a, b)
                                   ELSE evidence'[u] = evidence[u]
    BY <2>1, SubmitAppends
  <2> QED
    BY <2>2, <2>3
<1> DEFINE n == Cardinality(AcceptedAgents(t))
           next == IF Check[b] = "clean" /\ QuorumWith(t, a) THEN "COMPLETED" ELSE Returned(t)
           quarantined == Check[b] = "repairable" /\ RepairsLeft(t, l)
<1>4. /\ n \in Nat /\ Request[t].required \in Nat /\ n < Request[t].required
      /\ Cardinality(AcceptedAgents(t) \cup {a}) = n + 1
  <2>1. IsFiniteSet(AcceptedAgents(t))
    BY AcceptedFinite
  <2>2. n \in Nat /\ Cardinality(AcceptedAgents(t) \cup {a}) = n + 1
    BY <1>2, <2>1, FS_CardinalityType, FS_AddElement
  <2>3. Request[t].required \in Nat
    BY RequestAssumption DEF ValidRequest, RequestRecord
  <2>4. n <= Request[t].required /\ n # Request[t].required
    BY <1>2 DEF QuorumInv, QuorumExact
  <2> QED
    BY <2>2, <2>3, <2>4
<1>5. \A u \in Tasks \ {t} : task'[u] = task[u]
  BY <1>1 DEF LedgerInv, TypeOK
<1>6. task'[t].status = IF quarantined THEN "CLAIMED" ELSE next
  <2>1. CASE quarantined
    BY <1>1, <1>2, <2>1
  <2>2. CASE ~quarantined
    <3>1. task[t] \in TaskRow /\ next \in Statuses
      BY ReturnedFacts DEF LedgerInv, TypeOK, Statuses
    <3>2. task'[t] = Unleased(task[t], next)
      BY <1>1, <2>2 DEF LedgerInv, TypeOK
    <3> HIDE DEF next
    <3> QED
      BY <2>2, <3>1, <3>2, UnleasedFacts
  <2> QED
    BY <2>1, <2>2
<1>7. /\ Cardinality(AcceptedAgents(t))' = IF Check[b] = "clean" THEN n + 1 ELSE n
      /\ QuorumWith(t, a) <=> n + 1 >= Request[t].required
      /\ Returned(t) # "COMPLETED" /\ Returned(t) # "CLAIMED" /\ Returned(t) # "ABSENT"
  BY <1>3, <1>4, ReturnedFacts DEF QuorumWith, LedgerInv
<1>8. LET m == Cardinality(AcceptedAgents(t))'
      IN  m <= Request[t].required /\ (task'[t].status = "COMPLETED" <=> m = Request[t].required)
  <2> HIDE DEF n
  <2>1. CASE Check[b] = "clean"
    BY <1>4, <1>6, <1>7, <2>1
  <2>2. CASE Check[b] # "clean"
    BY <1>4, <1>6, <1>7, <2>2
  <2> QED
    BY <2>1, <2>2
<1>9. QuorumExact'
  BY <1>3, <1>5, <1>8 DEF QuorumInv, QuorumExact
<1>10. HolderFresh'
  <2>1. task'[t].status = "CLAIMED" => Check[b] = "repairable" /\ task' = task
    BY <1>1, <1>6, <1>7
  <2> QED
    BY <1>3, <1>5, <2>1 DEF QuorumInv, HolderFresh
<1>11. OneVoicePerAgent'
  <2> SUFFICES ASSUME NEW u \in Tasks, NEW i \in DOMAIN evidence'[u], NEW j \in DOMAIN evidence'[u],
                      Check[evidence'[u][i].body] = "clean", Check[evidence'[u][j].body] = "clean",
                      evidence'[u][i].agent = evidence'[u][j].agent
               PROVE  i = j
    BY DEF OneVoicePerAgent, Accepted
  <2>1. CASE u # t
    BY <1>3, <2>1 DEF QuorumInv, OneVoicePerAgent, Accepted
  <2>2. CASE u = t
    <3> DEFINE k == Len(evidence[t]) + 1
    <3>1. ASSUME NEW x \in DOMAIN evidence[t], Check[evidence[t][x].body] = "clean"
          PROVE  evidence[t][x].agent # a
      BY <1>2, <3>1 DEF AcceptedAgents, Accepted
    <3> HIDE DEF k
    <3>2. /\ DOMAIN evidence'[t] = DOMAIN evidence[t] \cup {k}
          /\ \A x \in DOMAIN evidence[t] : evidence'[t][x] = evidence[t][x]
          /\ evidence'[t][k].agent = a
      BY <1>3 DEF OneMore, k
    <3>3. CASE i \in DOMAIN evidence[t] /\ j \in DOMAIN evidence[t]
      BY <2>2, <3>2, <3>3 DEF QuorumInv, OneVoicePerAgent, Accepted
    <3>4. CASE i \in DOMAIN evidence[t] /\ j = k
      BY <2>2, <3>1, <3>2, <3>4
    <3>5. CASE i = k /\ j \in DOMAIN evidence[t]
      BY <2>2, <3>1, <3>2, <3>5
    <3> QED
      BY <2>2, <3>2, <3>3, <3>4, <3>5
  <2> QED
    BY <2>1, <2>2
<1>12. NothingEarly'
  BY <1>3, <1>5, <1>6, <1>7 DEF QuorumInv, NothingEarly
<1> QED
  BY <1>9, <1>10, <1>11, <1>12 DEF QuorumInv

\* Every step keeps the count of accepted agents and the status in step.
LEMMA QuorumNext == LedgerInv /\ QuorumInv /\ [Next]_vars => QuorumInv'
<1> SUFFICES ASSUME LedgerInv, QuorumInv, [Next]_vars PROVE QuorumInv'
  OBVIOUS
<1>1. CASE Tick
  BY <1>1, QuorumFrame DEF Tick, QuorumInv, HolderFresh
<1>2. CASE Maintain
  BY <1>2, QuorumMaintain
<1>3. ASSUME NEW t \in Tasks, Create(t) PROVE QuorumInv'
  <2>1. task[t].status = "ABSENT" /\ task'[t].status = "PENDING"
    BY <1>3 DEF Create, AbsentTask, LedgerInv, TypeOK
  <2>2. \A u \in Tasks \ {t} : task'[u] = task[u]
    BY <1>3 DEF Create, LedgerInv, TypeOK
  <2> QED
    BY <1>3, <2>1, <2>2, QuorumFrame DEF Create, QuorumInv, HolderFresh
<1>4. ASSUME NEW t \in Tasks, NEW a \in Agents, AgentStep(t, a) PROVE QuorumInv'
  <2>1. CASE Claim(t, a)
    BY <2>1, QuorumClaim
  <2>2. ASSUME NEW l \in DOMAIN leases[t], Heartbeat(t, a, l) PROVE QuorumInv'
    <3>1. \A u \in Tasks : task'[u].status = task[u].status /\ task'[u].claimedBy = task[u].claimedBy
      BY <2>2 DEF Heartbeat, LedgerInv, TypeOK, TaskRow
    <3> QED
      BY <2>2, <3>1, QuorumFrame DEF Heartbeat, QuorumInv, HolderFresh
  <2>3. ASSUME NEW l \in DOMAIN leases[t], Release(t, a, l) PROVE QuorumInv'
    BY <2>3, QuorumRelease
  <2>4. ASSUME NEW l \in DOMAIN leases[t], NEW b \in Bodies, NEW r \in 0..Len(evidence[t]),
               Submit(t, a, l, b, r)
        PROVE  QuorumInv'
    <3>1. r \in Nat
      OBVIOUS
    <3> QED
      BY <2>4, <3>1, QuorumSubmit
  <2> QED
    BY <1>4, <2>1, <2>2, <2>3, <2>4 DEF AgentStep
<1>5. CASE UNCHANGED vars
  BY <1>5, QuorumFrame DEF vars, QuorumInv, HolderFresh
<1> QED
  BY <1>1, <1>2, <1>3, <1>4, <1>5 DEF Next

\* The inductive invariant behind the two theorems that follow: the agents that
\* accepted are fewer than required until the task is COMPLETED, and the agent
\* that holds a task is not one of them.
THEOREM QuorumCorrect == Spec => []QuorumInv
BY LedgerCorrect, QuorumInit, QuorumNext, PTL DEF Spec

\* A task is COMPLETED exactly when its required number of distinct agents has
\* accepted evidence, whatever the number of agents, tasks and attempts.
THEOREM QuorumIsExact == Spec => []QuorumExact
<1>1. QuorumInv => QuorumExact
  BY DEF QuorumInv
<1> QED
  BY <1>1, QuorumCorrect, PTL

\* No agent is counted twice on a task: consensus is between distinct agents.
THEOREM OneVoice == Spec => []OneVoicePerAgent
<1>1. QuorumInv => OneVoicePerAgent
  BY DEF QuorumInv
<1> QED
  BY <1>1, QuorumCorrect, PTL

-----------------------------------------------------------------------------
(* The queue implements AgentConsensus: each step gives every task a step  *)
(* of that specification.                                                  *)

\* What each status of the table is to AgentConsensus.
LEMMA PhaseFacts ==
  ASSUME NEW s \in Statuses
  PROVE  /\ Phase(s) = "absent" <=> s = "ABSENT"
         /\ Phase(s) = "open" <=> s \in Active
         /\ Phase(s) = "done" <=> s = "COMPLETED"
         /\ Phase(s) = "failed" <=> s \in {"DEAD_LETTER", "EXPIRED"}
<1>1. CASE s = "ABSENT"
  BY <1>1 DEF Phase, Active
<1>2. CASE s \in Active
  BY <1>2 DEF Phase, Active
<1>3. CASE s = "COMPLETED"
  BY <1>3 DEF Phase, Active
<1>4. CASE s \in {"DEAD_LETTER", "EXPIRED"}
  BY <1>4 DEF Phase, Active
<1> QED
  BY <1>1, <1>2, <1>3, <1>4 DEF Statuses, Active

\* A step of AgentConsensus for one task, in terms of the queue.
LEMMA TaskStepUnfolded ==
  ASSUME NEW u \in Tasks
  PROVE  LET p  == Phase(task[u].status)
             q  == Phase(task'[u].status)
             h  == task[u].claimedBy
             k  == task'[u].claimedBy
             S  == AcceptedAgents(u)
             T  == AcceptedAgents(u)'
         IN  Consensus!TaskStep(u) <=>
               \/ p = "absent" /\ q = "open" /\ k = None /\ T = {}
               \/ p = "open" /\ q = "open" /\ k \in Agents \ S /\ T = S
               \/ p = "open" /\ q = "open" /\ h # None /\ k = None /\ T = S
               \/ p = "open" /\ q = "failed" /\ k = None /\ T = S
               \/ /\ p = "open" /\ h # None /\ h \notin S /\ k = None /\ T = S \cup {h}
                  /\ IF T \subseteq Agents /\ Cardinality(T) = Request[u].required
                     THEN q = "done" ELSE q \in {"open", "failed"}
               \/ q = p /\ k = h /\ T = S
BY DEF Consensus!TaskStep, Consensus!Open, Consensus!Take, Consensus!Drop, Consensus!Fail,
       Consensus!Endorse, Consensus!Same

\* The steps that leave a task's evidence alone: nothing happens to it, it
\* loses its holder and perhaps its chance, or it gets a holder.
LEMMA QuietTaskStep ==
  ASSUME TypeOK, TypeOK', NEW u \in Tasks, AcceptedAgents(u)' = AcceptedAgents(u),
         \/ task'[u].status = task[u].status /\ task'[u].claimedBy = task[u].claimedBy
         \/ /\ task[u].status \in Active
            /\ task'[u].status \in {"PENDING", "DEAD_LETTER", "EXPIRED"}
            /\ task'[u].claimedBy = None
         \/ /\ task[u].status \in Active
            /\ task'[u].status = "CLAIMED"
            /\ task'[u].claimedBy \in Agents \ AcceptedAgents(u)
  PROVE  Consensus!TaskStep(u)
<1>1. task[u].status \in Statuses /\ task'[u].status \in Statuses
  BY DEF TypeOK, TaskRow
<1>2. /\ Phase(task[u].status) = "open" <=> task[u].status \in Active
      /\ Phase(task'[u].status) = "open" <=> task'[u].status \in Active
      /\ Phase(task'[u].status) = "failed" <=> task'[u].status \in {"DEAD_LETTER", "EXPIRED"}
  BY <1>1, PhaseFacts
<1> DEFINE p == Phase(task[u].status)
           q == Phase(task'[u].status)
           h == task[u].claimedBy
           k == task'[u].claimedBy
           S == AcceptedAgents(u)
<1>3. \/ q = p /\ k = h
      \/ p = "open" /\ q \in {"open", "failed"} /\ k = None
      \/ p = "open" /\ q = "open" /\ k \in Agents \ S
  BY <1>2 DEF Active
<1> HIDE DEF p, q, h, k, S
<1>4. \/ q = p /\ k = h
      \/ p = "open" /\ q = "open" /\ h # None /\ k = None
      \/ p = "open" /\ q = "failed" /\ k = None
      \/ p = "open" /\ q = "open" /\ k \in Agents \ S
  BY <1>3
<1> QED
  BY <1>4, TaskStepUnfolded DEF p, q, h, k, S

\* The empty table maps to the initial state of AgentConsensus.
LEMMA ConsensusInit == Init => Consensus!Init
<1> SUFFICES ASSUME Init PROVE Consensus!Init
  OBVIOUS
<1>1. \A t \in Tasks : /\ Phase(task[t].status) = "absent" /\ task[t].claimedBy = None
                       /\ AcceptedAgents(t) = {}
  <2> SUFFICES ASSUME NEW t \in Tasks
               PROVE  /\ Phase(task[t].status) = "absent" /\ task[t].claimedBy = None
                      /\ AcceptedAgents(t) = {}
    OBVIOUS
  <2>1. task[t].status = "ABSENT" /\ task[t].claimedBy = None /\ DOMAIN evidence[t] = {}
    BY DEF Init, AbsentTask
  <2> QED
    BY <2>1 DEF Phase, AcceptedAgents, Active
<1> QED
  BY <1>1 DEF Consensus!Init

\* Every step of the queue is a step, or nothing, for every task.
LEMMA SupportFrame ==
  ASSUME evidence' = evidence, NEW u \in Tasks
  PROVE  AcceptedAgents(u)' = AcceptedAgents(u)
BY DEF AcceptedAgents, Accepted

\* The sweep drops or fails tasks, each on its own.
LEMMA ConsensusMaintain ==
  ASSUME LedgerInv, TypeOK', Maintain, NEW u \in Tasks
  PROVE  Consensus!TaskStep(u)
<1>1. PICK now \in CapturedNow : task' = Swept(now)
  BY DEF Maintain
<1>2. now \in Nat
  BY CapturedIsNat DEF LedgerInv
<1>3. AcceptedAgents(u)' = AcceptedAgents(u)
  BY SupportFrame DEF Maintain
<1>4. task[u] \in TaskRow /\ Returned(u) \in {"PENDING", "DEAD_LETTER"}
  BY ReturnedFacts DEF LedgerInv, TypeOK
<1>5. CASE SweptStatus(u, now) = task[u].status
  <2>1. task'[u] = task[u]
    BY <1>1, <1>5 DEF Swept
  <2> QED
    BY <1>3, <2>1, QuietTaskStep DEF LedgerInv
<1>6. CASE SweptStatus(u, now) # task[u].status
  <2>1. task[u].status \in Active /\ SweptStatus(u, now) \in {"PENDING", "DEAD_LETTER", "EXPIRED"}
    BY <1>4, <1>6 DEF SweptStatus, Missed, LeaseOver, Exhausted, Active
  <2>2. task'[u] = Unleased(task[u], SweptStatus(u, now)) /\ SweptStatus(u, now) \in Statuses
    BY <1>1, <1>6, <2>1 DEF Swept, Statuses
  <2>3. task'[u].status = SweptStatus(u, now) /\ task'[u].claimedBy = None
    BY <1>4, <2>2, UnleasedFacts
  <2> QED
    BY <1>3, <2>1, <2>3, QuietTaskStep DEF LedgerInv
<1> QED
  BY <1>5, <1>6

\* claim_task takes one task, and its sweep drops or fails others.
LEMMA ConsensusClaim ==
  ASSUME LedgerInv, TypeOK', NEW t \in Tasks, NEW a \in Agents, Claim(t, a), NEW u \in Tasks
  PROVE  Consensus!TaskStep(u)
<1>1. PICK now \in CapturedNow, s \in LeaseTimes :
        /\ Claimable(t, a, now)
        /\ task' = [Swept(now) EXCEPT
                     ![t].status = "CLAIMED",
                     ![t].claimedBy = a,
                     ![t].lease = task[t].attempts + 1,
                     ![t].leaseExpires = now + s,
                     ![t].attempts = task[t].attempts + 1]
  BY DEF Claim
<1>2. now \in Nat
  BY CapturedIsNat DEF LedgerInv
<1>3. AcceptedAgents(u)' = AcceptedAgents(u)
  BY SupportFrame DEF Claim
<1>4. DOMAIN Swept(now) = Tasks /\ Swept(now)[t] \in TaskRow
      /\ Swept(now)[t].status = SweptStatus(t, now)
  BY <1>2, SweepFacts DEF LedgerInv, Swept
<1>5. CASE u = t
  <2>1. SweptStatus(t, now) = "PENDING" /\ a \notin AcceptedAgents(t)
    BY <1>1, <1>4 DEF Claimable, Answered
  <2>2. task[t].status \in Active
    BY <1>2, <2>1, SweptStatusFacts DEF LedgerInv
  <2>3. task'[t].status = "CLAIMED" /\ task'[t].claimedBy = a
    <3> DEFINE w == Swept(now)[t]
    <3>1. task'[t] = [w EXCEPT !.status = "CLAIMED", !.claimedBy = a, !.lease = task[t].attempts + 1,
                               !.leaseExpires = now + s, !.attempts = task[t].attempts + 1]
      BY <1>1, <1>4
    <3>2. w \in TaskRow
      BY <1>4
    <3> HIDE DEF w
    <3>3. LET v == [w EXCEPT !.status = "CLAIMED", !.claimedBy = a, !.lease = task[t].attempts + 1,
                             !.leaseExpires = now + s, !.attempts = task[t].attempts + 1]
          IN  v.status = "CLAIMED" /\ v.claimedBy = a
      BY <3>2 DEF TaskRow
    <3> QED
      BY <3>1, <3>3
  <2> QED
    BY <1>3, <1>5, <2>1, <2>2, <2>3, QuietTaskStep DEF LedgerInv
<1>6. CASE u # t
  <2>1. task'[u] = Swept(now)[u] /\ task[u] \in TaskRow /\ Returned(u) \in {"PENDING", "DEAD_LETTER"}
    BY <1>1, <1>4, <1>6, ReturnedFacts DEF LedgerInv, TypeOK
  <2>2. CASE SweptStatus(u, now) = task[u].status
    <3>1. task'[u] = task[u]
      BY <2>1, <2>2 DEF Swept
    <3> QED
      BY <1>3, <3>1, QuietTaskStep DEF LedgerInv
  <2>3. CASE SweptStatus(u, now) # task[u].status
    <3>1. task[u].status \in Active /\ SweptStatus(u, now) \in {"PENDING", "DEAD_LETTER", "EXPIRED"}
      BY <2>1, <2>3 DEF SweptStatus, Missed, LeaseOver, Exhausted, Active
    <3>2. task'[u] = Unleased(task[u], SweptStatus(u, now)) /\ SweptStatus(u, now) \in Statuses
      BY <2>1, <2>3, <3>1 DEF Swept, Statuses
    <3>3. task'[u].status = SweptStatus(u, now) /\ task'[u].claimedBy = None
      BY <2>1, <3>2, UnleasedFacts
    <3> QED
      BY <1>3, <3>1, <3>3, QuietTaskStep DEF LedgerInv
  <2> QED
    BY <2>2, <2>3
<1> QED
  BY <1>5, <1>6

\* release_task drops its task, or fails it with the last attempt.
LEMMA ConsensusRelease ==
  ASSUME LedgerInv, TypeOK', NEW t \in Tasks, NEW a \in Agents, NEW l, Release(t, a, l), NEW u \in Tasks
  PROVE  Consensus!TaskStep(u)
<1>1. task' = [task EXCEPT ![t] = Unleased(@, Returned(t))] /\ task[t].status = "CLAIMED"
  BY DEF Release, ActiveLease
<1>2. AcceptedAgents(u)' = AcceptedAgents(u)
  BY SupportFrame DEF Release
<1>3. CASE u = t
  <2>1. Returned(t) \in {"PENDING", "DEAD_LETTER"} /\ Returned(t) \in Statuses /\ task[t] \in TaskRow
    BY ReturnedFacts DEF LedgerInv, TypeOK, Statuses
  <2>2. task'[t].status = Returned(t) /\ task'[t].claimedBy = None
    BY <1>1, <2>1, UnleasedFacts DEF LedgerInv, TypeOK
  <2> QED
    BY <1>1, <1>2, <1>3, <2>1, <2>2, QuietTaskStep DEF LedgerInv, Active
<1>4. CASE u # t
  <2>1. task'[u] = task[u]
    BY <1>1, <1>4 DEF LedgerInv, TypeOK
  <2> QED
    BY <1>2, <2>1, QuietTaskStep DEF LedgerInv
<1> QED
  BY <1>3, <1>4

\* submit_evidence endorses, drops, fails or leaves its task as it is.
LEMMA ConsensusSubmit ==
  ASSUME LedgerInv, QuorumInv, LedgerInv', QuorumInv', NEW t \in Tasks, NEW a \in Agents, NEW l,
         NEW b \in Bodies, NEW r \in Nat, Submit(t, a, l, b, r), NEW u \in Tasks
  PROVE  Consensus!TaskStep(u)
<1>1. PICK now \in CapturedNow :
        /\ ActiveLease(t, a, l, now)
        /\ IF Check[b] = "repairable" /\ RepairsLeft(t, l)
           THEN UNCHANGED <<task, leases>>
           ELSE LET quorum == Check[b] = "clean" /\ QuorumWith(t, a)
                    next   == IF quorum THEN "COMPLETED" ELSE Returned(t)
                IN  /\ task' = [task EXCEPT ![t] = Unleased(@, next)]
                    /\ leases' = [leases EXCEPT ![t] = Closed(@, "SUBMITTED", now)]
  BY DEF Submit
<1>2. AcceptedAgents(u)' =
        IF u = t /\ Check[b] = "clean" THEN AcceptedAgents(u) \cup {a} ELSE AcceptedAgents(u)
  <2>1. TypeOK
    BY DEF LedgerInv
  <2> QED
    BY <2>1, SubmitSupport
<1>3. task[t].status = "CLAIMED" /\ task[t].claimedBy = a /\ a \notin AcceptedAgents(t)
  BY <1>1 DEF ActiveLease, QuorumInv, HolderFresh
<1>4. TypeOK /\ TypeOK'
  BY DEF LedgerInv
<1>5. CASE u # t
  <2>1. task'[u] = task[u]
    BY <1>1, <1>5 DEF LedgerInv, TypeOK
  <2> QED
    BY <1>2, <1>4, <1>5, <2>1, QuietTaskStep
<1>6. CASE u = t /\ Check[b] = "repairable" /\ RepairsLeft(t, l)
  <2>1. task' = task /\ Check[b] # "clean"
    BY <1>1, <1>6
  <2> QED
    BY <1>2, <1>4, <1>6, <2>1, QuietTaskStep
<1>7. CASE u = t /\ ~(Check[b] = "repairable" /\ RepairsLeft(t, l))
  <2> DEFINE next == IF Check[b] = "clean" /\ QuorumWith(t, a) THEN "COMPLETED" ELSE Returned(t)
  <2>1. next \in {"PENDING", "DEAD_LETTER", "COMPLETED"} /\ next \in Statuses
        /\ (Check[b] # "clean" => next \in {"PENDING", "DEAD_LETTER"})
    BY <1>4, ReturnedFacts DEF Statuses
  <2>2. task' = [task EXCEPT ![t] = Unleased(@, next)] /\ task[t] \in TaskRow
    BY <1>1, <1>4, <1>7 DEF TypeOK
  <2> HIDE DEF next
  <2>3. task'[t].status = next /\ task'[t].claimedBy = None
    BY <1>4, <2>1, <2>2, UnleasedFacts DEF TypeOK
  <2>4. CASE Check[b] # "clean"
    BY <1>2, <1>3, <1>4, <1>7, <2>1, <2>3, <2>4, QuietTaskStep DEF Active
  <2>5. CASE Check[b] = "clean"
    <3>1. AcceptedAgents(t)' = AcceptedAgents(t) \cup {a} /\ AcceptedAgents(t)' \subseteq Agents
      BY <1>2, <1>7, <2>5, AcceptedFinite
    <3>2. next = "COMPLETED" <=> Cardinality(AcceptedAgents(t)') = Request[t].required
      BY <2>3 DEF QuorumInv, QuorumExact
    <3>3. /\ Phase(task[t].status) = "open"
          /\ Phase(next) = "done" <=> next = "COMPLETED"
          /\ Phase(next) \in {"open", "failed", "done"}
      BY <1>3, <2>1 DEF Phase, Active
    <3>4. a # None
      BY NoneAssumption
    <3> QED
      BY <1>3, <1>7, <2>3, <3>1, <3>2, <3>3, <3>4, TaskStepUnfolded
  <2> QED
    BY <2>4, <2>5
<1> QED
  BY <1>5, <1>6, <1>7

\* Every step of the queue is a step of AgentConsensus or stutters there.
LEMMA ConsensusNext ==
  LedgerInv /\ QuorumInv /\ LedgerInv' /\ QuorumInv' /\ [Next]_vars => [Consensus!Next]_(Consensus!vars)
<1> SUFFICES ASSUME LedgerInv, QuorumInv, LedgerInv', QuorumInv', [Next]_vars
             PROVE  [Consensus!Next]_(Consensus!vars)
  OBVIOUS
<1>1. TypeOK /\ TypeOK'
  BY DEF LedgerInv
<1>2. CASE UNCHANGED vars
  <2>1. \A u \in Tasks : AcceptedAgents(u)' = AcceptedAgents(u)
    BY <1>2, SupportFrame DEF vars
  <2>2. \A u \in Tasks : Consensus!TaskStep(u)
    BY <1>1, <1>2, <2>1, QuietTaskStep DEF vars
  <2> QED
    BY <2>2 DEF Consensus!Next
<1>3. CASE Tick
  <2>1. \A u \in Tasks : AcceptedAgents(u)' = AcceptedAgents(u)
    BY <1>3, SupportFrame DEF Tick
  <2>2. \A u \in Tasks : Consensus!TaskStep(u)
    BY <1>1, <1>3, <2>1, QuietTaskStep DEF Tick
  <2> QED
    BY <2>2 DEF Consensus!Next
<1>4. CASE Maintain
  BY <1>1, <1>4, ConsensusMaintain DEF Consensus!Next
<1>5. ASSUME NEW t \in Tasks, Create(t) PROVE \A u \in Tasks : Consensus!TaskStep(u)
  <2> SUFFICES ASSUME NEW u \in Tasks PROVE Consensus!TaskStep(u)
    OBVIOUS
  <2>1. AcceptedAgents(u)' = AcceptedAgents(u)
    BY <1>5, SupportFrame DEF Create
  <2>2. CASE u # t
    <3>1. task'[u] = task[u]
      BY <1>1, <1>5, <2>2 DEF Create, TypeOK
    <3> QED
      BY <1>1, <2>1, <3>1, QuietTaskStep
  <2>3. CASE u = t
    <3>1. task[t].status = "ABSENT" /\ task'[t].status = "PENDING" /\ task'[t].claimedBy = None
      BY <1>1, <1>5 DEF Create, TypeOK, AbsentTask
    <3>2. AcceptedAgents(t) = {}
      <4>1. evidence[t] = << >> /\ DOMAIN << >> = {}
        BY <3>1 DEF QuorumInv, NothingEarly
      <4> QED
        BY <4>1 DEF AcceptedAgents
    <3>3. Phase(task[t].status) = "absent" /\ Phase(task'[t].status) = "open"
      BY <3>1 DEF Phase, Active
    <3> QED
      BY <2>1, <2>3, <3>1, <3>2, <3>3, TaskStepUnfolded
  <2> QED
    BY <2>2, <2>3
<1>6. ASSUME NEW t \in Tasks, NEW a \in Agents, AgentStep(t, a)
      PROVE  \A u \in Tasks : Consensus!TaskStep(u)
  <2>1. CASE Claim(t, a)
    BY <1>1, <2>1, ConsensusClaim
  <2>2. ASSUME NEW l \in DOMAIN leases[t], Heartbeat(t, a, l) PROVE \A u \in Tasks : Consensus!TaskStep(u)
    <3>1. \A u \in Tasks : task'[u].status = task[u].status /\ task'[u].claimedBy = task[u].claimedBy
      <4>1. PICK e : task' = [task EXCEPT ![t].leaseExpires = e]
        BY <2>2 DEF Heartbeat
      <4>2. task \in [Tasks -> TaskRow]
        BY <1>1 DEF TypeOK
      <4> QED
        BY <4>1, <4>2 DEF TaskRow
    <3>2. \A u \in Tasks : AcceptedAgents(u)' = AcceptedAgents(u)
      BY <2>2, SupportFrame DEF Heartbeat
    <3> QED
      BY <1>1, <3>1, <3>2, QuietTaskStep
  <2>3. ASSUME NEW l \in DOMAIN leases[t], Release(t, a, l) PROVE \A u \in Tasks : Consensus!TaskStep(u)
    BY <1>1, <2>3, ConsensusRelease
  <2>4. ASSUME NEW l \in DOMAIN leases[t], NEW b \in Bodies, NEW r \in 0..Len(evidence[t]),
               Submit(t, a, l, b, r)
        PROVE  \A u \in Tasks : Consensus!TaskStep(u)
    <3>1. r \in Nat
      OBVIOUS
    <3> QED
      BY <2>4, <3>1, ConsensusSubmit
  <2> QED
    BY <1>6, <2>1, <2>2, <2>3, <2>4 DEF AgentStep
<1> QED
  BY <1>2, <1>3, <1>4, <1>5, <1>6 DEF Next, Consensus!Next

\* The queue implements AgentConsensus: leases, attempts, clocks, repairs and
\* stale tokens never let a task be endorsed by anyone but its holder, settled
\* without a quorum, or reopened.
THEOREM QueueImplementsConsensus == Spec => ImplementsConsensus
BY LedgerCorrect, QuorumCorrect, ConsensusInit, ConsensusNext, PTL
DEF Spec, ImplementsConsensus, Consensus!Spec

-----------------------------------------------------------------------------
(* What the queue keeps for good: the evidence that each lease left        *)
(* behind, and the cooldown between the leases of one agent.  A step       *)
(* changes at most the end of a task's newest lease, or adds one lease or  *)
(* one row of evidence.  The lemmas speak of one row, one history and one  *)
(* sequence of evidence; the steps are mapped to them at the end.          *)

(* Histories of leases.                                                    *)

\* The history new is ls, but for how and when its newest lease ends.
NewestEnds(ls, new) ==
  /\ DOMAIN new = DOMAIN ls
  /\ \A l \in DOMAIN ls :
       /\ new[l].agent = ls[l].agent /\ new[l].at = ls[l].at
       /\ l # Len(ls) => new[l].end = ls[l].end /\ new[l].endAt = ls[l].endAt

\* Ending the newest lease does no more than that.
LEMMA ClosedNewest ==
  ASSUME NEW ls \in Seq(LeaseRecord), ls # << >>,
         NEW how \in {"RELEASED", "SUBMITTED", "EXPIRED"}, NEW now \in Nat
  PROVE  NewestEnds(ls, Closed(ls, how, now))
BY ClosedFacts DEF NewestEnds

\* The history new is ls and a lease of agent a from now; no lease of ls was released meanwhile.
GrantsLease(ls, new, a, now) ==
  /\ DOMAIN new = 1..(Len(ls) + 1)
  /\ new[Len(ls) + 1].agent = a /\ new[Len(ls) + 1].at = now
  /\ \A l \in DOMAIN ls :
       /\ new[l].agent = ls[l].agent /\ new[l].at = ls[l].at
       /\ new[l].end = "RELEASED" => ls[l].end = "RELEASED" /\ new[l].endAt = ls[l].endAt

\* The cooldown of ReleaseCoolsDown, for one history.
CooledDown(ls) ==
  \A i, j \in DOMAIN ls :
    i < j /\ ls[i].agent = ls[j].agent /\ ls[i].end = "RELEASED" => ls[j].at >= ls[i].endAt + Cooldown

\* A lease that ends has no successor yet, so a cooldown is not broken by it.
LEMMA EndKeepsCooldown ==
  ASSUME NEW ls \in Seq(LeaseRecord), NEW new, NewestEnds(ls, new), CooledDown(ls)
  PROVE  CooledDown(new)
<1>1. DOMAIN ls = 1..Len(ls) /\ Len(ls) \in Nat
  BY LenProperties
<1> SUFFICES ASSUME NEW i \in DOMAIN new, NEW j \in DOMAIN new,
                    i < j, new[i].agent = new[j].agent, new[i].end = "RELEASED"
             PROVE  new[j].at >= new[i].endAt + Cooldown
  BY DEF CooledDown
<1>2. i \in DOMAIN ls /\ j \in DOMAIN ls /\ i # Len(ls)
  BY <1>1 DEF NewestEnds
<1>3. /\ new[i].agent = ls[i].agent /\ new[i].end = ls[i].end /\ new[i].endAt = ls[i].endAt
      /\ new[j].agent = ls[j].agent /\ new[j].at = ls[j].at
  BY <1>2 DEF NewestEnds
<1> QED
  BY <1>2, <1>3 DEF CooledDown

\* A lease that is granted to an agent with no release younger than the cooldown.
LEMMA GrantKeepsCooldown ==
  ASSUME NEW ls \in Seq(LeaseRecord), NEW new, NEW a \in Agents, NEW now \in Nat,
         GrantsLease(ls, new, a, now), CooledDown(ls),
         \A l \in DOMAIN ls : ls[l].agent = a /\ ls[l].end = "RELEASED" => now >= ls[l].endAt + Cooldown
  PROVE  CooledDown(new)
<1>1. DOMAIN ls = 1..Len(ls) /\ Len(ls) \in Nat
  BY LenProperties
<1> SUFFICES ASSUME NEW i \in DOMAIN new, NEW j \in DOMAIN new,
                    i < j, new[i].agent = new[j].agent, new[i].end = "RELEASED"
             PROVE  new[j].at >= new[i].endAt + Cooldown
  BY DEF CooledDown
<1>2. i \in DOMAIN ls /\ (j \in DOMAIN ls \/ j = Len(ls) + 1)
  BY <1>1 DEF GrantsLease
<1>3. new[i].agent = ls[i].agent /\ ls[i].end = "RELEASED" /\ new[i].endAt = ls[i].endAt
  BY <1>2 DEF GrantsLease
<1>4. CASE j \in DOMAIN ls
  <2>1. new[j].agent = ls[j].agent /\ new[j].at = ls[j].at
    BY <1>4 DEF GrantsLease
  <2> QED
    BY <1>2, <1>3, <1>4, <2>1 DEF CooledDown
<1>5. CASE j = Len(ls) + 1
  <2>1. new[j].agent = a /\ new[j].at = now
    BY <1>5 DEF GrantsLease
  <2> QED
    BY <1>2, <1>3, <2>1
<1> QED
  BY <1>2, <1>4, <1>5

-----------------------------------------------------------------------------
(* Evidence under a history of leases.                                     *)

\* QuarantinedUnder, of a sequence of evidence.
Quarantine(ev, l) == {i \in DOMAIN ev : ev[i].lease = l /\ Check[ev[i].body] # "clean"}

\* EvidenceFenced, for one task.
Fenced(ls, ev) ==
  \A j \in DOMAIN ev :
    /\ ev[j].lease \in DOMAIN ls /\ ls[ev[j].lease].agent = ev[j].agent
    /\ \A i \in 1..(j - 1) :
         \/ ev[i].lease < ev[j].lease
         \/ ev[i].lease = ev[j].lease /\ Check[ev[i].body] = "repairable"

\* RepairsBounded, for one task.
RepairsNamed(ev) ==
  \A j \in DOMAIN ev :
    ev[j].repairs # 0 => ev[j].repairs < j /\ ev[j].repairs \in Quarantine(ev, ev[j].lease)

RejectsBounded(ev) == \A l \in Nat : Cardinality(Quarantine(ev, l)) <= MaxRepairs + 1

\* Whoever holds the lease has been asked for repairs only, and not once too often: what
\* makes the next submission under it legal.
HolderRepairs(row, ev) ==
  row.status = "CLAIMED" =>
    /\ \A j \in DOMAIN ev : ev[j].lease = row.lease => Check[ev[j].body] = "repairable"
    /\ Cardinality(Quarantine(ev, row.lease)) <= MaxRepairs

RecordKept(row, ls, ev) ==
  Fenced(ls, ev) /\ RepairsNamed(ev) /\ RejectsBounded(ev) /\ HolderRepairs(row, ev)

\* A step that adds neither lease nor evidence.
LEMMA QuietKeepsRecord ==
  ASSUME NEW row, NEW row2, NEW ls, NEW new, NEW ev,
         RecordKept(row, ls, ev), NewestEnds(ls, new),
         row2.status = "CLAIMED" => row.status = "CLAIMED" /\ row2.lease = row.lease
  PROVE  RecordKept(row2, new, ev)
<1>1. Fenced(new, ev)
  BY DEF RecordKept, Fenced, NewestEnds
<1>2. HolderRepairs(row2, ev)
  BY DEF RecordKept, HolderRepairs
<1> QED
  BY <1>1, <1>2 DEF RecordKept

\* The lease that is granted is newer than all evidence.
LEMMA GrantKeepsRecord ==
  ASSUME NEW row, NEW row2, NEW ls \in Seq(LeaseRecord), NEW new, NEW ev, NEW a, NEW now,
         RecordKept(row, ls, ev), GrantsLease(ls, new, a, now), row2.lease = Len(ls) + 1
  PROVE  RecordKept(row2, new, ev)
<1>1. DOMAIN ls = 1..Len(ls) /\ Len(ls) \in Nat
  BY LenProperties
<1>2. \A l \in DOMAIN ls : l \in DOMAIN new /\ new[l].agent = ls[l].agent
  BY <1>1 DEF GrantsLease
<1>3. Fenced(new, ev)
  BY <1>2 DEF RecordKept, Fenced
<1>4. \A j \in DOMAIN ev : ev[j].lease # row2.lease
  BY <1>1 DEF RecordKept, Fenced
<1>5. Quarantine(ev, row2.lease) = {}
  BY <1>4 DEF Quarantine
<1>6. Cardinality({}) = 0 /\ MaxRepairs \in Nat
  BY FS_EmptySet, BoundAssumption
<1>7. Cardinality(Quarantine(ev, row2.lease)) <= MaxRepairs
  <2>1. Cardinality(Quarantine(ev, row2.lease)) = 0
    BY <1>5, <1>6, Zenon
  <2> QED
    BY <1>6, <2>1
<1>8. HolderRepairs(row2, ev)
  BY <1>4, <1>7 DEF HolderRepairs
<1> QED
  BY <1>3, <1>8 DEF RecordKept

\* What one more row of evidence does to the rejections of each lease.
LEMMA QuarantineGrows ==
  ASSUME NEW ev \in Seq(EvidenceRow), NEW e \in EvidenceRow, NEW l \in Nat
  PROVE  /\ Quarantine(ev, l) \subseteq Quarantine(Append(ev, e), l)
         /\ e.lease # l => Quarantine(Append(ev, e), l) = Quarantine(ev, l)
         /\ Cardinality(Quarantine(ev, l)) \in Nat
         /\ Cardinality(Quarantine(Append(ev, e), l)) <= Cardinality(Quarantine(ev, l)) + 1
<1> DEFINE n == Len(ev) + 1
           Q == Quarantine(ev, l)
           R == Quarantine(Append(ev, e), l)
<1>1. /\ Len(ev) \in Nat /\ DOMAIN ev = 1..Len(ev) /\ DOMAIN Append(ev, e) = 1..n
      /\ \A i \in DOMAIN ev : Append(ev, e)[i] = ev[i]
      /\ Append(ev, e)[n] = e
  BY LenProperties, AppendProperties
<1>2. R = Q \/ R = Q \cup {n}
  <2>1. \A i \in 1..Len(ev) : i \in R <=> i \in Q
    BY <1>1 DEF Quarantine
  <2>2. Q \subseteq 1..Len(ev) /\ R \subseteq 1..Len(ev) \cup {n}
    BY <1>1 DEF Quarantine
  <2> QED
    BY <2>1, <2>2
<1>3. e.lease # l => n \notin R
  BY <1>1 DEF Quarantine
<1>4. IsFiniteSet(Q)
  <2>1. Q \subseteq 1..Len(ev)
    BY <1>1 DEF Quarantine
  <2>2. IsFiniteSet(1..Len(ev))
    BY <1>1, FS_Interval
  <2> QED
    BY <2>1, <2>2, FS_Subset
<1>5. Cardinality(Q) \in Nat
  BY <1>4, FS_CardinalityType
<1>6. Cardinality(Q \cup {n}) <= Cardinality(Q) + 1
  <2>1. Cardinality(Q \cup {n}) = IF n \in Q THEN Cardinality(Q) ELSE Cardinality(Q) + 1
    BY <1>4, FS_AddElement
  <2> QED
    BY <1>5, <2>1
<1> HIDE DEF Q, R
<1>7. Q \subseteq R /\ (e.lease # l => R = Q)
  BY <1>2, <1>3
<1>8. CASE R = Q
  BY <1>5, <1>7, <1>8 DEF Q, R
<1>9. CASE R = Q \cup {n}
  <2>1. Cardinality(R) <= Cardinality(Q) + 1
    BY <1>6, <1>9
  <2> QED
    BY <1>5, <1>7, <2>1 DEF Q, R
<1> QED
  BY <1>2, <1>8, <1>9

\* A submission under the newest lease, which is the holder's, that leaves the lease for a
\* repair only while repairs are left.
LEMMA SubmitKeepsRecord ==
  ASSUME NEW row, NEW row2, NEW ls \in Seq(LeaseRecord), NEW new,
         NEW ev \in Seq(EvidenceRow), NEW e \in EvidenceRow,
         RecordKept(row, ls, ev), NewestEnds(ls, new), row.status = "CLAIMED",
         e.lease = row.lease, e.lease = Len(ls), ls # << >>, e.agent = ls[Len(ls)].agent,
         e.repairs # 0 => e.repairs \in Quarantine(ev, e.lease),
         row2.status = "CLAIMED" =>
           /\ row2.lease = row.lease
           /\ Check[e.body] = "repairable"
           /\ Cardinality(Quarantine(ev, e.lease)) + 1 <= MaxRepairs
  PROVE  RecordKept(row2, new, Append(ev, e))
<1> DEFINE n == Len(ev) + 1
           ev2 == Append(ev, e)
<1>1. /\ Len(ev) \in Nat /\ DOMAIN ev = 1..Len(ev) /\ DOMAIN ev2 = 1..n /\ ev2[n] = e
      /\ \A i \in 1..Len(ev) : ev2[i] = ev[i] /\ ev[i] \in EvidenceRow
  BY LenProperties, AppendProperties, ElementOfSeq
<1>2. Len(ls) \in 1..Len(ls) /\ DOMAIN ls = 1..Len(ls) /\ Len(ls) \in Nat
  BY EmptySeq, LenProperties
<1>3. e.lease \in Nat /\ MaxRepairs \in Nat
  BY BoundAssumption DEF EvidenceRow
<1>4. \A l \in Nat :
        /\ Quarantine(ev, l) \subseteq Quarantine(ev2, l)
        /\ e.lease # l => Quarantine(ev2, l) = Quarantine(ev, l)
        /\ Cardinality(Quarantine(ev, l)) \in Nat
        /\ Cardinality(Quarantine(ev2, l)) <= Cardinality(Quarantine(ev, l)) + 1
  BY QuarantineGrows
<1>5. /\ \A j \in DOMAIN ev : ev[j].lease = e.lease => Check[ev[j].body] = "repairable"
      /\ Cardinality(Quarantine(ev, e.lease)) <= MaxRepairs
  BY DEF RecordKept, HolderRepairs
<1>6. Quarantine(ev, e.lease) \subseteq 1..Len(ev)
  BY <1>1 DEF Quarantine
<1> HIDE DEF ev2
<1>7. Fenced(new, ev2)
  <2> SUFFICES ASSUME NEW j \in DOMAIN ev2
               PROVE  /\ ev2[j].lease \in DOMAIN new /\ new[ev2[j].lease].agent = ev2[j].agent
                      /\ \A i \in 1..(j - 1) :
                           \/ ev2[i].lease < ev2[j].lease
                           \/ ev2[i].lease = ev2[j].lease /\ Check[ev2[i].body] = "repairable"
    BY DEF Fenced
  <2>1. CASE j \in 1..Len(ev)
    <3>1. \A i \in 1..j : ev2[i] = ev[i]
      BY <1>1, <2>1
    <3>2. /\ ev[j].lease \in DOMAIN ls /\ ls[ev[j].lease].agent = ev[j].agent
          /\ \A i \in 1..(j - 1) :
               \/ ev[i].lease < ev[j].lease
               \/ ev[i].lease = ev[j].lease /\ Check[ev[i].body] = "repairable"
      BY <1>1, <2>1 DEF RecordKept, Fenced
    <3> QED
      BY <1>1, <2>1, <3>1, <3>2 DEF NewestEnds
  <2>2. CASE j = n
    <3>1. e.lease \in DOMAIN new /\ new[e.lease].agent = e.agent
      BY <1>2 DEF NewestEnds
    <3>2. ASSUME NEW i \in 1..Len(ev)
          PROVE  \/ ev[i].lease < e.lease
                 \/ ev[i].lease = e.lease /\ Check[ev[i].body] = "repairable"
      <4>1. ev[i].lease \in 1..Len(ls)
        BY <1>1, <1>2 DEF RecordKept, Fenced
      <4> QED
        BY <1>1, <1>2, <1>5, <4>1
    <3> QED
      BY <1>1, <2>2, <3>1, <3>2
  <2> QED
    BY <1>1, <2>1, <2>2
<1>8. RepairsNamed(ev2)
  <2> SUFFICES ASSUME NEW j \in DOMAIN ev2, ev2[j].repairs # 0
               PROVE  ev2[j].repairs < j /\ ev2[j].repairs \in Quarantine(ev2, ev2[j].lease)
    BY DEF RepairsNamed
  <2>1. CASE j \in 1..Len(ev)
    <3>1. ev2[j] = ev[j] /\ ev[j].lease \in Nat
      BY <1>1, <2>1 DEF EvidenceRow
    <3>2. ev[j].repairs < j /\ ev[j].repairs \in Quarantine(ev, ev[j].lease)
      BY <1>1, <2>1, <3>1 DEF RecordKept, RepairsNamed
    <3> QED
      BY <1>4, <3>1, <3>2
  <2>2. CASE j = n
    <3>1. ev2[j] = e /\ e.repairs \in Quarantine(ev, e.lease)
      BY <1>1, <2>2
    <3>2. e.repairs \in 1..Len(ev)
      BY <1>6, <3>1
    <3>3. e.repairs \in Quarantine(ev2, e.lease)
      BY <1>3, <1>4, <3>1
    <3> QED
      BY <1>1, <2>2, <3>1, <3>2, <3>3
  <2> QED
    BY <1>1, <2>1, <2>2
<1>9. RejectsBounded(ev2)
  <2> SUFFICES ASSUME NEW l \in Nat
               PROVE  Cardinality(Quarantine(ev2, l)) <= MaxRepairs + 1
    BY DEF RejectsBounded
  <2>1. CASE l = e.lease
    <3>1. /\ Cardinality(Quarantine(ev, l)) \in Nat
          /\ Cardinality(Quarantine(ev2, l)) <= Cardinality(Quarantine(ev, l)) + 1
          /\ Cardinality(Quarantine(ev, l)) <= MaxRepairs
      BY <1>4, <1>5, <2>1
    <3> DEFINE x == Cardinality(Quarantine(ev, l))
               y == Cardinality(Quarantine(ev2, l))
    <3>2. y \in Nat
      <4>1. Quarantine(ev2, l) \subseteq 1..n /\ IsFiniteSet(1..n)
        BY <1>1, FS_Interval DEF Quarantine
      <4> QED
        BY <4>1, FS_Subset, FS_CardinalityType
    <3> HIDE DEF x, y
    <3>3. x \in Nat /\ y <= x + 1 /\ x <= MaxRepairs
      BY <3>1 DEF x, y
    <3>4. y <= MaxRepairs + 1
      BY <1>3, <3>2, <3>3
    <3> QED
      BY <3>4 DEF y
  <2>2. CASE l # e.lease
    BY <1>4, <2>2 DEF RecordKept, RejectsBounded
  <2> QED
    BY <2>1, <2>2
<1>10. HolderRepairs(row2, ev2)
  <2> SUFFICES ASSUME row2.status = "CLAIMED"
               PROVE  /\ \A j \in DOMAIN ev2 :
                           ev2[j].lease = e.lease => Check[ev2[j].body] = "repairable"
                      /\ Cardinality(Quarantine(ev2, e.lease)) <= MaxRepairs
    BY DEF HolderRepairs
  <2>1. \A j \in DOMAIN ev2 : ev2[j].lease = e.lease => Check[ev2[j].body] = "repairable"
    BY <1>1, <1>5
  <2>2. /\ Cardinality(Quarantine(ev2, e.lease)) <= Cardinality(Quarantine(ev, e.lease)) + 1
        /\ Cardinality(Quarantine(ev, e.lease)) \in Nat
        /\ Cardinality(Quarantine(ev, e.lease)) + 1 <= MaxRepairs
    BY <1>3, <1>4
  <2>3. Cardinality(Quarantine(ev2, e.lease)) \in Nat
    <3>1. Quarantine(ev2, e.lease) \subseteq 1..n /\ IsFiniteSet(1..n)
      BY <1>1, FS_Interval DEF Quarantine
    <3> QED
      BY <3>1, FS_Subset, FS_CardinalityType
  <2>4. Cardinality(Quarantine(ev2, e.lease)) <= MaxRepairs
    <3> DEFINE x == Cardinality(Quarantine(ev, e.lease))
               y == Cardinality(Quarantine(ev2, e.lease))
    <3>1. x \in Nat /\ y \in Nat /\ y <= x + 1 /\ x + 1 <= MaxRepairs
      BY <2>2, <2>3
    <3> HIDE DEF x, y
    <3>2. y <= MaxRepairs
      BY <1>3, <3>1
    <3> QED
      BY <3>2 DEF y
  <2> QED
    BY <2>1, <2>4
<1> QED
  BY <1>7, <1>8, <1>9, <1>10 DEF RecordKept, ev2

-----------------------------------------------------------------------------
(* The steps of the queue.                                                 *)

\* The step adds neither lease nor evidence to task t.
Quiet(t) ==
  /\ NewestEnds(leases[t], leases'[t])
  /\ evidence'[t] = evidence[t]
  /\ task'[t].status = "CLAIMED" => task[t].status = "CLAIMED" /\ task'[t].lease = task[t].lease

\* The step grants task t to an agent that has not just released it.
Grants(t) ==
  \E a \in Agents, now \in Nat :
    /\ GrantsLease(leases[t], leases'[t], a, now)
    /\ evidence'[t] = evidence[t]
    /\ task'[t].lease = Len(leases[t]) + 1
    /\ \A l \in DOMAIN leases[t] :
         leases[t][l].agent = a /\ leases[t][l].end = "RELEASED" => now >= leases[t][l].endAt + Cooldown

\* The sweep ends newest leases, and claims nothing.
LEMMA SweepIsQuiet ==
  ASSUME LedgerInv, NEW now \in Nat, NEW t \in Tasks
  PROVE  /\ NewestEnds(leases[t], SweptLeases(now)[t])
         /\ Swept(now)[t].status = "CLAIMED" => task[t].status = "CLAIMED" /\ Swept(now)[t].lease = task[t].lease
         /\ \A l \in DOMAIN leases[t] : SweptLeases(now)[t][l].end = "RELEASED" =>
              leases[t][l].end = "RELEASED" /\ SweptLeases(now)[t][l].endAt = leases[t][l].endAt
<1>1. /\ task[t] \in TaskRow /\ leases[t] \in Seq(LeaseRecord) /\ Ledger(t, task[t], leases[t])
      /\ TypeOK /\ LeaseLedger
  BY DEF LedgerInv, TypeOK, LeaseLedger
<1>2. CASE task[t].status = "CLAIMED" /\ (Missed(t, now) \/ LeaseOver(t, now))
  <2>1. leases[t] # << >>
    BY <1>1, <1>2 DEF Ledger
  <2>2. SweptLeases(now)[t] = Closed(leases[t], "EXPIRED", now)
    BY <1>2 DEF SweptLeases
  <2>3. NewestEnds(leases[t], Closed(leases[t], "EXPIRED", now))
    BY <1>1, <2>1, ClosedNewest
  <2>4. \A l \in DOMAIN leases[t] : Closed(leases[t], "EXPIRED", now)[l].end = "RELEASED" =>
          l # Len(leases[t])
    BY <1>1, <2>1, ClosedFacts
  <2>5. Returned(t) \in {"PENDING", "DEAD_LETTER"}
    BY <1>1, ReturnedFacts
  <2>6. Swept(now)[t].status # "CLAIMED"
    <3>1. SweptStatus(t, now) \in {"EXPIRED", "PENDING", "DEAD_LETTER"}
      BY <1>2, <2>5 DEF SweptStatus
    <3>2. Swept(now)[t].status = SweptStatus(t, now)
      BY <1>1, SweepFacts
    <3> QED
      BY <3>1, <3>2
  <2> QED
    BY <2>2, <2>3, <2>4, <2>6 DEF NewestEnds
<1>3. CASE ~(task[t].status = "CLAIMED" /\ (Missed(t, now) \/ LeaseOver(t, now)))
  <2>1. SweptLeases(now)[t] = leases[t]
    BY <1>3 DEF SweptLeases
  <2>2. Swept(now)[t].status = "CLAIMED" => Swept(now)[t] = task[t]
    <3>1. Returned(t) \in {"PENDING", "DEAD_LETTER"}
      BY <1>1, ReturnedFacts
    <3>2. SweptStatus(t, now) = "CLAIMED" => SweptStatus(t, now) = task[t].status
      BY <3>1 DEF SweptStatus
    <3>3. Swept(now)[t].status = SweptStatus(t, now)
      BY <1>1, SweepFacts
    <3> QED
      BY <3>2, <3>3 DEF Swept
  <2> QED
    BY <2>1, <2>2 DEF NewestEnds
<1> QED
  BY <1>2, <1>3

\* Every step is quiet for a task, grants it, or is a submission to it.
LEMMA StepKinds ==
  ASSUME LedgerInv, [Next]_vars, NEW t \in Tasks
  PROVE  \/ Quiet(t)
         \/ Grants(t)
         \/ \E a \in Agents, b \in Bodies, r \in Nat, l \in DOMAIN leases[t] : Submit(t, a, l, b, r)
<1> DEFINE Goal == \/ Quiet(t)
                   \/ Grants(t)
                   \/ \E a \in Agents, b \in Bodies, r \in Nat, l \in DOMAIN leases[t] : Submit(t, a, l, b, r)
<1>1. /\ task \in [Tasks -> TaskRow] /\ leases \in [Tasks -> Seq(LeaseRecord)]
      /\ evidence \in [Tasks -> Seq(EvidenceRow)]
      /\ \A u \in Tasks : Ledger(u, task[u], leases[u])
  BY DEF LedgerInv, TypeOK, LeaseLedger
<1>2. ASSUME leases'[t] = leases[t], evidence'[t] = evidence[t],
             task'[t].status = "CLAIMED" => task[t].status = "CLAIMED" /\ task'[t].lease = task[t].lease
      PROVE  Quiet(t)
  BY <1>2 DEF Quiet, NewestEnds
<1>3. ASSUME Tick PROVE Quiet(t)
  BY <1>2, <1>3 DEF Tick
<1>4. ASSUME Maintain PROVE Quiet(t)
  <2>1. PICK now \in CapturedNow : task' = Swept(now) /\ leases' = SweptLeases(now)
    BY <1>4 DEF Maintain
  <2>2. now \in Nat
    BY CapturedIsNat DEF LedgerInv
  <2>3. evidence' = evidence
    BY <1>4 DEF Maintain
  <2> QED
    BY <2>1, <2>2, <2>3, SweepIsQuiet DEF Quiet
<1>5. ASSUME NEW u \in Tasks, Create(u) PROVE Quiet(t)
  <2>1. leases' = leases /\ evidence' = evidence
    BY <1>5 DEF Create
  <2>2. task'[t] = task[t] \/ task'[t].status = "PENDING"
    BY <1>1, <1>5 DEF Create, AbsentTask
  <2> QED
    BY <1>2, <2>1, <2>2
<1>6. ASSUME NEW u \in Tasks, NEW a \in Agents, Claim(u, a) PROVE Goal
  <2>1. PICK now \in CapturedNow, s \in LeaseTimes :
          /\ Claimable(u, a, now)
          /\ task' = [Swept(now) EXCEPT
                       ![u].status = "CLAIMED",
                       ![u].claimedBy = a,
                       ![u].lease = task[u].attempts + 1,
                       ![u].leaseExpires = now + s,
                       ![u].attempts = task[u].attempts + 1]
          /\ leases' = [SweptLeases(now) EXCEPT
                         ![u] = Append(@, [agent |-> a, at |-> now, end |-> "OPEN", endAt |-> 0])]
    BY <1>6 DEF Claim
  <2>2. now \in Nat /\ evidence' = evidence
    BY <1>6, CapturedIsNat DEF LedgerInv, Claim
  <2>3. DOMAIN Swept(now) = Tasks /\ DOMAIN SweptLeases(now) = Tasks
    BY DEF Swept, SweptLeases
  <2>4. CASE t # u
    <3>1. task'[t] = Swept(now)[t] /\ leases'[t] = SweptLeases(now)[t]
      BY <2>1, <2>3, <2>4
    <3> QED
      BY <2>2, <3>1, SweepIsQuiet DEF Quiet
  <2>5. CASE t = u
    <3> DEFINE old == SweptLeases(now)[t]
               new == [agent |-> a, at |-> now, end |-> "OPEN", endAt |-> 0]
    <3>1. /\ leases'[t] = Append(old, new)
          /\ task'[t].lease = task[t].attempts + 1
      <4>1. Swept(now)[t] \in TaskRow
        BY <2>2, SweepFacts DEF LedgerInv
      <4> DEFINE w == Swept(now)[t]
      <4>2. task'[t] = [w EXCEPT !.status = "CLAIMED", !.claimedBy = a, !.lease = task[t].attempts + 1,
                                 !.leaseExpires = now + s, !.attempts = task[t].attempts + 1]
        BY <2>1, <2>3, <2>5
      <4> HIDE DEF w
      <4>3. w \in TaskRow
        BY <4>1 DEF w
      <4>4. task'[t].lease = task[t].attempts + 1
        BY <4>2, <4>3 DEF TaskRow
      <4> QED
        BY <2>1, <2>3, <2>5, <4>4
    <3>2. task[t].attempts = Len(leases[t])
      BY <1>1 DEF Ledger
    <3>3. /\ NewestEnds(leases[t], old)
          /\ \A l \in DOMAIN leases[t] : old[l].end = "RELEASED" =>
               leases[t][l].end = "RELEASED" /\ old[l].endAt = leases[t][l].endAt
      BY <2>2, SweepIsQuiet
    <3>4. old \in Seq(LeaseRecord) /\ new \in LeaseRecord
      BY <2>2, SweepFacts DEF LedgerInv, LeaseRecord
    <3>5. new.agent = a /\ new.at = now
      OBVIOUS
    <3> HIDE DEF old, new
    <3>6. Len(old) = Len(leases[t]) /\ DOMAIN leases[t] = 1..Len(leases[t]) /\ Len(leases[t]) \in Nat
      <4>1. DOMAIN old = 1..Len(old) /\ Len(old) \in Nat
        BY <3>4, LenProperties
      <4>2. DOMAIN leases[t] = 1..Len(leases[t]) /\ Len(leases[t]) \in Nat
        BY <1>1, LenProperties
      <4>3. 1..Len(old) = 1..Len(leases[t])
        BY <3>3, <4>1, <4>2 DEF NewestEnds
      <4> QED
        BY <4>1, <4>2, <4>3
    <3>7. /\ DOMAIN Append(old, new) = 1..(Len(leases[t]) + 1)
          /\ Append(old, new)[Len(leases[t]) + 1] = new
          /\ \A l \in DOMAIN leases[t] : Append(old, new)[l] = old[l]
      BY <3>4, <3>6, AppendProperties
    <3>8. GrantsLease(leases[t], Append(old, new), a, now)
      BY <3>3, <3>5, <3>7 DEF GrantsLease, NewestEnds
    <3>9. ASSUME NEW l \in DOMAIN leases[t], leases[t][l].agent = a, leases[t][l].end = "RELEASED"
          PROVE  now >= leases[t][l].endAt + Cooldown
      <4>1. ~(leases[t][l].endAt > now - Cooldown)
        BY <2>1, <2>5, <3>9 DEF Claimable, CoolingDown
      <4>2. leases[t][l].endAt \in Nat
        <5>1. leases[t][l] \in LeaseRecord
          BY <1>1, <3>6, ElementOfSeq
        <5> QED
          BY <5>1 DEF LeaseRecord
      <4> QED
        BY <2>2, <4>1, <4>2, BoundAssumption
    <3>10. Grants(t)
      BY <2>2, <3>1, <3>2, <3>8, <3>9 DEF Grants
    <3> QED
      BY <3>10
  <2> QED
    BY <2>4, <2>5
<1>7. ASSUME NEW u \in Tasks, NEW a \in Agents, NEW l \in DOMAIN leases[u], Heartbeat(u, a, l)
      PROVE  Quiet(t)
  <2>1. leases' = leases /\ evidence' = evidence
    BY <1>7 DEF Heartbeat
  <2>2. task'[t].status = task[t].status /\ task'[t].lease = task[t].lease
    BY <1>1, <1>7 DEF Heartbeat, TaskRow
  <2> QED
    BY <1>2, <2>1, <2>2
<1>8. ASSUME NEW u \in Tasks, NEW a \in Agents, NEW l \in DOMAIN leases[u], Release(u, a, l)
      PROVE  Quiet(t)
  <2>1. PICK now \in CapturedNow :
          /\ ActiveLease(u, a, l, now)
          /\ task' = [task EXCEPT ![u] = Unleased(@, Returned(u))]
          /\ leases' = [leases EXCEPT ![u] = Closed(@, "RELEASED", now)]
    BY <1>8 DEF Release
  <2>2. evidence' = evidence
    BY <1>8 DEF Release
  <2>3. CASE t # u
    BY <1>1, <1>2, <2>1, <2>2, <2>3
  <2>4. CASE t = u
    <3>1. leases'[t] = Closed(leases[t], "RELEASED", now) /\ task'[t] = Unleased(task[t], Returned(t))
      BY <1>1, <2>1, <2>4
    <3>2. leases[t] # << >> /\ now \in Nat
      BY <1>1, <2>1, <2>4, CapturedIsNat DEF ActiveLease, Ledger, LedgerInv
    <3>3. NewestEnds(leases[t], Closed(leases[t], "RELEASED", now))
      BY <1>1, <3>2, ClosedNewest
    <3>4. Returned(t) \in {"PENDING", "DEAD_LETTER"}
      BY ReturnedFacts DEF LedgerInv
    <3>5. Unleased(task[t], Returned(t)).status # "CLAIMED"
      BY <1>1, <3>4, UnleasedFacts DEF Statuses
    <3> QED
      BY <2>2, <3>1, <3>3, <3>5 DEF Quiet
  <2> QED
    BY <2>3, <2>4
<1>9. ASSUME NEW u \in Tasks, NEW a \in Agents, NEW l \in DOMAIN leases[u], NEW b \in Bodies,
             NEW r \in 0..Len(evidence[u]), Submit(u, a, l, b, r)
      PROVE  Goal
  <2>1. r \in Nat
    OBVIOUS
  <2>2. CASE t = u
    BY <1>9, <2>1, <2>2
  <2>3. CASE t # u
    <3>1. evidence'[t] = evidence[t]
      BY <1>1, <1>9, <2>3 DEF Submit
    <3>2. task'[t] = task[t] /\ leases'[t] = leases[t]
      BY <1>1, <1>9, <2>3 DEF Submit
    <3> QED
      BY <1>2, <3>1, <3>2
  <2> QED
    BY <2>2, <2>3
<1>10. ASSUME UNCHANGED vars PROVE Quiet(t)
  BY <1>2, <1>10 DEF vars
<1> HIDE DEF Goal
<1>11. ASSUME NEW u \in Tasks, NEW a \in Agents, AgentStep(u, a) PROVE Goal
  <2>1. Quiet(t) => Goal
    BY DEF Goal
  <2> QED
    BY <1>6, <1>7, <1>8, <1>9, <1>11, <2>1 DEF AgentStep
<1>12. Quiet(t) => Goal
  BY DEF Goal
<1>13. Goal
  BY <1>3, <1>4, <1>5, <1>10, <1>11, <1>12 DEF Next
<1> QED
  BY <1>13 DEF Goal

-----------------------------------------------------------------------------
(* The invariants.                                                         *)

HistoryInv ==
  /\ LedgerInv
  /\ \A t \in Tasks : CooledDown(leases[t]) /\ RecordKept(task[t], leases[t], evidence[t])

\* Nothing is on record yet.
LEMMA HistoryInit == Init => HistoryInv
<1> SUFFICES ASSUME Init, NEW t \in Tasks
             PROVE  CooledDown(leases[t]) /\ RecordKept(task[t], leases[t], evidence[t])
  BY LedgerInit DEF HistoryInv
<1>1. leases[t] = << >> /\ evidence[t] = << >> /\ task[t].status = "ABSENT"
  BY DEF Init, AbsentTask
<1>2. DOMAIN << >> = {} /\ Cardinality({}) = 0 /\ MaxRepairs \in Nat
  BY FS_EmptySet, BoundAssumption
<1>3. CooledDown(leases[t]) /\ Fenced(leases[t], evidence[t]) /\ RepairsNamed(evidence[t])
  BY <1>1, <1>2 DEF CooledDown, Fenced, RepairsNamed
<1>4. RejectsBounded(evidence[t])
  <2> SUFFICES ASSUME NEW l \in Nat
               PROVE  Cardinality(Quarantine(evidence[t], l)) <= MaxRepairs + 1
    BY DEF RejectsBounded
  <2>1. Quarantine(evidence[t], l) = {}
    BY <1>1, <1>2 DEF Quarantine
  <2>2. Cardinality(Quarantine(evidence[t], l)) = 0
    BY <1>2, <2>1, Zenon
  <2> QED
    BY <1>2, <2>2
<1>5. HolderRepairs(task[t], evidence[t])
  BY <1>1 DEF HolderRepairs
<1> QED
  BY <1>3, <1>4, <1>5 DEF RecordKept

\* A submission is under the newest lease, and ends it unless it may be repaired.
LEMMA HistorySubmit ==
  ASSUME LedgerInv, NEW t \in Tasks, NEW a \in Agents, NEW b \in Bodies, NEW r \in Nat,
         NEW l \in DOMAIN leases[t], Submit(t, a, l, b, r),
         CooledDown(leases[t]), RecordKept(task[t], leases[t], evidence[t])
  PROVE  CooledDown(leases'[t]) /\ RecordKept(task'[t], leases'[t], evidence'[t])
<1> DEFINE e == [agent |-> a, lease |-> l, body |-> b, repairs |-> r]
<1>1. /\ task \in [Tasks -> TaskRow] /\ leases \in [Tasks -> Seq(LeaseRecord)]
      /\ evidence \in [Tasks -> Seq(EvidenceRow)]
      /\ Ledger(t, task[t], leases[t])
  BY DEF LedgerInv, TypeOK, LeaseLedger
<1>2. l \in Nat /\ leases[t][l].agent = a
  BY <1>1, LenProperties DEF Submit, Granted
<1>3. PICK now \in CapturedNow :
        /\ ActiveLease(t, a, l, now)
        /\ Repairs(t, a, l, r)
        /\ IF Check[b] = "repairable" /\ RepairsLeft(t, l)
           THEN UNCHANGED <<task, leases>>
           ELSE LET quorum == Check[b] = "clean" /\ QuorumWith(t, a)
                    next   == IF quorum THEN "COMPLETED" ELSE Returned(t)
                IN  /\ task' = [task EXCEPT ![t] = Unleased(@, next)]
                    /\ leases' = [leases EXCEPT ![t] = Closed(@, "SUBMITTED", now)]
  BY DEF Submit
<1>4. now \in Nat /\ task[t].status = "CLAIMED" /\ task[t].lease = l
  BY <1>3, CapturedIsNat DEF LedgerInv, ActiveLease
<1>5. leases[t] # << >> /\ l = Len(leases[t])
  BY <1>1, <1>4 DEF Ledger
<1>6. QuarantinedUnder(t, l) = Quarantine(evidence[t], l)
  BY DEF QuarantinedUnder, Quarantine, Accepted
<1>7. r # 0 => r \in Quarantine(evidence[t], l)
  BY <1>3, <1>6 DEF Repairs
<1>8. evidence'[t] = Append(evidence[t], e)
  BY <1>1 DEF Submit
<1>9. /\ e \in EvidenceRow /\ e.agent = a /\ e.lease = l /\ e.body = b /\ e.repairs = r
  BY <1>2 DEF EvidenceRow
<1>10. /\ NewestEnds(leases[t], leases'[t])
       /\ task'[t].status = "CLAIMED" =>
            /\ task'[t].lease = task[t].lease
            /\ Check[b] = "repairable"
            /\ Cardinality(Quarantine(evidence[t], l)) + 1 <= MaxRepairs
  <2>1. CASE Check[b] = "repairable" /\ RepairsLeft(t, l)
    BY <1>3, <1>6, <2>1 DEF RepairsLeft, NewestEnds
  <2>2. CASE ~(Check[b] = "repairable" /\ RepairsLeft(t, l))
    <3> DEFINE next == IF Check[b] = "clean" /\ QuorumWith(t, a) THEN "COMPLETED" ELSE Returned(t)
    <3>1. task'[t] = Unleased(task[t], next) /\ leases'[t] = Closed(leases[t], "SUBMITTED", now)
      BY <1>1, <1>3, <2>2
    <3>2. next \in Statuses /\ next # "CLAIMED"
      BY ReturnedFacts DEF LedgerInv, Statuses
    <3> HIDE DEF next
    <3>3. Unleased(task[t], next).status # "CLAIMED"
      BY <1>1, <3>2, UnleasedFacts
    <3>4. NewestEnds(leases[t], Closed(leases[t], "SUBMITTED", now))
      BY <1>1, <1>4, <1>5, ClosedNewest
    <3> QED
      BY <3>1, <3>3, <3>4
  <2> QED
    BY <2>1, <2>2
<1> HIDE DEF e
<1>11. RecordKept(task'[t], leases'[t], Append(evidence[t], e))
  BY <1>1, <1>2, <1>4, <1>5, <1>7, <1>9, <1>10, SubmitKeepsRecord
<1> QED
  BY <1>1, <1>8, <1>10, <1>11, EndKeepsCooldown

\* Every step keeps the record of every task.
LEMMA HistoryNext == HistoryInv /\ [Next]_vars => HistoryInv'
<1> SUFFICES ASSUME HistoryInv, [Next]_vars, NEW t \in Tasks
             PROVE  CooledDown(leases'[t]) /\ RecordKept(task'[t], leases'[t], evidence'[t])
  BY LedgerNext DEF HistoryInv
<1>1. /\ LedgerInv /\ leases[t] \in Seq(LeaseRecord)
      /\ CooledDown(leases[t]) /\ RecordKept(task[t], leases[t], evidence[t])
  BY DEF HistoryInv, LedgerInv, TypeOK
<1>2. CASE Quiet(t)
  BY <1>1, <1>2, EndKeepsCooldown, QuietKeepsRecord DEF Quiet
<1>3. CASE Grants(t)
  <2>1. PICK a \in Agents, now \in Nat :
          /\ GrantsLease(leases[t], leases'[t], a, now)
          /\ evidence'[t] = evidence[t]
          /\ task'[t].lease = Len(leases[t]) + 1
          /\ \A l \in DOMAIN leases[t] :
               leases[t][l].agent = a /\ leases[t][l].end = "RELEASED" => now >= leases[t][l].endAt + Cooldown
    BY <1>3 DEF Grants
  <2>2. CooledDown(leases'[t])
    BY <1>1, <2>1, GrantKeepsCooldown
  <2>3. RecordKept(task'[t], leases'[t], evidence[t])
    BY <1>1, <2>1, GrantKeepsRecord
  <2> QED
    BY <2>1, <2>2, <2>3
<1>4. ASSUME NEW a \in Agents, NEW b \in Bodies, NEW r \in Nat, NEW l \in DOMAIN leases[t],
             Submit(t, a, l, b, r)
      PROVE  CooledDown(leases'[t]) /\ RecordKept(task'[t], leases'[t], evidence'[t])
  BY <1>1, <1>4, HistorySubmit
<1> QED
  BY <1>1, <1>2, <1>3, <1>4, StepKinds

\* The record of every task is kept, whatever order claims, sweeps and submissions come in.
THEOREM HistoryCorrect == Spec => []HistoryInv
BY HistoryInit, HistoryNext, PTL DEF Spec

\* A token that outlived its lease never writes evidence, and a lease collects a bounded
\* number of rejections, at every step of every interleaving (_assert_active_lease and
\* lease_quarantine_count).
THEOREM EvidenceIsHeld == Spec => []EvidenceHolds
<1>1. HistoryInv => EvidenceHolds
  <2> SUFFICES ASSUME HistoryInv, NEW t \in Tasks
               PROVE  /\ \A j \in DOMAIN evidence[t] :
                           LET e == evidence[t][j]
                           IN  /\ Granted(t, e.agent, e.lease)
                               /\ \A i \in 1..(j - 1) :
                                    \/ evidence[t][i].lease < e.lease
                                    \/ evidence[t][i].lease = e.lease /\ Check[evidence[t][i].body] = "repairable"
                      /\ \A j \in DOMAIN evidence[t] :
                           LET r == evidence[t][j].repairs
                           IN  r # 0 => r < j /\ r \in QuarantinedUnder(t, evidence[t][j].lease)
                      /\ \A l \in DOMAIN leases[t] : Cardinality(QuarantinedUnder(t, l)) <= MaxRepairs + 1
    BY DEF EvidenceHolds, EvidenceFenced, RepairsBounded
  <2>1. /\ Fenced(leases[t], evidence[t]) /\ RepairsNamed(evidence[t]) /\ RejectsBounded(evidence[t])
        /\ leases[t] \in Seq(LeaseRecord)
    BY DEF HistoryInv, RecordKept, LedgerInv, TypeOK
  <2>2. \A l : QuarantinedUnder(t, l) = Quarantine(evidence[t], l)
    BY DEF QuarantinedUnder, Quarantine, Accepted
  <2>3. DOMAIN leases[t] \subseteq Nat
    BY <2>1, LenProperties
  <2>4. \A j \in DOMAIN evidence[t] :
          LET e == evidence[t][j]
          IN  /\ Granted(t, e.agent, e.lease)
              /\ \A i \in 1..(j - 1) :
                   \/ evidence[t][i].lease < e.lease
                   \/ evidence[t][i].lease = e.lease /\ Check[evidence[t][i].body] = "repairable"
    BY <2>1 DEF Fenced, Granted
  <2>5. \A j \in DOMAIN evidence[t] :
          LET r == evidence[t][j].repairs
          IN  r # 0 => r < j /\ r \in QuarantinedUnder(t, evidence[t][j].lease)
    BY <2>1, <2>2 DEF RepairsNamed
  <2>6. \A l \in DOMAIN leases[t] : Cardinality(QuarantinedUnder(t, l)) <= MaxRepairs + 1
    BY <2>1, <2>2, <2>3 DEF RejectsBounded
  <2> QED
    BY <2>4, <2>5, <2>6
<1> QED
  BY <1>1, HistoryCorrect, PTL

\* An agent that released a task is not given it before the cooldown is over, however its
\* release, the sweeps and the claims of others interleave.
THEOREM CooldownIsKept == Spec => []ReleaseCoolsDown
<1>1. HistoryInv => ReleaseCoolsDown
  BY DEF HistoryInv, CooledDown, ReleaseCoolsDown
<1> QED
  BY <1>1, HistoryCorrect, PTL

-----------------------------------------------------------------------------
(* The workers.  What a step of the queue leaves to agent x on task u, when *)
(* it is not a step of x on u.                                             *)

\* Agent x no longer holds task u, since it missed its deadline or the lease is over.
Ended(x, u) ==
  /\ task'[u].claimedBy # x /\ task'[u].lease # task[u].lease
  /\ DeadlineMissed(u) \/ task[u].leaseExpires <= clock

Untouched(x, u) ==
  /\ task'[u].claimedBy = x => task'[u] = task[u]
  /\ task[u].claimedBy = x => task'[u] = task[u] \/ Ended(x, u)
  /\ task[u].status # "ABSENT" => task'[u].deadline = task[u].deadline
  /\ \A l \in Nat : Granted(u, x, l)' <=> Granted(u, x, l)
  /\ \A l \in Nat : Granted(u, x, l) /\ task[u].lease # l => task'[u].lease # l
  /\ x \in AcceptedAgents(u)' <=> x \in AcceptedAgents(u)

\* What the invariants of the queue say of one task.
LEMMA OneRow ==
  ASSUME LedgerInv, NEW u \in Tasks
  PROVE  /\ task[u] \in TaskRow /\ leases[u] \in Seq(LeaseRecord) /\ Ledger(u, task[u], leases[u])
         /\ Len(leases[u]) \in 0..20 /\ DOMAIN leases[u] = 1..Len(leases[u])
         /\ clock \in Nat
<1>1. task[u] \in TaskRow /\ leases[u] \in Seq(LeaseRecord) /\ Ledger(u, task[u], leases[u]) /\ clock \in Nat
  BY BoundAssumption DEF LedgerInv, TypeOK, LeaseLedger
<1>2. Len(leases[u]) \in Nat /\ DOMAIN leases[u] = 1..Len(leases[u])
  BY <1>1, LenProperties
<1>3. Request[u].maxAttempts \in 1..20
  BY RequestAssumption DEF ValidRequest, RequestRecord
<1>4. Len(leases[u]) <= Request[u].maxAttempts
  BY <1>1 DEF Ledger
<1>5. Len(leases[u]) \in 0..20
  <2>1. \A n \in Nat, m \in 1..20 : n <= m => n \in 0..20
    OBVIOUS
  <2> QED
    BY <1>2, <1>3, <1>4, <2>1
<1> QED
  BY <1>1, <1>2, <1>5

\* The agent of a task is the one its newest lease was granted to.
LEMMA HolderOfLease ==
  ASSUME LedgerInv, NEW u \in Tasks, NEW x \in Agents, NEW l, Granted(u, x, l), task[u].lease = l
  PROVE  task[u].status = "CLAIMED" /\ task[u].claimedBy = x
<1>1. Ledger(u, task[u], leases[u]) /\ DOMAIN leases[u] = 1..Len(leases[u])
  BY OneRow
<1>2. l \in 1..Len(leases[u]) /\ leases[u][l].agent = x /\ Len(leases[u]) \in Nat
  BY <1>1, OneRow DEF Granted
<1>3. task[u].lease # NoLease
  BY <1>2 DEF NoLease
<1>4. task[u].status = "CLAIMED"
  BY <1>1, <1>3 DEF Ledger
<1>5. l = Len(leases[u]) /\ task[u].claimedBy = leases[u][Len(leases[u])].agent
  BY <1>1, <1>4 DEF Ledger
<1> QED
  BY <1>2, <1>4, <1>5

\* An agent that holds a task was granted its lease.
LEMMA HolderIsGranted ==
  ASSUME LedgerInv, NEW u \in Tasks, NEW x \in Agents, task[u].claimedBy = x
  PROVE  task[u].status = "CLAIMED" /\ Granted(u, x, task[u].lease)
<1>1. Ledger(u, task[u], leases[u]) /\ leases[u] \in Seq(LeaseRecord) /\ x # None
  BY OneRow, NoneAssumption
<1>2. task[u].status = "CLAIMED"
  BY <1>1 DEF Ledger
<1>3. leases[u] # << >> /\ task[u].lease = Len(leases[u]) /\ x = leases[u][Len(leases[u])].agent
  BY <1>1, <1>2 DEF Ledger
<1>4. Len(leases[u]) \in 1..Len(leases[u]) /\ DOMAIN leases[u] = 1..Len(leases[u])
  BY <1>1, <1>3, OneRow, EmptySeq
<1> QED
  BY <1>2, <1>3, <1>4 DEF Granted

LEMMA SameUntouched ==
  ASSUME NEW x \in Agents, NEW u \in Tasks,
         task'[u] = task[u], leases'[u] = leases[u], evidence'[u] = evidence[u]
  PROVE  Untouched(x, u)
BY DEF Untouched, Granted, AcceptedAgents, Accepted

\* What the sweep does to one row.
LEMMA SweptRow ==
  ASSUME LedgerInv, NEW now \in CapturedNow, NEW u \in Tasks
  PROVE  /\ Swept(now)[u].deadline = task[u].deadline
         /\ DOMAIN SweptLeases(now)[u] = DOMAIN leases[u]
         /\ \A l \in DOMAIN leases[u] : SweptLeases(now)[u][l].agent = leases[u][l].agent
         /\ \/ Swept(now)[u] = task[u]
            \/ /\ Swept(now)[u].claimedBy = None /\ Swept(now)[u].lease = NoLease
               /\ task[u].status = "CLAIMED" => DeadlineMissed(u) \/ task[u].leaseExpires <= clock
         /\ Swept(now)[u].status = "PENDING" /\ task[u].status = "CLAIMED" => task[u].leaseExpires <= clock
<1>1. /\ task[u] \in TaskRow /\ leases[u] \in Seq(LeaseRecord) /\ Ledger(u, task[u], leases[u])
      /\ TypeOK /\ LeaseLedger /\ clock \in Nat /\ now \in Nat /\ now <= clock
  <2>1. TypeOK /\ LeaseLedger
    BY DEF LedgerInv
  <2> QED
    BY <2>1, OneRow, CapturedIsNat DEF CapturedNow
<1>2. /\ task[u].deadline \in Nat \cup {None} /\ task[u].leaseExpires \in Nat
      /\ None \notin Int
  BY <1>1, NoneAssumption DEF TaskRow
<1>3. Missed(u, now) => DeadlineMissed(u)
  BY <1>1, <1>2 DEF Missed, DeadlineMissed
<1>4. LeaseOver(u, now) => task[u].leaseExpires <= clock
  BY <1>1, <1>2 DEF LeaseOver
<1>5. SweptStatus(u, now) \in Statuses
  BY <1>1, SweepFacts DEF TaskRow
<1>6. SweptStatus(u, now) # task[u].status => Swept(now)[u] = Unleased(task[u], SweptStatus(u, now))
  BY DEF Swept
<1>7. SweptStatus(u, now) = task[u].status => Swept(now)[u] = task[u]
  BY DEF Swept
<1>8. /\ Unleased(task[u], SweptStatus(u, now)).claimedBy = None
      /\ Unleased(task[u], SweptStatus(u, now)).lease = NoLease
      /\ Unleased(task[u], SweptStatus(u, now)).deadline = task[u].deadline
  BY <1>1, <1>5, UnleasedFacts
<1>9. Swept(now)[u].deadline = task[u].deadline
  BY <1>6, <1>7, <1>8
<1>10. Returned(u) \in {"PENDING", "DEAD_LETTER"}
  BY <1>1, ReturnedFacts
<1>11. \/ Swept(now)[u] = task[u]
       \/ /\ Swept(now)[u].claimedBy = None /\ Swept(now)[u].lease = NoLease
          /\ task[u].status = "CLAIMED" => DeadlineMissed(u) \/ task[u].leaseExpires <= clock
  <2>1. SweptStatus(u, now) # task[u].status /\ task[u].status = "CLAIMED" => Missed(u, now) \/ LeaseOver(u, now)
    BY DEF SweptStatus, Exhausted
  <2> QED
    BY <1>3, <1>4, <1>6, <1>7, <1>8, <2>1
<1>12. Swept(now)[u].status = "PENDING" /\ task[u].status = "CLAIMED" => task[u].leaseExpires <= clock
  <2>1. Swept(now)[u].status = SweptStatus(u, now)
    BY <1>1, SweepFacts
  <2>2. SweptStatus(u, now) = "PENDING" => ~Missed(u, now)
    BY DEF SweptStatus
  <2>3. SweptStatus(u, now) = "PENDING" /\ task[u].status = "CLAIMED" => LeaseOver(u, now)
    BY <2>2 DEF SweptStatus, Exhausted
  <2> QED
    BY <1>4, <2>1, <2>3
<1>13. /\ DOMAIN SweptLeases(now)[u] = DOMAIN leases[u]
       /\ \A l \in DOMAIN leases[u] : SweptLeases(now)[u][l].agent = leases[u][l].agent
  <2>1. CASE task[u].status = "CLAIMED" /\ (Missed(u, now) \/ LeaseOver(u, now))
    <3>1. leases[u] # << >>
      BY <1>1, <2>1 DEF Ledger
    <3>2. SweptLeases(now)[u] = Closed(leases[u], "EXPIRED", now)
      BY <2>1 DEF SweptLeases
    <3> QED
      BY <1>1, <3>1, <3>2, ClosedFacts
  <2>2. CASE ~(task[u].status = "CLAIMED" /\ (Missed(u, now) \/ LeaseOver(u, now)))
    <3>1. SweptLeases(now)[u] = leases[u]
      BY <2>2 DEF SweptLeases
    <3> QED
      BY <3>1
  <2> QED
    BY <2>1, <2>2
<1> QED
  BY <1>9, <1>11, <1>12, <1>13

\* The sweep takes a task from an agent only when it is time.
LEMMA SweptUntouched ==
  ASSUME LedgerInv, NEW now \in CapturedNow, NEW x \in Agents, NEW u \in Tasks,
         task'[u] = Swept(now)[u], leases'[u] = SweptLeases(now)[u], evidence'[u] = evidence[u]
  PROVE  Untouched(x, u)
<1>1. x # None /\ DOMAIN leases[u] = 1..Len(leases[u]) /\ Len(leases[u]) \in Nat
  BY OneRow, NoneAssumption
<1>2. \A l \in Nat : Granted(u, x, l)' <=> Granted(u, x, l)
  BY SweptRow DEF Granted
<1>3. x \in AcceptedAgents(u)' <=> x \in AcceptedAgents(u)
  BY DEF AcceptedAgents, Accepted
<1>4. CASE task'[u] = task[u]
  BY <1>2, <1>3, <1>4 DEF Untouched
<1>5. CASE /\ task'[u].claimedBy = None /\ task'[u].lease = NoLease
           /\ task[u].status = "CLAIMED" => DeadlineMissed(u) \/ task[u].leaseExpires <= clock
  <2>1. ASSUME NEW l \in Nat, Granted(u, x, l) PROVE task'[u].lease # l
    BY <1>1, <1>5, <2>1 DEF Granted, NoLease
  <2>2. task[u].claimedBy = x => task[u].status = "CLAIMED" /\ Granted(u, x, task[u].lease) /\ task[u].lease \in Nat
    BY HolderIsGranted, OneRow DEF TaskRow
  <2>3. task[u].claimedBy = x => Ended(x, u)
    BY <1>1, <1>5, <2>1, <2>2 DEF Ended
  <2>4. task'[u].deadline = task[u].deadline
    BY SweptRow
  <2> QED
    BY <1>1, <1>2, <1>3, <1>5, <2>1, <2>3, <2>4 DEF Untouched
<1> QED
  BY <1>4, <1>5, SweptRow

\* What the end of its lease does to a task, and what it leaves to the others.
LEMMA LeaseEnds ==
  ASSUME LedgerInv, NEW t \in Tasks, NEW a \in Agents, NEW l, NEW now \in Nat, NEW s \in Statuses,
         NEW how \in {"RELEASED", "SUBMITTED", "EXPIRED"}, ActiveLease(t, a, l, now),
         task' = [task EXCEPT ![t] = Unleased(@, s)],
         leases' = [leases EXCEPT ![t] = Closed(@, how, now)]
  PROVE  /\ task'[t].claimedBy = None /\ task'[t].lease = NoLease /\ task'[t].deadline = task[t].deadline
         /\ \A u \in Tasks \ {t} : task'[u] = task[u] /\ leases'[u] = leases[u]
         /\ \A x, k : Granted(t, x, k)' <=> Granted(t, x, k)
<1>1. /\ task[t] \in TaskRow /\ leases[t] \in Seq(LeaseRecord) /\ Ledger(t, task[t], leases[t])
      /\ task \in [Tasks -> TaskRow] /\ leases \in [Tasks -> Seq(LeaseRecord)]
  BY OneRow DEF LedgerInv, TypeOK
<1>2. task[t].status = "CLAIMED" /\ leases[t] # << >>
  BY <1>1 DEF ActiveLease, Ledger
<1>3. task'[t] = Unleased(task[t], s) /\ leases'[t] = Closed(leases[t], how, now)
  BY <1>1
<1>4. task'[t].claimedBy = None /\ task'[t].lease = NoLease /\ task'[t].deadline = task[t].deadline
  BY <1>1, <1>3, UnleasedFacts
<1>5. \A u \in Tasks \ {t} : task'[u] = task[u] /\ leases'[u] = leases[u]
  BY <1>1
<1>6. /\ DOMAIN leases'[t] = DOMAIN leases[t]
      /\ \A k \in DOMAIN leases[t] : leases'[t][k].agent = leases[t][k].agent
  BY <1>1, <1>2, <1>3, ClosedFacts
<1>7. \A x, k : Granted(t, x, k)' <=> Granted(t, x, k)
  BY <1>6 DEF Granted
<1> QED
  BY <1>4, <1>5, <1>7

\* An agent that does not hold task t keeps what it has of it while the holder gives it up.
LEMMA OthersUntouched ==
  ASSUME LedgerInv, NEW t \in Tasks, NEW a \in Agents, NEW x \in Agents, x # a,
         task[t].claimedBy = a,
         \/ task'[t].claimedBy = None /\ task'[t].lease = NoLease
         \/ task'[t].claimedBy = a /\ task'[t].lease = task[t].lease,
         task'[t].deadline = task[t].deadline,
         \A k : Granted(t, x, k)' <=> Granted(t, x, k),
         x \in AcceptedAgents(t)' <=> x \in AcceptedAgents(t)
  PROVE  Untouched(x, t)
<1>1. x # None /\ DOMAIN leases[t] = 1..Len(leases[t])
  BY OneRow, NoneAssumption
<1>2. \A k \in Nat : Granted(t, x, k) => k # NoLease
  BY <1>1, OneRow DEF Granted, NoLease
<1> QED
  BY <1>1, <1>2 DEF Untouched

\* What the holder's submission does.
LEMMA SubmitEffect ==
  ASSUME LedgerInv, QuorumInv, NEW t \in Tasks, NEW a \in Agents, NEW l, NEW b \in Bodies,
         NEW r \in Nat, Submit(t, a, l, b, r)
  PROVE  /\ task[t].claimedBy = a /\ task[t].lease = l /\ clock' = clock
         /\ \/ task'[t] = task[t] /\ Check[b] = "repairable"
            \/ task'[t].claimedBy = None /\ task'[t].lease = NoLease
         /\ task'[t].deadline = task[t].deadline
         /\ \A k : Granted(t, a, k)' <=> Granted(t, a, k)
         /\ a \notin AcceptedAgents(t)
         /\ a \in AcceptedAgents(t)' <=> Check[b] = "clean"
         /\ \A x \in Agents, u \in Tasks : x # a \/ u # t => Untouched(x, u)
<1>1. PICK now \in CapturedNow :
        /\ ActiveLease(t, a, l, now)
        /\ IF Check[b] = "repairable" /\ RepairsLeft(t, l)
           THEN UNCHANGED <<task, leases>>
           ELSE LET quorum == Check[b] = "clean" /\ QuorumWith(t, a)
                    next   == IF quorum THEN "COMPLETED" ELSE Returned(t)
                IN  /\ task' = [task EXCEPT ![t] = Unleased(@, next)]
                    /\ leases' = [leases EXCEPT ![t] = Closed(@, "SUBMITTED", now)]
  BY DEF Submit
<1>2. now \in Nat /\ TypeOK
  BY CapturedIsNat DEF LedgerInv
<1>3. task[t].claimedBy = a /\ task[t].lease = l /\ task[t].status = "CLAIMED" /\ clock' = clock
  BY <1>1 DEF ActiveLease, Submit
<1>4. a \notin AcceptedAgents(t)
  BY <1>3 DEF QuorumInv, HolderFresh
<1>5. \A u \in Tasks : AcceptedAgents(u)' =
        IF u = t /\ Check[b] = "clean" THEN AcceptedAgents(u) \cup {a} ELSE AcceptedAgents(u)
  BY <1>2, SubmitSupport
<1>6. \A u \in Tasks \ {t} : evidence'[u] = evidence[u]
  BY <1>2, SubmitAppends
<1> DEFINE Effect == /\ \/ task'[t] = task[t] /\ Check[b] = "repairable"
                        \/ task'[t].claimedBy = None /\ task'[t].lease = NoLease
                     /\ task'[t].deadline = task[t].deadline
                     /\ \A x, k : Granted(t, x, k)' <=> Granted(t, x, k)
                     /\ \A u \in Tasks \ {t} : task'[u] = task[u] /\ leases'[u] = leases[u]
<1>7. ASSUME Check[b] = "repairable" /\ RepairsLeft(t, l)
      PROVE  Effect
  <2>1. task' = task /\ leases' = leases
    BY <1>1, <1>7
  <2> QED
    BY <1>7, <2>1 DEF Granted
<1>8. ASSUME ~(Check[b] = "repairable" /\ RepairsLeft(t, l))
      PROVE  Effect
  <2> DEFINE s == IF Check[b] = "clean" /\ QuorumWith(t, a) THEN "COMPLETED" ELSE Returned(t)
  <2>1. task' = [task EXCEPT ![t] = Unleased(@, s)] /\ leases' = [leases EXCEPT ![t] = Closed(@, "SUBMITTED", now)]
    BY <1>1, <1>8
  <2>2. s \in Statuses
    BY <1>2, ReturnedFacts DEF Statuses
  <2> HIDE DEF s
  <2> QED
    BY <1>1, <1>2, <2>1, <2>2, LeaseEnds
<1>9. Effect
  BY <1>7, <1>8
<1>10. ASSUME NEW x \in Agents, NEW u \in Tasks, u # t PROVE Untouched(x, u)
  BY <1>6, <1>9, <1>10, SameUntouched
<1>11. ASSUME NEW x \in Agents, x # a PROVE Untouched(x, t)
  <2>1. x \in AcceptedAgents(t)' <=> x \in AcceptedAgents(t)
    BY <1>5, <1>11
  <2> QED
    BY <1>3, <1>9, <1>11, <2>1, OthersUntouched
<1> HIDE DEF Effect
<1>12. \A x \in Agents, u \in Tasks : x # a \/ u # t => Untouched(x, u)
  BY <1>10, <1>11
<1>13. a \in AcceptedAgents(t)' <=> Check[b] = "clean"
  BY <1>4, <1>5
<1> QED
  BY <1>3, <1>4, <1>9, <1>12, <1>13 DEF Effect

\* The same, part by part.
LEMMA SubmitMoves ==
  ASSUME LedgerInv, QuorumInv, NEW t \in Tasks, NEW a \in Agents, NEW l, NEW b \in Bodies,
         NEW r \in Nat, Submit(t, a, l, b, r)
  PROVE  /\ task[t].claimedBy = a /\ task[t].lease = l /\ clock' = clock
         /\ \/ task'[t] = task[t] /\ Check[b] = "repairable"
            \/ task'[t].claimedBy = None /\ task'[t].lease = NoLease
BY SubmitEffect, ZenonT(60)

LEMMA SubmitAccepts ==
  ASSUME LedgerInv, QuorumInv, NEW t \in Tasks, NEW a \in Agents, NEW l, NEW b \in Bodies,
         NEW r \in Nat, Submit(t, a, l, b, r)
  PROVE  a \notin AcceptedAgents(t) /\ (a \in AcceptedAgents(t)' <=> Check[b] = "clean")
BY SubmitEffect, ZenonT(60)

\* What its release does.
LEMMA ReleaseEffect ==
  ASSUME LedgerInv, NEW t \in Tasks, NEW a \in Agents, NEW l, Release(t, a, l)
  PROVE  /\ clock' = clock /\ task'[t].claimedBy = None /\ task'[t].lease = NoLease
         /\ task'[t].deadline = task[t].deadline
         /\ \A k : Granted(t, a, k)' <=> Granted(t, a, k)
         /\ \A x \in Agents, u \in Tasks : x \in AcceptedAgents(u)' <=> x \in AcceptedAgents(u)
         /\ \A x \in Agents, u \in Tasks : x # a \/ u # t => Untouched(x, u)
<1>1. PICK now \in CapturedNow :
        /\ ActiveLease(t, a, l, now)
        /\ task' = [task EXCEPT ![t] = Unleased(@, Returned(t))]
        /\ leases' = [leases EXCEPT ![t] = Closed(@, "RELEASED", now)]
  BY DEF Release
<1>2. now \in Nat /\ TypeOK /\ Returned(t) \in Statuses
  <2>1. TypeOK
    BY DEF LedgerInv
  <2> QED
    BY <2>1, CapturedIsNat, ReturnedFacts DEF Statuses
<1>3. task[t].claimedBy = a /\ clock' = clock /\ evidence' = evidence
  BY <1>1 DEF ActiveLease, Release
<1>4. /\ task'[t].claimedBy = None /\ task'[t].lease = NoLease /\ task'[t].deadline = task[t].deadline
      /\ \A u \in Tasks \ {t} : task'[u] = task[u] /\ leases'[u] = leases[u]
      /\ \A x, k : Granted(t, x, k)' <=> Granted(t, x, k)
  BY <1>1, <1>2, LeaseEnds
<1>5. \A x \in Agents, u \in Tasks : x \in AcceptedAgents(u)' <=> x \in AcceptedAgents(u)
  BY <1>3 DEF AcceptedAgents, Accepted
<1>6. ASSUME NEW x \in Agents, NEW u \in Tasks, u # t PROVE Untouched(x, u)
  BY <1>3, <1>4, <1>6, SameUntouched
<1>7. ASSUME NEW x \in Agents, x # a PROVE Untouched(x, t)
  BY <1>3, <1>4, <1>5, <1>7, OthersUntouched
<1>8. \A x \in Agents, u \in Tasks : x # a \/ u # t => Untouched(x, u)
  BY <1>6, <1>7
<1> QED
  BY <1>3, <1>4, <1>5, <1>8

\* What a renewal of its lease does.
LEMMA RenewalEffect ==
  ASSUME LedgerInv, NEW t \in Tasks, NEW a \in Agents, NEW l, NEW now \in Nat, NEW s \in LeaseTimes,
         ActiveLease(t, a, l, now), task' = [task EXCEPT ![t].leaseExpires = now + s],
         leases' = leases, evidence' = evidence
  PROVE  /\ task'[t].claimedBy = a /\ task'[t].lease = l /\ task[t].claimedBy = a /\ task[t].lease = l
         /\ task'[t].leaseExpires = now + s /\ task'[t].deadline = task[t].deadline
         /\ \A x \in Agents, u \in Tasks : x \in AcceptedAgents(u)' <=> x \in AcceptedAgents(u)
         /\ \A x, u, k : Granted(u, x, k)' <=> Granted(u, x, k)
         /\ \A x \in Agents, u \in Tasks : x # a \/ u # t => Untouched(x, u)
<1>1. task \in [Tasks -> TaskRow] /\ task[t] \in TaskRow
  BY DEF LedgerInv, TypeOK
<1>2. /\ \A u \in Tasks \ {t} : task'[u] = task[u]
      /\ task'[t] = [task[t] EXCEPT !.leaseExpires = now + s]
  BY <1>1
<1>3. task[t].claimedBy = a /\ task[t].lease = l
  BY DEF ActiveLease
<1>4. /\ task'[t].claimedBy = a /\ task'[t].lease = l
      /\ task'[t].leaseExpires = now + s /\ task'[t].deadline = task[t].deadline
  BY <1>1, <1>2, <1>3 DEF TaskRow
<1>5. \A x \in Agents, u \in Tasks : x \in AcceptedAgents(u)' <=> x \in AcceptedAgents(u)
  BY DEF AcceptedAgents, Accepted
<1>6. \A x, u, k : Granted(u, x, k)' <=> Granted(u, x, k)
  BY DEF Granted
<1>7. ASSUME NEW x \in Agents, NEW u \in Tasks, u # t PROVE Untouched(x, u)
  BY <1>2, <1>7, SameUntouched
<1>8. ASSUME NEW x \in Agents, x # a PROVE Untouched(x, t)
  BY <1>3, <1>4, <1>5, <1>6, <1>8, OthersUntouched
<1>9. \A x \in Agents, u \in Tasks : x # a \/ u # t => Untouched(x, u)
  BY <1>7, <1>8
<1> QED
  BY <1>3, <1>4, <1>5, <1>6, <1>9

\* What claim_task grants, and what it leaves to the others.
LEMMA ClaimEffect ==
  ASSUME LedgerInv, NEW t \in Tasks, NEW a \in Agents, Claim(t, a)
  PROVE  LET n == Len(leases[t]) + 1
         IN  /\ clock' = clock /\ n \in 1..20
             /\ task'[t].claimedBy = a /\ task'[t].lease = n
             /\ \E now \in CapturedNow, s \in LeaseTimes : task'[t].leaseExpires = now + s
             /\ ~Granted(t, a, n)
             /\ \A k : Granted(t, a, k)' <=> Granted(t, a, k) \/ k = n
             /\ \A x \in Agents, u \in Tasks : x \in AcceptedAgents(u)' <=> x \in AcceptedAgents(u)
             /\ \A x \in Agents, u \in Tasks : x # a \/ u # t => Untouched(x, u)
<1> DEFINE n == Len(leases[t]) + 1
<1>1. PICK now \in CapturedNow, s \in LeaseTimes :
        /\ Claimable(t, a, now)
        /\ task' = [Swept(now) EXCEPT
                     ![t].status = "CLAIMED",
                     ![t].claimedBy = a,
                     ![t].lease = task[t].attempts + 1,
                     ![t].leaseExpires = now + s,
                     ![t].attempts = task[t].attempts + 1]
        /\ leases' = [SweptLeases(now) EXCEPT
                       ![t] = Append(@, [agent |-> a, at |-> now, end |-> "OPEN", endAt |-> 0])]
  BY DEF Claim
<1>2. now \in Nat /\ TypeOK /\ LeaseLedger /\ clock' = clock /\ evidence' = evidence
  <2>1. TypeOK /\ LeaseLedger
    BY DEF LedgerInv
  <2> QED
    BY <2>1, CapturedIsNat DEF Claim
<1>3. /\ task[t] \in TaskRow /\ leases[t] \in Seq(LeaseRecord) /\ Ledger(t, task[t], leases[t])
      /\ DOMAIN leases[t] = 1..Len(leases[t]) /\ Len(leases[t]) \in Nat
  BY OneRow
<1>4. DOMAIN Swept(now) = Tasks /\ DOMAIN SweptLeases(now) = Tasks
  BY DEF Swept, SweptLeases
<1>5. Swept(now)[t] \in TaskRow /\ SweptLeases(now)[t] \in Seq(LeaseRecord)
  BY <1>2, SweepFacts
<1>6. /\ task'[t].claimedBy = a /\ task'[t].lease = n /\ task'[t].leaseExpires = now + s
      /\ task'[t].deadline = task[t].deadline
  <2> DEFINE w == Swept(now)[t]
  <2>1. w \in TaskRow /\ w.deadline = task[t].deadline
    BY <1>5, SweptRow
  <2>2. task'[t] = [w EXCEPT !.status = "CLAIMED", !.claimedBy = a, !.lease = task[t].attempts + 1,
                             !.leaseExpires = now + s, !.attempts = task[t].attempts + 1]
    BY <1>1, <1>4
  <2> HIDE DEF w
  <2>3. /\ task'[t].claimedBy = a /\ task'[t].lease = task[t].attempts + 1
        /\ task'[t].leaseExpires = now + s /\ task'[t].deadline = w.deadline
    BY <2>1, <2>2 DEF TaskRow
  <2>4. task[t].attempts = Len(leases[t])
    BY <1>3 DEF Ledger
  <2> QED
    BY <2>1, <2>3, <2>4
<1>7. n \in 1..20
  <2>1. Request[t].maxAttempts \in 1..20
    BY RequestAssumption DEF ValidRequest, RequestRecord
  <2>2. Len(leases[t]) < Request[t].maxAttempts
    <3>1. Swept(now)[t].attempts < Request[t].maxAttempts
      BY <1>1 DEF Claimable
    <3>2. Swept(now)[t].attempts = task[t].attempts
      BY <1>2, SweepFacts
    <3>3. task[t].attempts = Len(leases[t])
      BY <1>3 DEF Ledger
    <3> QED
      BY <3>1, <3>2, <3>3
  <2>3. \A i \in Nat, m \in 1..20 : i < m => i + 1 \in 1..20
    OBVIOUS
  <2> QED
    BY <1>3, <2>1, <2>2, <2>3
<1>8. /\ DOMAIN leases'[t] = 1..n /\ leases'[t][n].agent = a
      /\ \A k \in 1..Len(leases[t]) : leases'[t][k].agent = leases[t][k].agent
  <2> DEFINE old == SweptLeases(now)[t]
             e == [agent |-> a, at |-> now, end |-> "OPEN", endAt |-> 0]
  <2>1. leases'[t] = Append(old, e) /\ e.agent = a
    BY <1>1, <1>4
  <2>2. old \in Seq(LeaseRecord)
    BY <1>5
  <2>3. /\ DOMAIN old = 1..Len(leases[t])
        /\ \A k \in DOMAIN leases[t] : old[k].agent = leases[t][k].agent
    BY <1>3, SweptRow
  <2> HIDE DEF old, e
  <2>4. Len(old) = Len(leases[t])
    <3>1. Len(old) \in Nat /\ DOMAIN old = 1..Len(old)
      BY <2>2, LenProperties
    <3> QED
      BY <1>3, <2>3, <3>1
  <2>5. /\ DOMAIN Append(old, e) = 1..(Len(old) + 1) /\ Append(old, e)[Len(old) + 1] = e
        /\ \A k \in 1..Len(old) : Append(old, e)[k] = old[k]
    BY <2>2, AppendProperties
  <2> QED
    BY <1>3, <2>1, <2>3, <2>4, <2>5
<1> HIDE DEF n
<1>9. /\ n \in Nat /\ n \notin 1..Len(leases[t]) /\ 1..n = 1..Len(leases[t]) \cup {n}
  BY <1>3 DEF n
<1>10. \A x : \A k : Granted(t, x, k)' <=> Granted(t, x, k) \/ (k = n /\ x = a)
  BY <1>3, <1>8, <1>9 DEF Granted
<1>11. ~Granted(t, a, n)
  BY <1>3, <1>9 DEF Granted
<1>12. \A x \in Agents, u \in Tasks : x \in AcceptedAgents(u)' <=> x \in AcceptedAgents(u)
  BY <1>2 DEF AcceptedAgents, Accepted
<1>13. ASSUME NEW x \in Agents, NEW u \in Tasks, u # t PROVE Untouched(x, u)
  <2>1. task'[u] = Swept(now)[u] /\ leases'[u] = SweptLeases(now)[u] /\ evidence'[u] = evidence[u]
    BY <1>1, <1>2, <1>4, <1>13
  <2> QED
    BY <2>1, SweptUntouched
<1>14. ASSUME NEW x \in Agents, x # a PROVE Untouched(x, t)
  <2>1. \A k \in Nat : Granted(t, x, k)' <=> Granted(t, x, k)
    BY <1>10, <1>14
  <2>2. \A k \in Nat : Granted(t, x, k) => task'[t].lease # k
    BY <1>3, <1>6, <1>9 DEF Granted
  <2>3. ASSUME task[t].claimedBy = x PROVE Ended(x, t)
    <3>1. task[t].status = "CLAIMED" /\ Granted(t, x, task[t].lease) /\ task[t].lease \in Nat
      BY <1>3, <2>3, HolderIsGranted DEF TaskRow
    <3>2. task'[t].lease # task[t].lease
      BY <2>2, <3>1
    <3>3. Swept(now)[t].status = "PENDING"
      BY <1>1 DEF Claimable
    <3>4. task[t].leaseExpires <= clock
      BY <3>1, <3>3, SweptRow
    <3> QED
      BY <1>6, <1>14, <3>2, <3>4 DEF Ended
  <2> QED
    BY <1>6, <1>12, <1>14, <2>1, <2>2, <2>3 DEF Untouched
<1>15. \A x \in Agents, u \in Tasks : x # a \/ u # t => Untouched(x, u)
  BY <1>13, <1>14
<1>16. \E m \in CapturedNow, e \in LeaseTimes : task'[t].leaseExpires = m + e
  BY <1>6
<1>17. \A k : Granted(t, a, k)' <=> Granted(t, a, k) \/ k = n
  BY <1>10
<1> QED
  BY <1>2, <1>6, <1>7, <1>11, <1>12, <1>15, <1>16, <1>17 DEF n

\* The steps that are no agent's take a task from an agent only when it is time.
LEMMA QuietEffect ==
  ASSUME LedgerInv, Tick \/ Maintain \/ (\E t \in Tasks : Create(t)) \/ UNCHANGED vars
  PROVE  /\ clock' = clock \/ (Tick /\ clock' = clock + 1)
         /\ \A x \in Agents, u \in Tasks : Untouched(x, u)
<1> SUFFICES ASSUME NEW x \in Agents, NEW u \in Tasks
             PROVE  /\ clock' = clock \/ (Tick /\ clock' = clock + 1)
                    /\ Untouched(x, u)
  <2>1. CASE Tasks = {}
    BY <2>1 DEF Tick, Maintain, vars
  <2>2. CASE Agents = {}
    BY <2>2 DEF Tick, Maintain, Create, vars
  <2> QED
    BY <2>1, <2>2
<1>1. CASE Tick
  BY <1>1, SameUntouched DEF Tick
<1>2. CASE Maintain
  <2>1. PICK now \in CapturedNow : task' = Swept(now) /\ leases' = SweptLeases(now)
    BY <1>2 DEF Maintain
  <2>2. evidence' = evidence /\ clock' = clock
    BY <1>2 DEF Maintain
  <2> QED
    BY <2>1, <2>2, SweptUntouched
<1>3. ASSUME NEW t \in Tasks, Create(t) PROVE clock' = clock /\ Untouched(x, u)
  <2>1. task \in [Tasks -> TaskRow] /\ Ledger(u, task[u], leases[u]) /\ x # None
    BY OneRow, NoneAssumption DEF LedgerInv, TypeOK
  <2>2. leases' = leases /\ evidence' = evidence /\ clock' = clock
    BY <1>3 DEF Create
  <2>3. CASE u # t
    <3>1. task'[u] = task[u]
      BY <1>3, <2>1, <2>3 DEF Create
    <3> QED
      BY <2>2, <3>1, SameUntouched
  <2>4. CASE u = t
    <3>1. task[u].status = "ABSENT" /\ task[u].claimedBy = None
      BY <1>3, <2>1, <2>4 DEF Create, Ledger
    <3>2. task'[u].claimedBy = None /\ task'[u].lease = NoLease
      BY <1>3, <2>1, <2>4 DEF Create, AbsentTask
    <3>3. \A l \in Nat : Granted(u, x, l) => l # NoLease
      BY OneRow DEF Granted, NoLease
    <3>4. /\ \A l \in Nat : Granted(u, x, l)' <=> Granted(u, x, l)
          /\ x \in AcceptedAgents(u)' <=> x \in AcceptedAgents(u)
      BY <2>2 DEF Granted, AcceptedAgents, Accepted
    <3> QED
      BY <2>1, <2>2, <3>1, <3>2, <3>3, <3>4 DEF Untouched
  <2> QED
    BY <2>3, <2>4
<1>4. CASE UNCHANGED vars
  BY <1>4, SameUntouched DEF vars
<1> QED
  BY <1>1, <1>2, <1>3, <1>4

-----------------------------------------------------------------------------
(* What is true of each agent.  The sets are counted, so they must be finite. *)

DoneBy(x) == {t \in Tasks : x \in AcceptedAgents(t)}
ClaimsOf(x) == {c \in Tasks \X (1..20) : Granted(c[1], x, c[2])}
LeftBehind(x) == {t \in Tasks : task[t].claimedBy = x /\ ~WorkedOn(t, x)}

\* A worker works under a lease it was granted, and no turn of its heartbeat is late.
JobInv(x) ==
  /\ Working(x) => /\ job[x].task \in Tasks
                   /\ job[x].lease \in Nat /\ Granted(job[x].task, x, job[x].lease)
                   /\ beatAt[x] <= clock /\ clock <= beatAt[x] + Interval
  /\ wpc[x] = "submit" => job[x].body \in Bodies

\* The run at work is counted as a claim and not as processed yet.
Running(x) == IF Working(x) THEN 1 ELSE 0

CountInv(x) ==
  /\ IsFiniteSet(DoneBy(x)) /\ IsFiniteSet(ClaimsOf(x))
  /\ shown[x].accepted <= Cardinality(DoneBy(x))
  /\ Cardinality(DoneBy(x)) <= shown[x].accepted + lost[x]
  /\ shown[x].processed + Running(x) <= Cardinality(ClaimsOf(x))

\* The lease lasts beyond the next turn of the heartbeat, and the last one was shown.
Kept(x) ==
  /\ task[job[x].task].lease = job[x].lease
  /\ task[job[x].task].leaseExpires > beatAt[x] + Interval
  /\ shown[x].seen + MaxDelay >= beatAt[x]

Dropped(x) == task[job[x].task].lease # job[x].lease /\ DeadlineMissed(job[x].task)

LeaseInv(x) == AtWork(x) => Kept(x) \/ Dropped(x)

\* A lease that ends before the next turn of the heartbeat may be left behind when it is
\* refused: the fault that brought it there is set aside for it.
Lapsing(x) ==
  /\ Working(x)
  /\ task[job[x].task].lease = job[x].lease
  /\ task[job[x].task].leaseExpires <= beatAt[x] + Interval

Reserved(x) == IF Lapsing(x) THEN 1 ELSE 0

LeftInv(x) ==
  /\ IsFiniteSet(LeftBehind(x))
  /\ Cardinality(LeftBehind(x)) + Reserved(x) <= lost[x]

AgentInv(x) == JobInv(x) /\ CountInv(x) /\ LeaseInv(x) /\ LeftInv(x)

WorkerInv == WorkerTypeOK /\ \A x \in Agents : AgentInv(x)

\* A set that gains one element at most.
LEMMA GainsOne ==
  ASSUME NEW S, IsFiniteSet(S), NEW T, NEW e, T \subseteq S \cup {e}
  PROVE  /\ IsFiniteSet(T) /\ Cardinality(S) \in Nat /\ Cardinality(T) \in Nat
         /\ Cardinality(T) <= Cardinality(S) + 1
         /\ T \subseteq S => Cardinality(T) <= Cardinality(S)
         /\ e \notin S /\ T = S \cup {e} => Cardinality(T) = Cardinality(S) + 1
<1>1. /\ IsFiniteSet(S \cup {e}) /\ Cardinality(S) \in Nat
      /\ Cardinality(S \cup {e}) = IF e \in S THEN Cardinality(S) ELSE Cardinality(S) + 1
  BY FS_AddElement, FS_CardinalityType
<1>2. IsFiniteSet(T) /\ Cardinality(T) \in Nat /\ Cardinality(T) <= Cardinality(S \cup {e})
  BY <1>1, FS_Subset, FS_CardinalityType
<1>3. T \subseteq S => Cardinality(T) <= Cardinality(S)
  BY FS_Subset
<1>4. Cardinality(T) <= Cardinality(S) + 1
  BY <1>1, <1>2
<1>5. e \notin S /\ T = S \cup {e} => Cardinality(T) = Cardinality(S) + 1
  BY <1>1
<1> QED
  BY <1>1, <1>2, <1>3, <1>4, <1>5

\* The values one worker's variables have.
LEMMA OneWorker ==
  ASSUME WorkerTypeOK, NEW x \in Agents
  PROVE  /\ wpc[x] \in WorkerSteps /\ job[x] \in JobRecord /\ beatAt[x] \in Nat /\ lost[x] \in Nat
         /\ shown[x] \in ShownRow /\ shown[x].seen \in Nat /\ shown[x].processed \in Nat
         /\ shown[x].accepted \in Nat /\ misses[x] \in Nat /\ pausedUntil[x] \in Nat
<1>1. MaxClock \in Nat /\ MaxLost \in Nat /\ PauseAfter \in Nat
  BY BoundAssumption, WorkersAssumption
<1> QED
  BY <1>1 DEF WorkerTypeOK, ShownRow

\* The interval is a time, and shorter than any lease and than a worker may go unseen.
LEMMA IntervalShort ==
  /\ Interval \in Nat /\ MaxDelay \in Nat /\ LeaseTimes \subseteq Nat
  /\ \A s \in LeaseTimes : s > Interval + MaxDelay
  /\ OnlineTime \in Nat /\ OnlineTime >= Interval + MaxDelay
<1>1. HeartbeatTime \in Nat /\ HeartbeatMax \in Nat /\ OnlineTime \in Nat /\ MaxDelay \in Nat /\ LeaseTimes \subseteq Nat
  BY WorkersAssumption, BoundAssumption
<1>2. Interval \in Nat /\ Interval <= HeartbeatMax
  BY <1>1 DEF Interval
<1>3. ASSUME NEW s \in LeaseTimes PROVE s > Interval + MaxDelay
  <2>1. s \in Nat /\ s > HeartbeatMax + MaxDelay
    BY <1>1, TimesAssumption
  <2> QED
    BY <1>1, <1>2, <2>1
<1>4. OnlineTime >= Interval + MaxDelay
  BY <1>1, <1>2, TimesAssumption
<1> QED
  BY <1>1, <1>2, <1>3, <1>4

\* What agent x knows is as it was.
Same(x) ==
  /\ wpc'[x] = wpc[x] /\ job'[x] = job[x] /\ beatAt'[x] = beatAt[x]
  /\ shown'[x] = shown[x] /\ lost'[x] = lost[x]

\* The sets of x after a step that touches nothing of x.
LEMMA UntouchedSets ==
  ASSUME NEW x \in Agents, \A u \in Tasks : Untouched(x, u)
  PROVE  DoneBy(x)' = DoneBy(x) /\ ClaimsOf(x)' = ClaimsOf(x)
<1>1. DoneBy(x)' = DoneBy(x)
  BY DEF DoneBy, Untouched
<1>2. \A c \in Tasks \X (1..20) : Granted(c[1], x, c[2])' <=> Granted(c[1], x, c[2])
  BY DEF Untouched
<1> QED
  BY <1>1, <1>2 DEF ClaimsOf

\* Steps that do not concern agent x keep what is true of it.
LEMMA Bystander ==
  ASSUME LedgerInv, WorkerTypeOK, NEW x \in Agents, AgentInv(x), Same(x), \A u \in Tasks : Untouched(x, u),
         \/ clock' = clock
         \/ clock' = clock + 1 /\ (Working(x) => clock < beatAt[x] + Interval)
  PROVE  AgentInv(x)'
<1>1. PICK w, j, b, n, sh : /\ w = wpc[x] /\ j = job[x] /\ b = beatAt[x] /\ n = lost[x] /\ sh = shown[x]
                            /\ w = wpc'[x] /\ j = job'[x] /\ b = beatAt'[x] /\ n = lost'[x] /\ sh = shown'[x]
  BY DEF Same
<1>2. /\ b \in Nat /\ n \in Nat /\ sh.seen \in Nat /\ sh.processed \in Nat /\ sh.accepted \in Nat
      /\ Interval \in Nat /\ MaxDelay \in Nat /\ clock \in Nat /\ j.lease \in Nat
  <2>1. clock \in Nat
    BY BoundAssumption DEF LedgerInv, TypeOK
  <2>2. j \in JobRecord
    BY <1>1, OneWorker
  <2>3. j.lease \in Nat
    BY <2>2 DEF JobRecord
  <2>4. b \in Nat /\ n \in Nat /\ sh.seen \in Nat /\ sh.processed \in Nat /\ sh.accepted \in Nat
    BY <1>1, OneWorker
  <2> QED
    BY <2>1, <2>3, <2>4, IntervalShort
<1>3. \A u \in Tasks : Granted(u, x, j.lease)' <=> Granted(u, x, j.lease)
  BY <1>2 DEF Untouched
<1>4. JobInv(x)'
  <2>1. Working(x) => clock' <= b + Interval /\ clock' >= clock
    BY <1>1, <1>2 DEF AgentInv, JobInv
  <2>2. Working(x) => /\ j.task \in Tasks /\ Granted(j.task, x, j.lease) /\ b <= clock
    BY <1>1 DEF AgentInv, JobInv
  <2>3. Working(x) => b <= clock'
    BY <1>2, <2>1, <2>2
  <2>4. wpc[x] = "submit" => j.body \in Bodies
    BY <1>1 DEF AgentInv, JobInv
  <2>5. Working(x) => Granted(j.task, x, j.lease)'
    BY <1>3, <2>2
  <2> QED
    BY <1>1, <1>2, <2>1, <2>2, <2>3, <2>4, <2>5 DEF JobInv, Working, Granted
<1>5. CountInv(x)'
  <2>1. DoneBy(x)' = DoneBy(x) /\ ClaimsOf(x)' = ClaimsOf(x)
    BY UntouchedSets
  <2>2. Running(x)' = Running(x) /\ CountInv(x)
    BY <1>1 DEF AgentInv, Running, Working
  <2> QED
    BY <1>1, <2>1, <2>2 DEF CountInv
<1>6. \A u \in Tasks : task'[u].claimedBy = x => task'[u] = task[u]
  BY DEF Untouched
<1>7. LeaseInv(x)'
  <2> SUFFICES ASSUME AtWork(x)' PROVE Kept(x)' \/ Dropped(x)'
    BY DEF LeaseInv
  <2>1. AtWork(x) /\ Working(x)
    BY <1>1 DEF AtWork, Working
  <2>2. /\ Kept(x) \/ Dropped(x)
        /\ j.task \in Tasks /\ Granted(j.task, x, j.lease) /\ clock <= b + Interval
    BY <1>1, <2>1 DEF AgentInv, LeaseInv, JobInv
  <2>3. /\ task[j.task] \in TaskRow /\ Ledger(j.task, task[j.task], leases[j.task])
    BY <2>2, OneRow
  <2>4. task[j.task].status # "ABSENT"
    <3>1. Len(leases[j.task]) # 0
      BY <2>2, OneRow DEF Granted
    <3> QED
      BY <2>3, <3>1 DEF Ledger
  <2>5. task'[j.task].deadline = task[j.task].deadline /\ clock' >= clock
    BY <1>2, <2>2, <2>4 DEF Untouched
  <2>6. DeadlineMissed(j.task) => task'[j.task].deadline # None /\ task'[j.task].deadline <= clock'
    <3>1. task[j.task].deadline \in Nat \cup {None} /\ clock' \in Nat
      BY <1>2, <2>3 DEF TaskRow
    <3> QED
      BY <1>2, <2>5, <3>1 DEF DeadlineMissed
  <2>7. CASE Kept(x)
    <3>1. /\ task[j.task].lease = j.lease /\ task[j.task].leaseExpires > b + Interval
          /\ sh.seen + MaxDelay >= b
      BY <1>1, <2>7 DEF Kept
    <3>2. task[j.task].claimedBy = x
      BY <2>2, <3>1, HolderOfLease
    <3>3. CASE task'[j.task] = task[j.task]
      BY <1>1, <3>1, <3>3 DEF Kept
    <3>4. CASE Ended(x, j.task)
      <4>1. ~(task[j.task].leaseExpires <= clock)
        <5>1. task[j.task].leaseExpires \in Nat
          BY <2>3 DEF TaskRow
        <5> QED
          BY <1>2, <2>2, <3>1, <5>1
      <4>2. task'[j.task].lease # j.lease /\ DeadlineMissed(j.task)
        BY <3>1, <3>4, <4>1 DEF Ended
      <4> QED
        BY <1>1, <2>6, <4>2 DEF Dropped, DeadlineMissed
    <3> QED
      BY <2>2, <3>2, <3>3, <3>4 DEF Untouched
  <2>8. CASE Dropped(x)
    <3>1. task[j.task].lease # j.lease /\ DeadlineMissed(j.task)
      BY <1>1, <2>8 DEF Dropped
    <3>2. task'[j.task].lease # j.lease
      BY <1>2, <2>2, <3>1 DEF Untouched
    <3> QED
      BY <1>1, <2>6, <3>1, <3>2 DEF Dropped, DeadlineMissed
  <2> QED
    BY <2>2, <2>7, <2>8
<1>8. LeftInv(x)'
  <2>1. LeftBehind(x)' \subseteq LeftBehind(x)
    <3>1. ASSUME NEW u \in Tasks, task'[u].claimedBy = x, ~WorkedOn(u, x)'
          PROVE  task[u].claimedBy = x /\ ~WorkedOn(u, x)
      BY <1>1, <1>6, <3>1 DEF WorkedOn, Working
    <3> QED
      BY <3>1 DEF LeftBehind
  <2>2. Lapsing(x)' => Lapsing(x)
    <3> SUFFICES ASSUME Lapsing(x)' PROVE Lapsing(x)
      OBVIOUS
    <3>1. /\ Working(x) /\ task'[j.task].lease = j.lease /\ task'[j.task].leaseExpires <= b + Interval
      BY <1>1 DEF Lapsing, Working
    <3>2. j.task \in Tasks /\ Granted(j.task, x, j.lease)
      BY <1>1, <3>1 DEF AgentInv, JobInv
    <3>3. task[j.task].lease = j.lease
      BY <1>2, <3>1, <3>2 DEF Untouched
    <3>4. task[j.task].claimedBy = x
      BY <3>2, <3>3, HolderOfLease
    <3>5. task'[j.task] = task[j.task]
      BY <3>1, <3>2, <3>3, <3>4 DEF Untouched, Ended
    <3> QED
      BY <1>1, <3>1, <3>5 DEF Lapsing
  <2>3. IsFiniteSet(LeftBehind(x)) /\ Cardinality(LeftBehind(x)) + Reserved(x) <= n
    BY <1>1 DEF AgentInv, LeftInv
  <2>4. /\ IsFiniteSet(LeftBehind(x)') /\ Cardinality(LeftBehind(x)') <= Cardinality(LeftBehind(x))
        /\ Cardinality(LeftBehind(x)') \in Nat /\ Cardinality(LeftBehind(x)) \in Nat
    BY <2>1, <2>3, GainsOne
  <2>5. Reserved(x)' <= Reserved(x) /\ Reserved(x) \in 0..1 /\ Reserved(x)' \in 0..1
    BY <2>2 DEF Reserved
  <2>6. Cardinality(LeftBehind(x)') + Reserved(x)' <= n
    BY <1>2, <2>3, <2>4, <2>5
  <2> QED
    BY <1>1, <2>4, <2>6 DEF LeftInv
<1> QED
  BY <1>4, <1>5, <1>7, <1>8 DEF AgentInv

-----------------------------------------------------------------------------
(* A step of a worker: what it asks of the queue, and what it leaves to the *)
(* other workers.                                                          *)

\* Lost or not, the answers change nothing of another agent.
LEMMA LossIsOwn ==
  ASSUME WorkerTypeOK, NEW a \in Agents, NEW x \in Agents, x # a
  PROVE  /\ Loses(a) => lost'[x] = lost[x]
         /\ NothingLost => lost'[x] = lost[x]
         /\ \A step : Turns(a, step) => wpc'[x] = wpc[x]
BY DEF WorkerTypeOK, Loses, NothingLost, Turns

LEMMA ReportIsOwn ==
  ASSUME WorkerTypeOK, NEW a \in Agents, NEW x \in Agents, x # a, NEW accepted \in BOOLEAN
  PROVE  /\ \A answered \in BOOLEAN : Reports(a, accepted, answered) =>
              wpc'[x] = wpc[x] /\ job'[x] = job[x] /\ beatAt'[x] = beatAt[x] /\ shown'[x] = shown[x]
         /\ Tells(a, accepted) => Same(x)
<1>1. ASSUME NEW answered \in BOOLEAN, Reports(a, accepted, answered)
      PROVE  wpc'[x] = wpc[x] /\ job'[x] = job[x] /\ beatAt'[x] = beatAt[x] /\ shown'[x] = shown[x]
  BY <1>1 DEF Reports, Turns, WorkerTypeOK
<1>2. ASSUME Tells(a, accepted) PROVE Same(x)
  BY <1>1, <1>2, LossIsOwn DEF Tells, Same
<1> QED
  BY <1>1, <1>2

LEMMA OthersSame ==
  ASSUME WorkerTypeOK, NEW a \in Agents, NEW x \in Agents, x # a, WorkerStep(a)
  PROVE  Same(x)
<1>1. ASSUME NEW t \in Tasks, AskClaim(a, t) PROVE Same(x)
  BY <1>1, LossIsOwn DEF AskClaim, Same, WorkerTypeOK
<1>2. ASSUME Research(a) PROVE Same(x)
  BY <1>2, LossIsOwn DEF Research, Same, WorkerTypeOK
<1>3. ASSUME SubmitJob(a) PROVE Same(x)
  <2>1. ASSUME SubmitAnswered(a) PROVE Same(x)
    <3>1. CASE Check[job[a].body] = "clean"
      BY <2>1, <3>1, ReportIsOwn DEF SubmitAnswered
    <3>2. CASE /\ Turns(a, "research") /\ NothingLost /\ UNCHANGED <<beatAt, shown>>
               /\ job' = [job EXCEPT ![a].repairs = Len(evidence'[job[a].task]), ![a].tries = @ + 1]
      BY <3>2, LossIsOwn DEF Same, WorkerTypeOK
    <3>3. CASE Turns(a, "spent") /\ UNCHANGED <<job, beatAt, shown>> /\ NothingLost
      BY <3>3, LossIsOwn DEF Same
    <3>4. CASE Tells(a, FALSE)
      BY <3>4, ReportIsOwn
    <3> QED
      BY <2>1, <3>1, <3>2, <3>3, <3>4 DEF SubmitAnswered
  <2>2. ASSUME SubmitFailed(a) PROVE Same(x)
    BY <2>2, LossIsOwn DEF SubmitFailed, Same
  <2> QED
    BY <1>3, <2>1, <2>2 DEF SubmitJob
<1>4. ASSUME ReleaseFails(a) PROVE lost'[x] = lost[x]
  BY <1>4, LossIsOwn DEF ReleaseFails
<1>5. ASSUME GiveBackSpent(a) PROVE Same(x)
  <2>1. CASE Tells(a, FALSE)
    BY <2>1, ReportIsOwn
  <2>2. CASE ReleaseFails(a) /\ Turns(a, "give back") /\ UNCHANGED <<job, beatAt, shown>>
    BY <1>4, <2>2, LossIsOwn DEF Same
  <2> QED
    BY <1>5, <2>1, <2>2 DEF GiveBackSpent
<1>6. ASSUME GiveBack(a) PROVE Same(x)
  <2>1. CASE Tells(a, FALSE)
    BY <2>1, ReportIsOwn
  <2>2. CASE ReleaseFails(a) /\ Reports(a, FALSE, TRUE)
    BY <1>4, <2>2, ReportIsOwn DEF Same
  <2> QED
    BY <1>6, <2>1, <2>2 DEF GiveBack
<1>7. ASSUME Beat(a) PROVE Same(x)
  <2>1. lost'[x] = lost[x]
    BY <1>7, LossIsOwn DEF Beat
  <2>2. shown'[x] = shown[x]
    BY <1>7 DEF Beat, WorkerTypeOK
  <2> QED
    BY <1>7, <2>1, <2>2 DEF Beat, Same, WorkerTypeOK
<1>8. ASSUME Killed(a) PROVE Same(x)
  BY <1>8, LossIsOwn DEF Killed, Same, WorkerTypeOK
<1> QED
  BY <1>1, <1>2, <1>3, <1>5, <1>6, <1>7, <1>8 DEF WorkerStep

\* A worker asks nothing of the queue but under the lease it was granted.
LEMMA AsksOfQueue ==
  ASSUME WorkerTypeOK, NEW a \in Agents, JobInv(a), WorkerStep(a)
  PROVE  \/ UNCHANGED vars
         \/ \E t \in Tasks : Claim(t, a)
         \/ /\ Working(a)
            /\ \/ \E b \in Bodies, r \in Nat : Submit(job[a].task, a, job[a].lease, b, r)
               \/ Release(job[a].task, a, job[a].lease)
               \/ Heartbeat(job[a].task, a, job[a].lease)
<1>1. job[a].repairs \in Nat
  BY OneWorker DEF JobRecord
<1>2. \A step \in {"submit", "spent", "give back"} : wpc[a] = step => Working(a)
  BY DEF Working
<1>3. CASE SubmitJob(a)
  BY <1>1, <1>2, <1>3 DEF SubmitJob, SubmitAnswered, SubmitFailed, JobInv
<1>4. CASE GiveBackSpent(a) \/ GiveBack(a)
  BY <1>2, <1>4 DEF GiveBackSpent, GiveBack, ReleaseFails
<1>5. CASE Beat(a)
  <2>1. Working(a) /\ Granted(job[a].task, a, job[a].lease)
    BY <1>5 DEF Beat, JobInv
  <2> QED
    BY <1>5, <2>1 DEF Beat, Heartbeat
<1>6. CASE \E t \in Tasks : AskClaim(a, t)
  BY <1>6 DEF AskClaim
<1>7. CASE Research(a) \/ Killed(a)
  BY <1>7 DEF Research, Killed
<1> QED
  BY <1>3, <1>4, <1>5, <1>6, <1>7 DEF WorkerStep

\* Every step of the workers is one of the queue, or no step of it.
LEMMA WorkersStepTheQueue ==
  ASSUME LedgerInv, WorkerInv, [WorkerNext]_allVars
  PROVE  [Next]_vars
<1>1. ASSUME NEW a \in Agents, WorkerStep(a) PROVE [Next]_vars
  <2>1. JobInv(a) /\ WorkerTypeOK
    BY DEF WorkerInv, AgentInv
  <2>2. \A t \in Tasks : Claim(t, a) => AgentStep(t, a)
    BY DEF AgentStep
  <2>3. Working(a) => job[a].task \in Tasks /\ job[a].lease \in DOMAIN leases[job[a].task]
    BY <2>1 DEF JobInv, Granted
  <2>4. Working(a) /\ Release(job[a].task, a, job[a].lease) => AgentStep(job[a].task, a)
    BY <2>3 DEF AgentStep
  <2>5. Working(a) /\ Heartbeat(job[a].task, a, job[a].lease) => AgentStep(job[a].task, a)
    BY <2>3 DEF AgentStep
  <2>6. ASSUME Working(a), NEW b \in Bodies, NEW r \in Nat, Submit(job[a].task, a, job[a].lease, b, r)
        PROVE  AgentStep(job[a].task, a)
    <3> DEFINE t == job[a].task
    <3>1. t \in Tasks /\ job[a].lease \in DOMAIN leases[t]
      BY <2>3, <2>6
    <3>2. r = 0 \/ r \in DOMAIN evidence[t]
      BY <2>6 DEF Submit, Repairs, QuarantinedUnder
    <3>3. evidence[t] \in Seq(EvidenceRow)
      BY <3>1 DEF LedgerInv, TypeOK
    <3>4. Len(evidence[t]) \in Nat /\ DOMAIN evidence[t] = 1..Len(evidence[t])
      BY <3>3, LenProperties
    <3>5. r \in 0..Len(evidence[t])
      BY <3>2, <3>4
    <3> QED
      BY <2>6, <3>1, <3>5 DEF AgentStep
  <2>7. UNCHANGED vars \/ \E t \in Tasks : AgentStep(t, a)
    BY <1>1, <2>1, <2>2, <2>3, <2>4, <2>5, <2>6, AsksOfQueue
  <2> QED
    BY <2>7 DEF Next
<1>2. CASE WorkerTick \/ (Maintain /\ UNCHANGED workerVars) \/ \E t \in Tasks : Create(t) /\ UNCHANGED workerVars
  BY <1>2 DEF WorkerTick, Next
<1>3. CASE UNCHANGED allVars
  BY <1>3 DEF allVars
<1> QED
  BY <1>1, <1>2, <1>3 DEF WorkerNext

\* What a step of worker a leaves to another agent.
LEMMA OthersKeep ==
  ASSUME LedgerInv, QuorumInv, WorkerTypeOK, NEW a \in Agents, NEW x \in Agents, x # a,
         JobInv(a), AgentInv(x), WorkerStep(a)
  PROVE  AgentInv(x)' /\ clock' = clock
<1>1. clock' = clock /\ \A u \in Tasks : Untouched(x, u)
  <2>1. CASE UNCHANGED vars
    BY <2>1, SameUntouched DEF vars
  <2>2. ASSUME NEW t \in Tasks, Claim(t, a) PROVE clock' = clock /\ \A u \in Tasks : Untouched(x, u)
    BY <2>2, ClaimEffect
  <2>3. CASE Working(a)
    <3>1. PICK t \in Tasks, l \in Nat : t = job[a].task /\ l = job[a].lease
      BY <2>3 DEF JobInv
    <3>2. ASSUME NEW b \in Bodies, NEW r \in Nat, Submit(t, a, l, b, r)
          PROVE  clock' = clock /\ \A u \in Tasks : Untouched(x, u)
      <4>1. clock' = clock /\ \A y \in Agents, u \in Tasks : y # a \/ u # t => Untouched(y, u)
        BY <3>2, SubmitEffect
      <4> QED
        BY <4>1
    <3>3. CASE Release(t, a, l)
      BY <3>3, ReleaseEffect
    <3>4. CASE Heartbeat(t, a, l)
      <4>1. PICK now \in CapturedNow, s \in LeaseTimes :
              /\ ActiveLease(t, a, l, now)
              /\ task' = [task EXCEPT ![t].leaseExpires = now + s]
        BY <3>4 DEF Heartbeat
      <4>2. now \in Nat /\ clock' = clock /\ leases' = leases /\ evidence' = evidence
        BY <3>4, CapturedIsNat DEF Heartbeat, LedgerInv
      <4>3. \A y \in Agents, u \in Tasks : y # a \/ u # t => Untouched(y, u)
        BY <4>1, <4>2, RenewalEffect
      <4> QED
        BY <4>2, <4>3
    <3> QED
      BY <2>1, <2>2, <2>3, <3>1, <3>2, <3>3, <3>4, AsksOfQueue
  <2> QED
    BY <2>1, <2>2, <2>3, AsksOfQueue
<1>2. Same(x)
  BY OthersSame
<1> QED
  BY <1>1, <1>2, Bystander

-----------------------------------------------------------------------------
(* The values stay in their types.                                         *)

\* The values one worker's variables have after the step.
LEMMA OneWorkerNext ==
  ASSUME WorkerTypeOK', NEW x \in Agents
  PROVE  /\ wpc'[x] \in WorkerSteps /\ job'[x] \in JobRecord /\ beatAt'[x] \in Nat /\ lost'[x] \in Nat
         /\ shown'[x] \in ShownRow /\ shown'[x].seen \in Nat /\ shown'[x].processed \in Nat
         /\ shown'[x].accepted \in Nat
<1>1. MaxClock \in Nat /\ MaxLost \in Nat /\ PauseAfter \in Nat
  BY BoundAssumption, WorkersAssumption
<1> QED
  BY <1>1 DEF WorkerTypeOK, ShownRow

\* An empty job is one.
LEMMA NoJobTyped ==
  /\ NoJob \in JobRecord
  /\ \A t \in Tasks, l \in Nat : [NoJob EXCEPT !.task = t, !.lease = l] \in JobRecord
BY DEF NoJob, JobRecord, NoLease

LEMMA StepTypes ==
  ASSUME WorkerTypeOK, NEW a \in Agents
  PROVE  /\ \A step \in WorkerSteps : Turns(a, step) => wpc' \in [Agents -> WorkerSteps]
         /\ Loses(a) \/ NothingLost => lost' \in [Agents -> 0..MaxLost]
<1>1. lost[a] \in 0..MaxLost /\ MaxLost \in Nat
  BY WorkersAssumption DEF WorkerTypeOK
<1>2. lost[a] < MaxLost => lost[a] + 1 \in 0..MaxLost
  BY <1>1
<1> QED
  BY <1>2 DEF WorkerTypeOK, Turns, Loses, NothingLost

LEMMA ReportTypes ==
  ASSUME WorkerTypeOK, LedgerInv, NEW a \in Agents, NEW accepted \in BOOLEAN,
         NEW answered \in BOOLEAN, Reports(a, accepted, answered)
  PROVE  /\ wpc' \in [Agents -> WorkerSteps] /\ job' \in [Agents -> JobRecord]
         /\ beatAt' \in [Agents -> 0..MaxClock] /\ shown' \in [Agents -> ShownRow]
<1>1. "idle" \in WorkerSteps /\ 0 \in 0..MaxClock /\ clock \in Nat
  BY BoundAssumption DEF WorkerSteps, LedgerInv, TypeOK
<1>2. wpc' \in [Agents -> WorkerSteps]
  BY <1>1, StepTypes DEF Reports
<1>3. job' \in [Agents -> JobRecord] /\ beatAt' \in [Agents -> 0..MaxClock]
  BY <1>1, NoJobTyped DEF Reports, WorkerTypeOK
<1>4. shown' \in [Agents -> ShownRow]
  <2>1. shown \in [Agents -> ShownRow] /\ shown[a].processed \in Nat /\ shown[a].accepted \in Nat
    BY OneWorker DEF WorkerTypeOK
  <2>2. AcceptedDelta(accepted) \in Nat
    BY DEF AcceptedDelta
  <2>3. [seen |-> clock, processed |-> shown[a].processed + 1,
         accepted |-> shown[a].accepted + AcceptedDelta(accepted)] \in ShownRow
    BY <1>1, <2>1, <2>2 DEF ShownRow
  <2> QED
    BY <2>1, <2>3 DEF Reports
<1> QED
  BY <1>2, <1>3, <1>4

LEMMA TellTypes ==
  ASSUME WorkerTypeOK, LedgerInv, NEW a \in Agents, NEW accepted \in BOOLEAN, Tells(a, accepted)
  PROVE  /\ wpc' \in [Agents -> WorkerSteps] /\ job' \in [Agents -> JobRecord]
         /\ beatAt' \in [Agents -> 0..MaxClock] /\ shown' \in [Agents -> ShownRow]
         /\ lost' \in [Agents -> 0..MaxLost]
BY ReportTypes, StepTypes DEF Tells

LEMMA WorkerTypeNext ==
  ASSUME LedgerInv, LedgerInv', WorkerTypeOK, NEW a \in Agents, JobInv(a), WorkerStep(a)
  PROVE  WorkerTypeOK'
<1> USE DEF WorkerTypeOK
<1>1. /\ clock \in 0..MaxClock /\ job[a] \in JobRecord /\ shown[a] \in ShownRow /\ clock \in Nat
      /\ 0 \in 0..MaxClock
  BY OneWorker, BoundAssumption DEF LedgerInv, TypeOK
<1>2. {"idle", "research", "submit", "spent", "give back"} \subseteq WorkerSteps
  BY DEF WorkerSteps
<1>3. ASSUME NEW t \in Tasks, AskClaim(a, t) PROVE WorkerTypeOK'
  <2>1. task'[t].lease \in Nat
    <3>1. Claim(t, a)
      BY <1>3 DEF AskClaim
    <3>2. task'[t].lease \in 1..20
      BY <3>1, ClaimEffect
    <3> QED
      BY <3>2
  <2>2. wpc' \in [Agents -> WorkerSteps] /\ lost' \in [Agents -> 0..MaxLost]
    BY <1>2, <1>3, StepTypes DEF AskClaim
  <2>3. job' \in [Agents -> JobRecord] /\ beatAt' \in [Agents -> 0..MaxClock]
    BY <1>1, <1>3, <2>1, NoJobTyped DEF AskClaim
  <2>4. shown' \in [Agents -> ShownRow]
    <3>1. [shown[a] EXCEPT !.seen = clock] \in ShownRow
      BY <1>1 DEF ShownRow
    <3>2. shown' = shown \/ shown' = [shown EXCEPT ![a] = [shown[a] EXCEPT !.seen = clock]]
      BY <1>3 DEF AskClaim
    <3> QED
      BY <3>1, <3>2
  <2> QED
    BY <1>3, <2>2, <2>3, <2>4 DEF AskClaim
<1>4. ASSUME Research(a) PROVE WorkerTypeOK'
  <2>1. \A b \in Bodies : [job[a] EXCEPT !.body = b] \in JobRecord
    BY <1>1 DEF JobRecord
  <2>2. [job[a] EXCEPT !.incomplete = TRUE] \in JobRecord
    BY <1>1 DEF JobRecord
  <2>3. wpc' \in [Agents -> WorkerSteps]
    BY <1>2, <1>4, StepTypes DEF Research
  <2>4. \/ job' = job
        \/ \E b \in Bodies : job' = [job EXCEPT ![a] = [job[a] EXCEPT !.body = b]]
        \/ job' = [job EXCEPT ![a] = [job[a] EXCEPT !.incomplete = TRUE]]
    BY <1>4 DEF Research
  <2>5. job' \in [Agents -> JobRecord]
    BY <2>1, <2>2, <2>4
  <2> QED
    BY <1>4, <2>3, <2>5 DEF Research
<1>5. ASSUME SubmitJob(a) PROVE WorkerTypeOK'
  <2>1. /\ wpc' \in [Agents -> WorkerSteps] /\ lost' \in [Agents -> 0..MaxLost]
        /\ job' \in [Agents -> JobRecord] /\ beatAt' \in [Agents -> 0..MaxClock] /\ shown' \in [Agents -> ShownRow]
    <3>1. CASE SubmitFailed(a)
      <4>1. lost' \in [Agents -> 0..MaxLost] /\ wpc' \in [Agents -> WorkerSteps]
        BY <1>2, <3>1, StepTypes DEF SubmitFailed
      <4> QED
        BY <3>1, <4>1 DEF SubmitFailed
    <3>2. CASE Tells(a, TRUE) \/ Tells(a, FALSE)
      BY <3>2, TellTypes
    <3>3. CASE /\ Turns(a, "research") /\ NothingLost /\ UNCHANGED <<beatAt, shown>>
               /\ job' = [job EXCEPT ![a].repairs = Len(evidence'[job[a].task]), ![a].tries = @ + 1]
      <4>1. Len(evidence'[job[a].task]) \in Nat
        <5>1. job[a].task \in Tasks
          BY <1>5 DEF SubmitJob, JobInv, Working
        <5>2. evidence'[job[a].task] \in Seq(EvidenceRow)
          BY <5>1 DEF LedgerInv, TypeOK
        <5> QED
          BY <5>2, LenProperties
      <4>2. [job[a] EXCEPT !.repairs = Len(evidence'[job[a].task]), !.tries = @ + 1] \in JobRecord
        <5>1. \A j \in JobRecord, n, m \in Nat : [j EXCEPT !.repairs = n, !.tries = m] \in JobRecord
          BY DEF JobRecord
        <5>2. job[a].tries \in Nat
          BY <1>1 DEF JobRecord
        <5>3. job[a].tries + 1 \in Nat
          BY <5>2
        <5> QED
          BY <1>1, <4>1, <5>1, <5>3
      <4>3. job' \in [Agents -> JobRecord]
        BY <3>3, <4>2
      <4> QED
        BY <1>2, <3>3, <4>3, StepTypes
    <3>4. CASE Turns(a, "spent") /\ UNCHANGED <<job, beatAt, shown>> /\ NothingLost
      BY <1>2, <3>4, StepTypes
    <3> QED
      BY <1>5, <3>1, <3>2, <3>3, <3>4 DEF SubmitJob, SubmitAnswered
  <2>2. misses' \in [Agents -> 0..(PauseAfter - 1)]
    <3>1. 0 \in 0..(PauseAfter - 1)
      BY WorkersAssumption
    <3> QED
      BY <1>5, <3>1 DEF SubmitJob, SubmitAnswered, SubmitFailed
  <2> QED
    BY <1>5, <2>1, <2>2 DEF SubmitJob
<1>6. ASSUME ReleaseFails(a) PROVE lost' \in [Agents -> 0..MaxLost]
  BY <1>6, StepTypes DEF ReleaseFails
<1>7. ASSUME GiveBackSpent(a) PROVE WorkerTypeOK'
  <2>1. CASE Tells(a, FALSE)
    BY <1>7, <2>1, TellTypes DEF GiveBackSpent
  <2>2. CASE ReleaseFails(a) /\ Turns(a, "give back") /\ UNCHANGED <<job, beatAt, shown>>
    BY <1>2, <1>6, <1>7, <2>2, StepTypes DEF GiveBackSpent
  <2> QED
    BY <1>7, <2>1, <2>2 DEF GiveBackSpent
<1>8. ASSUME GiveBack(a) PROVE WorkerTypeOK'
  <2>1. /\ wpc' \in [Agents -> WorkerSteps] /\ lost' \in [Agents -> 0..MaxLost]
        /\ job' \in [Agents -> JobRecord] /\ beatAt' \in [Agents -> 0..MaxClock] /\ shown' \in [Agents -> ShownRow]
    <3>1. CASE Tells(a, FALSE)
      BY <3>1, TellTypes
    <3>2. CASE ReleaseFails(a) /\ Reports(a, FALSE, TRUE)
      BY <1>6, <3>2, ReportTypes
    <3> QED
      BY <1>8, <3>1, <3>2 DEF GiveBack
  <2>2. misses' \in [Agents -> 0..(PauseAfter - 1)]
    <3>1. misses[a] \in 0..(PauseAfter - 1) /\ PauseAfter \in Nat /\ PauseAfter # 0
      BY WorkersAssumption
    <3>2. misses[a] + 1 < PauseAfter => misses[a] + 1 \in 0..(PauseAfter - 1)
      BY <3>1
    <3>3. 0 \in 0..(PauseAfter - 1)
      BY <3>1
    <3>4. misses[a] + 1 >= PauseAfter \/ misses[a] + 1 < PauseAfter
      BY <3>1
    <3> DEFINE m == IF Pauses(job[a].incomplete, misses[a]) THEN 0 ELSE IF job[a].incomplete THEN misses[a] + 1 ELSE misses[a]
    <3>5. m \in 0..(PauseAfter - 1)
      BY <3>1, <3>2, <3>3, <3>4 DEF Pauses
    <3>6. misses' = [misses EXCEPT ![a] = m]
      BY <1>8 DEF GiveBack
    <3> HIDE DEF m
    <3> QED
      BY <3>5, <3>6
  <2>3. pausedUntil' \in [Agents -> Nat]
    <3>1. leases[job[a].task][job[a].lease].at + PauseTime \in Nat
      <4>1. job[a].task \in Tasks /\ job[a].lease \in DOMAIN leases[job[a].task]
        BY <1>8 DEF GiveBack, JobInv, Working, Granted
      <4>2. leases[job[a].task] \in Seq(LeaseRecord) /\ DOMAIN leases[job[a].task] = 1..Len(leases[job[a].task])
        BY <4>1, OneRow
      <4>3. leases[job[a].task][job[a].lease] \in LeaseRecord
        BY <4>1, <4>2, ElementOfSeq
      <4>4. leases[job[a].task][job[a].lease].at \in Nat
        BY <4>3 DEF LeaseRecord
      <4> QED
        BY <4>4, WorkersAssumption
    <3>2. \/ pausedUntil' = pausedUntil
          \/ pausedUntil' = [pausedUntil EXCEPT ![a] = leases[job[a].task][job[a].lease].at + PauseTime]
      BY <1>8 DEF GiveBack
    <3> QED
      BY <3>1, <3>2
  <2> QED
    BY <2>1, <2>2, <2>3
<1>9. ASSUME Beat(a) PROVE WorkerTypeOK'
  <2>1. lost' \in [Agents -> 0..MaxLost]
    BY <1>9, StepTypes DEF Beat
  <2>2. beatAt' \in [Agents -> 0..MaxClock]
    BY <1>1, <1>9 DEF Beat
  <2>3. shown' \in [Agents -> ShownRow]
    <3>1. \A now \in CapturedNow : SeenBy(shown[a], now) \in ShownRow
      <4>1. \A now \in CapturedNow : now \in Nat
        BY <1>1 DEF CapturedNow
      <4> QED
        BY <1>1, <4>1 DEF SeenBy, ShownRow
    <3>2. shown' = shown \/ \E now \in CapturedNow : shown' = [shown EXCEPT ![a] = SeenBy(shown[a], now)]
      BY <1>9 DEF Beat
    <3> QED
      BY <3>1, <3>2
  <2> QED
    BY <1>9, <2>1, <2>2, <2>3 DEF Beat
<1>10. ASSUME Killed(a) PROVE WorkerTypeOK'
  <2>1. 0 \in 0..(PauseAfter - 1)
    BY WorkersAssumption
  <2> QED
    BY <1>1, <1>2, <1>10, <2>1, StepTypes, NoJobTyped DEF Killed
<1> QED
  BY <1>3, <1>4, <1>5, <1>7, <1>8, <1>9, <1>10 DEF WorkerStep

-----------------------------------------------------------------------------
(* What a step of worker a does to its own account.                        *)

\* What it has done and claimed, when its step is about task t.
LEMMA OwnSets ==
  ASSUME NEW a \in Agents, NEW t \in Tasks, \A u \in Tasks \ {t} : Untouched(a, u)
  PROVE  /\ (a \in AcceptedAgents(t)' <=> a \in AcceptedAgents(t)) => DoneBy(a)' = DoneBy(a)
         /\ a \notin AcceptedAgents(t) /\ a \in AcceptedAgents(t)' =>
              t \notin DoneBy(a) /\ DoneBy(a)' = DoneBy(a) \cup {t}
         /\ (\A k : Granted(t, a, k)' <=> Granted(t, a, k)) => ClaimsOf(a)' = ClaimsOf(a)
         /\ \A n \in 1..20 : ~Granted(t, a, n) /\ (\A k : Granted(t, a, k)' <=> Granted(t, a, k) \/ k = n) =>
              <<t, n>> \notin ClaimsOf(a) /\ ClaimsOf(a)' = ClaimsOf(a) \cup {<<t, n>>}
<1>1. \A u \in Tasks \ {t} : a \in AcceptedAgents(u)' <=> a \in AcceptedAgents(u)
  BY DEF Untouched
<1>2. \A c \in Tasks \X (1..20) : c[1] # t => (Granted(c[1], a, c[2])' <=> Granted(c[1], a, c[2]))
  BY DEF Untouched
<1>3. ASSUME a \in AcceptedAgents(t)' <=> a \in AcceptedAgents(t) PROVE DoneBy(a)' = DoneBy(a)
  BY <1>1, <1>3 DEF DoneBy
<1>4. ASSUME a \notin AcceptedAgents(t), a \in AcceptedAgents(t)'
      PROVE  t \notin DoneBy(a) /\ DoneBy(a)' = DoneBy(a) \cup {t}
  BY <1>1, <1>4 DEF DoneBy
<1>5. ASSUME \A k : Granted(t, a, k)' <=> Granted(t, a, k) PROVE ClaimsOf(a)' = ClaimsOf(a)
  <2>1. \A c \in Tasks \X (1..20) : Granted(c[1], a, c[2])' <=> Granted(c[1], a, c[2])
    BY <1>2, <1>5
  <2> QED
    BY <2>1 DEF ClaimsOf
<1>6. ASSUME NEW n \in 1..20, ~Granted(t, a, n), \A k : Granted(t, a, k)' <=> Granted(t, a, k) \/ k = n
      PROVE  <<t, n>> \notin ClaimsOf(a) /\ ClaimsOf(a)' = ClaimsOf(a) \cup {<<t, n>>}
  <2>1. <<t, n>> \in Tasks \X (1..20) /\ <<t, n>>[1] = t /\ <<t, n>>[2] = n
    OBVIOUS
  <2>2. \A c \in Tasks \X (1..20) : c = <<c[1], c[2]>>
    OBVIOUS
  <2>3. \A c \in Tasks \X (1..20) : Granted(c[1], a, c[2])' <=> Granted(c[1], a, c[2]) \/ c = <<t, n>>
    BY <1>2, <1>6, <2>1, <2>2
  <2>4. <<t, n>> \notin ClaimsOf(a)
    BY <1>6, <2>1 DEF ClaimsOf
  <2> QED
    BY <2>1, <2>3, <2>4 DEF ClaimsOf
<1> QED
  BY <1>3, <1>4, <1>5, <1>6

\* The leases it leaves behind.
LEMMA OwnLeft ==
  ASSUME NEW a \in Agents, NEW t \in Tasks, \A u \in Tasks \ {t} : Untouched(a, u),
         Working(a) => job[a].task = t
  PROVE  /\ LeftBehind(a)' \subseteq LeftBehind(a) \cup {t}
         /\ task'[t].claimedBy # a \/ WorkedOn(t, a)' => LeftBehind(a)' \subseteq LeftBehind(a)
<1>1. ASSUME NEW u \in Tasks \ {t}, u \in LeftBehind(a)' PROVE u \in LeftBehind(a)
  BY <1>1 DEF LeftBehind, Untouched, WorkedOn
<1>2. task'[t].claimedBy # a \/ WorkedOn(t, a)' => t \notin LeftBehind(a)'
  BY DEF LeftBehind
<1>3. LeftBehind(a)' \subseteq Tasks
  BY DEF LeftBehind
<1> QED
  BY <1>1, <1>2, <1>3

\* The counters gain what the sets gain, or a fault accounts for it.
LEMMA CountStep ==
  ASSUME WorkerTypeOK, WorkerTypeOK', NEW x \in Agents, CountInv(x), NEW e, NEW c,
         lost'[x] >= lost[x],
         \/ DoneBy(x)' = DoneBy(x) /\ shown'[x].accepted = shown[x].accepted
         \/ /\ e \notin DoneBy(x) /\ DoneBy(x)' = DoneBy(x) \cup {e}
            /\ \/ shown'[x].accepted = shown[x].accepted + 1
               \/ shown'[x].accepted = shown[x].accepted /\ lost'[x] = lost[x] + 1,
         \/ /\ ClaimsOf(x)' = ClaimsOf(x)
            /\ shown'[x].processed + Running(x)' <= shown[x].processed + Running(x)
         \/ /\ c \notin ClaimsOf(x) /\ ClaimsOf(x)' = ClaimsOf(x) \cup {c}
            /\ shown'[x].processed + Running(x)' <= shown[x].processed + Running(x) + 1
  PROVE  CountInv(x)'
<1>1. /\ shown[x].accepted \in Nat /\ shown'[x].accepted \in Nat /\ lost[x] \in Nat /\ lost'[x] \in Nat
      /\ shown[x].processed \in Nat /\ shown'[x].processed \in Nat
  BY OneWorker, OneWorkerNext
<1>2. Running(x) \in Nat /\ Running(x)' \in Nat
  BY DEF Running
<1>3. /\ IsFiniteSet(DoneBy(x)) /\ IsFiniteSet(ClaimsOf(x))
      /\ shown[x].accepted <= Cardinality(DoneBy(x))
      /\ Cardinality(DoneBy(x)) <= shown[x].accepted + lost[x]
      /\ shown[x].processed + Running(x) <= Cardinality(ClaimsOf(x))
  BY DEF CountInv
<1>4. /\ IsFiniteSet(DoneBy(x)') /\ Cardinality(DoneBy(x)) \in Nat /\ Cardinality(DoneBy(x)') \in Nat
      /\ e \notin DoneBy(x) /\ DoneBy(x)' = DoneBy(x) \cup {e} =>
           Cardinality(DoneBy(x)') = Cardinality(DoneBy(x)) + 1
  <2>1. DoneBy(x)' \subseteq DoneBy(x) \cup {e}
    OBVIOUS
  <2> QED
    BY <1>3, <2>1, GainsOne
<1>5. /\ IsFiniteSet(ClaimsOf(x)') /\ Cardinality(ClaimsOf(x)) \in Nat /\ Cardinality(ClaimsOf(x)') \in Nat
      /\ c \notin ClaimsOf(x) /\ ClaimsOf(x)' = ClaimsOf(x) \cup {c} =>
           Cardinality(ClaimsOf(x)') = Cardinality(ClaimsOf(x)) + 1
  <2>1. ClaimsOf(x)' \subseteq ClaimsOf(x) \cup {c}
    OBVIOUS
  <2> QED
    BY <1>3, <2>1, GainsOne
<1>6. /\ shown'[x].accepted <= Cardinality(DoneBy(x)')
      /\ Cardinality(DoneBy(x)') <= shown'[x].accepted + lost'[x]
  <2>1. CASE DoneBy(x)' = DoneBy(x) /\ shown'[x].accepted = shown[x].accepted
    BY <1>1, <1>3, <1>4, <2>1
  <2>2. CASE /\ e \notin DoneBy(x) /\ DoneBy(x)' = DoneBy(x) \cup {e}
             /\ \/ shown'[x].accepted = shown[x].accepted + 1
                \/ shown'[x].accepted = shown[x].accepted /\ lost'[x] = lost[x] + 1
    <3>1. Cardinality(DoneBy(x)') = Cardinality(DoneBy(x)) + 1
      BY <1>4, <2>2
    <3> QED
      BY <1>1, <1>3, <1>4, <2>2, <3>1
  <2> QED
    BY <2>1, <2>2
<1>7. shown'[x].processed + Running(x)' <= Cardinality(ClaimsOf(x)')
  <2>1. CASE /\ ClaimsOf(x)' = ClaimsOf(x)
             /\ shown'[x].processed + Running(x)' <= shown[x].processed + Running(x)
    BY <1>1, <1>2, <1>3, <1>5, <2>1
  <2>2. CASE /\ c \notin ClaimsOf(x) /\ ClaimsOf(x)' = ClaimsOf(x) \cup {c}
             /\ shown'[x].processed + Running(x)' <= shown[x].processed + Running(x) + 1
    <3>1. Cardinality(ClaimsOf(x)') = Cardinality(ClaimsOf(x)) + 1
      BY <1>5, <2>2
    <3> QED
      BY <1>1, <1>2, <1>3, <1>5, <2>2, <3>1
  <2> QED
    BY <2>1, <2>2
<1> QED
  BY <1>4, <1>5, <1>6, <1>7 DEF CountInv

\* A lease is left behind at the cost of a fault, a new one or the one set aside for it.
LEMMA LeftStep ==
  ASSUME WorkerTypeOK, WorkerTypeOK', NEW x \in Agents, LeftInv(x), NEW e,
         LeftBehind(x)' \subseteq LeftBehind(x) \cup {e},
         lost'[x] >= lost[x],
         \/ LeftBehind(x)' \subseteq LeftBehind(x) /\ (Lapsing(x)' => Lapsing(x))
         \/ LeftBehind(x)' \subseteq LeftBehind(x) /\ lost'[x] = lost[x] + 1
         \/ ~Lapsing(x)' /\ (Lapsing(x) \/ lost'[x] = lost[x] + 1)
  PROVE  LeftInv(x)'
<1>1. lost[x] \in Nat /\ lost'[x] \in Nat
  BY OneWorker, OneWorkerNext
<1>2. IsFiniteSet(LeftBehind(x)) /\ Cardinality(LeftBehind(x)) + Reserved(x) <= lost[x]
  BY DEF LeftInv
<1>3. /\ IsFiniteSet(LeftBehind(x)') /\ Cardinality(LeftBehind(x)) \in Nat /\ Cardinality(LeftBehind(x)') \in Nat
      /\ Cardinality(LeftBehind(x)') <= Cardinality(LeftBehind(x)) + 1
      /\ LeftBehind(x)' \subseteq LeftBehind(x) => Cardinality(LeftBehind(x)') <= Cardinality(LeftBehind(x))
  BY <1>2, GainsOne
<1>4. /\ Reserved(x) \in 0..1 /\ Reserved(x)' \in 0..1
      /\ Lapsing(x) => Reserved(x) = 1
      /\ ~Lapsing(x)' => Reserved(x)' = 0
      /\ (Lapsing(x)' => Lapsing(x)) => Reserved(x)' <= Reserved(x)
  BY DEF Reserved
<1>5. CASE LeftBehind(x)' \subseteq LeftBehind(x) /\ (Lapsing(x)' => Lapsing(x))
  <2>1. Cardinality(LeftBehind(x)') + Reserved(x)' <= lost'[x]
    BY <1>1, <1>2, <1>3, <1>4, <1>5
  <2> QED
    BY <1>3, <2>1 DEF LeftInv
<1>6. CASE LeftBehind(x)' \subseteq LeftBehind(x) /\ lost'[x] = lost[x] + 1
  <2>1. Cardinality(LeftBehind(x)') + Reserved(x)' <= lost'[x]
    BY <1>1, <1>2, <1>3, <1>4, <1>6
  <2> QED
    BY <1>3, <2>1 DEF LeftInv
<1>7. CASE ~Lapsing(x)' /\ (Lapsing(x) \/ lost'[x] = lost[x] + 1)
  <2>1. Cardinality(LeftBehind(x)') + Reserved(x)' <= lost'[x]
    BY <1>1, <1>2, <1>3, <1>4, <1>7
  <2> QED
    BY <1>3, <2>1 DEF LeftInv
<1> QED
  BY <1>5, <1>6, <1>7

\* Its own variables after the parts its steps are made of.
LEMMA OwnParts ==
  ASSUME WorkerTypeOK, NEW a \in Agents
  PROVE  /\ Loses(a) => lost'[a] = lost[a] + 1
         /\ NothingLost => lost'[a] = lost[a]
         /\ \A step : Turns(a, step) => wpc'[a] = step
         /\ \A accepted, answered \in BOOLEAN : Reports(a, accepted, answered) =>
              /\ wpc'[a] = "idle"
              /\ answered => /\ shown'[a].processed = shown[a].processed + 1
                             /\ shown'[a].accepted = shown[a].accepted + AcceptedDelta(accepted)
              /\ ~answered => shown'[a] = shown[a]
BY DEF WorkerTypeOK, Loses, NothingLost, Turns, Reports

\* A run that ends asks nothing more of the lease.
LEMMA RunOver ==
  ASSUME NEW a \in Agents
  PROVE  /\ wpc'[a] = "idle" => JobInv(a)' /\ ~Lapsing(a)' /\ Running(a)' = 0
         /\ wpc'[a] \in {"idle", "spent", "give back"} => LeaseInv(a)'
         /\ Running(a) \in 0..1
<1>1. wpc'[a] = "idle" => JobInv(a)' /\ ~Lapsing(a)' /\ Running(a)' = 0
  BY DEF JobInv, Lapsing, Running, Working
<1>2. wpc'[a] \in {"idle", "spent", "give back"} => LeaseInv(a)'
  BY DEF LeaseInv, AtWork
<1>3. Running(a) \in 0..1
  BY DEF Running
<1> QED
  BY <1>1, <1>2, <1>3

\* The end of a run, in its account.
LEMMA Told ==
  ASSUME WorkerTypeOK, WorkerTypeOK', NEW a \in Agents, CountInv(a), Working(a),
         NEW accepted \in BOOLEAN, Tells(a, accepted), NEW e, ClaimsOf(a)' = ClaimsOf(a),
         IF accepted THEN e \notin DoneBy(a) /\ DoneBy(a)' = DoneBy(a) \cup {e} ELSE DoneBy(a)' = DoneBy(a)
  PROVE  JobInv(a)' /\ CountInv(a)' /\ LeaseInv(a)' /\ ~Lapsing(a)' /\ lost'[a] >= lost[a]
<1>1. PICK answered \in BOOLEAN : Reports(a, accepted, answered) /\ IF answered THEN NothingLost ELSE Loses(a)
  BY DEF Tells
<1>2. /\ wpc'[a] = "idle"
      /\ answered => /\ shown'[a].processed = shown[a].processed + 1
                     /\ shown'[a].accepted = shown[a].accepted + AcceptedDelta(accepted)
                     /\ lost'[a] = lost[a]
      /\ ~answered => shown'[a] = shown[a] /\ lost'[a] = lost[a] + 1
  BY <1>1, OwnParts
<1>3. JobInv(a)' /\ ~Lapsing(a)' /\ Running(a)' = 0 /\ LeaseInv(a)' /\ Running(a) = 1
  BY <1>2, RunOver DEF Running
<1>4. /\ shown[a].accepted \in Nat /\ lost[a] \in Nat /\ shown[a].processed \in Nat
  BY OneWorker
<1>5. lost'[a] >= lost[a]
  BY <1>2, <1>4
<1>6. shown'[a].processed + Running(a)' <= shown[a].processed + Running(a)
  BY <1>2, <1>3, <1>4
<1>7. CASE accepted
  <2>1. \/ shown'[a].accepted = shown[a].accepted + 1
        \/ shown'[a].accepted = shown[a].accepted /\ lost'[a] = lost[a] + 1
    BY <1>2, <1>7 DEF AcceptedDelta
  <2>2. CountInv(a)'
    BY <1>5, <1>6, <1>7, <2>1, CountStep
  <2> QED
    BY <1>3, <1>5, <2>2
<1>8. CASE ~accepted
  <2>1. shown'[a].accepted = shown[a].accepted
    BY <1>2, <1>4, <1>8 DEF AcceptedDelta
  <2>2. CountInv(a)'
    BY <1>5, <1>6, <1>8, <2>1, CountStep
  <2> QED
    BY <1>3, <1>5, <2>2
<1> QED
  BY <1>7, <1>8

\* A run that goes on under its lease, by a step that renews nothing.
LEMMA GoesOn ==
  ASSUME LedgerInv, WorkerTypeOK, NEW a \in Agents, JobInv(a), LeaseInv(a), Working(a),
         NEW t \in Tasks, NEW l \in Nat, t = job[a].task, l = job[a].lease,
         t = job'[a].task, l = job'[a].lease, beatAt'[a] = beatAt[a], clock' = clock,
         wpc'[a] \in WorkerSteps \ {"idle"}, wpc'[a] = "submit" => job'[a].body \in Bodies,
         Granted(t, a, l)',
         \/ task'[t] = task[t]
         \/ task'[t].claimedBy = None /\ task'[t].lease = NoLease,
         \A u \in Tasks \ {t} : Untouched(a, u)
  PROVE  /\ JobInv(a)' /\ Running(a)' = Running(a)
         /\ Lapsing(a)' => Lapsing(a)
         /\ LeftBehind(a)' \subseteq LeftBehind(a)
         /\ AtWork(a) /\ task'[t] = task[t] /\ shown'[a] = shown[a] => LeaseInv(a)'
<1>1. Working(a)' /\ Running(a)' = Running(a)
  BY DEF Working, Running
<1>2. JobInv(a)'
  BY <1>1 DEF JobInv
<1>3. l # NoLease /\ a # None
  <2>1. l \in 1..Len(leases[t])
    BY OneRow DEF JobInv, Granted
  <2> QED
    BY <2>1, NoneAssumption DEF NoLease
<1>4. Lapsing(a)' => Lapsing(a)
  BY <1>3 DEF Lapsing
<1>5. LeftBehind(a)' \subseteq LeftBehind(a)
  <2>1. LeftBehind(a)' \subseteq LeftBehind(a) \cup {t}
    BY OwnLeft
  <2>2. task'[t].claimedBy = a => task'[t] = task[t]
    BY <1>3
  <2>3. task'[t] = task[t] /\ WorkedOn(t, a) => WorkedOn(t, a)'
    BY <1>1 DEF WorkedOn
  <2>4. t \in LeftBehind(a)' => t \in LeftBehind(a)
    BY <2>2, <2>3 DEF LeftBehind
  <2> QED
    BY <2>1, <2>4
<1>7. AtWork(a) /\ task'[t] = task[t] /\ shown'[a] = shown[a] => LeaseInv(a)'
  <2> SUFFICES ASSUME AtWork(a), task'[t] = task[t], shown'[a] = shown[a] PROVE LeaseInv(a)'
    OBVIOUS
  <2>1. Kept(a) \/ Dropped(a)
    BY DEF LeaseInv
  <2>2. Kept(a) => Kept(a)'
    BY DEF Kept
  <2>3. Dropped(a) => Dropped(a)'
    BY DEF Dropped, DeadlineMissed
  <2> QED
    BY <2>1, <2>2, <2>3 DEF LeaseInv
<1> QED
  BY <1>1, <1>2, <1>4, <1>5, <1>7

\* A lease that is refused while the table still shows it has lapsed.
LEMMA RefusedIsLapsing ==
  ASSUME LedgerInv, WorkerTypeOK, NEW a \in Agents, JobInv(a), Working(a),
         NEW t \in Tasks, NEW l \in Nat, t = job[a].task, l = job[a].lease,
         NEW now \in CapturedNow, ~ActiveLease(t, a, l, now), task[t].lease = l
  PROVE  Lapsing(a)
<1>1. Granted(t, a, l) /\ clock <= beatAt[a] + Interval
  BY DEF JobInv
<1>2. task[t].status = "CLAIMED" /\ task[t].claimedBy = a
  BY <1>1, HolderOfLease
<1>3. ~(task[t].leaseExpires > now)
  BY <1>2 DEF ActiveLease
<1>4. /\ task[t].leaseExpires \in Nat /\ now \in Nat /\ now <= clock /\ clock \in Nat
      /\ beatAt[a] \in Nat /\ Interval \in Nat
  <2>1. TypeOK /\ task[t] \in TaskRow /\ clock \in Nat
    BY OneRow DEF LedgerInv
  <2> QED
    BY <2>1, CapturedIsNat, OneWorker, IntervalShort DEF TaskRow, CapturedNow
<1>5. task[t].leaseExpires <= beatAt[a] + Interval
  BY <1>1, <1>3, <1>4
<1> QED
  BY <1>5 DEF Lapsing

\* claim_task, answered or not.
LEMMA OwnClaim ==
  ASSUME LedgerInv, WorkerTypeOK, WorkerTypeOK', NEW a \in Agents, AgentInv(a),
         NEW t \in Tasks, AskClaim(a, t)
  PROVE  AgentInv(a)'
<1>1. PICK n \in 1..20 :
        /\ clock' = clock /\ task'[t].claimedBy = a /\ task'[t].lease = n
        /\ ~Granted(t, a, n)
        /\ \A k : Granted(t, a, k)' <=> Granted(t, a, k) \/ k = n
        /\ a \in AcceptedAgents(t)' <=> a \in AcceptedAgents(t)
        /\ \A u \in Tasks \ {t} : Untouched(a, u)
  <2>1. Claim(t, a)
    BY DEF AskClaim
  <2> QED
    BY <2>1, ClaimEffect
<1>2. PICK now \in CapturedNow, s \in LeaseTimes : task'[t].leaseExpires = now + s
  <2>1. Claim(t, a)
    BY DEF AskClaim
  <2> QED
    BY <2>1, ClaimEffect
<1>3. ~Working(a) /\ ~Lapsing(a) /\ Running(a) = 0
  BY DEF AskClaim, Lapsing, Running
<1>4. /\ lost[a] \in Nat /\ beatAt[a] \in Nat /\ shown[a].processed \in Nat /\ shown[a].seen \in Nat
      /\ clock \in Nat /\ Interval \in Nat /\ MaxDelay \in Nat /\ s \in Nat /\ now \in Nat
      /\ now + MaxDelay >= clock /\ s > Interval + MaxDelay
  <2>1. TypeOK /\ clock \in Nat
    BY OneRow DEF LedgerInv
  <2> QED
    BY <2>1, CapturedIsNat, OneWorker, IntervalShort DEF CapturedNow
<1>5. DoneBy(a)' = DoneBy(a) /\ <<t, n>> \notin ClaimsOf(a) /\ ClaimsOf(a)' = ClaimsOf(a) \cup {<<t, n>>}
  BY <1>1, OwnSets
<1>6. shown'[a].processed = shown[a].processed /\ shown'[a].accepted = shown[a].accepted
  <2>1. shown' = shown \/ shown' = [shown EXCEPT ![a].seen = clock]
    BY DEF AskClaim
  <2>2. shown \in [Agents -> ShownRow]
    BY DEF WorkerTypeOK
  <2> QED
    BY <2>1, <2>2 DEF ShownRow
<1>7. lost'[a] = lost[a] \/ lost'[a] = lost[a] + 1
  BY OwnParts DEF AskClaim
<1>8. Running(a)' \in 0..1
  BY DEF Running
<1>9. CountInv(a)'
  <2>1. shown'[a].processed + Running(a)' <= shown[a].processed + Running(a) + 1 /\ lost'[a] >= lost[a]
    BY <1>3, <1>4, <1>6, <1>7, <1>8
  <2> QED
    BY <1>5, <1>6, <2>1, CountStep DEF AgentInv
<1>10. /\ LeftBehind(a)' \subseteq LeftBehind(a) \cup {t}
       /\ WorkedOn(t, a)' => LeftBehind(a)' \subseteq LeftBehind(a)
  BY <1>1, <1>3, OwnLeft
<1>11. CASE /\ Turns(a, "research")
            /\ job' = [job EXCEPT ![a] = [NoJob EXCEPT !.task = t, !.lease = task'[t].lease]]
            /\ beatAt' = [beatAt EXCEPT ![a] = clock]
            /\ \/ NothingLost /\ shown' = [shown EXCEPT ![a].seen = clock]
               \/ Loses(a) /\ UNCHANGED shown
  <2>1. wpc'[a] = "research" /\ beatAt'[a] = clock
    BY <1>11, OwnParts DEF WorkerTypeOK
  <2>2. job'[a].task = t /\ job'[a].lease = n
    <3>1. job'[a] = [NoJob EXCEPT !.task = t, !.lease = n]
      BY <1>1, <1>11 DEF WorkerTypeOK
    <3> QED
      BY <3>1 DEF NoJob
  <2>3. Working(a)'
    BY <2>1 DEF Working
  <2>4. JobInv(a)'
    <3>1. Granted(t, a, n)' /\ n \in Nat
      BY <1>1
    <3>2. clock <= clock + Interval /\ clock <= clock
      BY <1>4
    <3> QED
      BY <1>1, <2>1, <2>2, <3>1, <3>2 DEF JobInv, Granted
  <2>5. task'[t].leaseExpires > clock + Interval
    BY <1>2, <1>4
  <2>6. ~Lapsing(a)'
    <3>1. ~(task'[t].leaseExpires <= clock + Interval)
      BY <1>2, <1>4
    <3> QED
      BY <2>1, <2>2, <3>1 DEF Lapsing
  <2>7. LeaseInv(a)'
    <3>1. CASE NothingLost /\ shown' = [shown EXCEPT ![a].seen = clock]
      <4>1. shown'[a].seen = clock
        BY <3>1 DEF WorkerTypeOK, ShownRow
      <4>2. clock + MaxDelay >= clock
        BY <1>4
      <4>3. Kept(a)'
        BY <1>1, <2>1, <2>2, <2>5, <4>1, <4>2 DEF Kept
      <4> QED
        BY <4>3 DEF LeaseInv
    <3>2. CASE Loses(a)
      <4>1. lost'[a] # 0
        BY <1>4, <3>2, OwnParts
      <4> QED
        BY <4>1 DEF LeaseInv, AtWork
    <3> QED
      BY <1>11, <3>1, <3>2
  <2>8. WorkedOn(t, a)'
    BY <1>1, <2>2, <2>3 DEF WorkedOn
  <2>9. LeftInv(a)'
    <3>1. lost'[a] >= lost[a]
      BY <1>4, <1>7
    <3>2. LeftBehind(a)' \subseteq LeftBehind(a) /\ LeftBehind(a)' \subseteq LeftBehind(a) \cup {t}
      BY <1>10, <2>8
    <3> QED
      BY <2>6, <3>1, <3>2, LeftStep DEF AgentInv
  <2> QED
    BY <1>9, <2>4, <2>7, <2>9 DEF AgentInv
<1>12. CASE Loses(a) /\ UNCHANGED <<wpc, job, beatAt, shown>>
  <2>1. wpc'[a] = "idle"
    BY <1>3, <1>12 DEF Working
  <2>2. JobInv(a)' /\ ~Lapsing(a)' /\ LeaseInv(a)'
    BY <2>1, RunOver
  <2>3. lost'[a] = lost[a] + 1
    BY <1>12, OwnParts
  <2>4. LeftInv(a)'
    <3>1. lost'[a] >= lost[a]
      BY <1>4, <2>3
    <3> QED
      BY <1>10, <2>2, <2>3, <3>1, LeftStep DEF AgentInv
  <2> QED
    BY <1>9, <2>2, <2>4 DEF AgentInv
<1> QED
  BY <1>11, <1>12 DEF AskClaim

\* Steps of the worker alone leave the queue and what it keeps of the agent.
LEMMA QueueStill ==
  ASSUME NEW a \in Agents, UNCHANGED vars
  PROVE  /\ \A u \in Tasks : Untouched(a, u)
         /\ DoneBy(a)' = DoneBy(a) /\ ClaimsOf(a)' = ClaimsOf(a)
<1>1. \A u \in Tasks : Untouched(a, u)
  BY SameUntouched DEF vars
<1> QED
  BY <1>1, UntouchedSets

\* The provider's answer, or its failure.
LEMMA OwnResearch ==
  ASSUME LedgerInv, WorkerTypeOK, WorkerTypeOK', NEW a \in Agents, AgentInv(a), Research(a)
  PROVE  AgentInv(a)'
<1>1. /\ wpc[a] = "research" /\ Working(a) /\ JobInv(a) /\ LeaseInv(a)
      /\ UNCHANGED vars /\ beatAt' = beatAt /\ shown' = shown /\ lost' = lost
  BY DEF Research, AgentInv, Working
<1>2. PICK t \in Tasks, l \in Nat : t = job[a].task /\ l = job[a].lease /\ Granted(t, a, l)
  BY <1>1 DEF JobInv
<1>3. clock' = clock /\ task' = task /\ leases' = leases /\ Granted(t, a, l)'
  BY <1>1, <1>2 DEF vars, Granted
<1>4. /\ t = job'[a].task /\ l = job'[a].lease
      /\ wpc'[a] \in {"submit", "give back"}
      /\ wpc'[a] = "submit" => job'[a].body \in Bodies
  <2>1. job[a] \in JobRecord /\ job \in [Agents -> JobRecord]
    BY OneWorker DEF WorkerTypeOK
  <2>2. CASE \E b \in Bodies : job' = [job EXCEPT ![a].body = b] /\ Turns(a, "submit")
    <3>1. PICK b \in Bodies : job' = [job EXCEPT ![a].body = b] /\ Turns(a, "submit")
      BY <2>2
    <3>2. job'[a] = [job[a] EXCEPT !.body = b] /\ wpc'[a] = "submit"
      BY <2>1, <3>1, OwnParts
    <3>3. job'[a].task = job[a].task /\ job'[a].lease = job[a].lease /\ job'[a].body = b
      BY <2>1, <3>2 DEF JobRecord
    <3> QED
      BY <1>2, <3>2, <3>3
  <2>3. CASE Turns(a, "give back") /\ (job' = job \/ job' = [job EXCEPT ![a].incomplete = TRUE])
    <3>1. wpc'[a] = "give back"
      BY <2>3, OwnParts
    <3>2. job'[a] = job[a] \/ job'[a] = [job[a] EXCEPT !.incomplete = TRUE]
      BY <2>1, <2>3
    <3>3. job'[a].task = job[a].task /\ job'[a].lease = job[a].lease
      BY <2>1, <3>2 DEF JobRecord
    <3> QED
      BY <1>2, <3>1, <3>3
  <2> QED
    BY <2>2, <2>3 DEF Research
<1>5. wpc'[a] \in WorkerSteps \ {"idle"}
  BY <1>4 DEF WorkerSteps
<1>6. \A u \in Tasks \ {t} : Untouched(a, u)
  BY <1>1, QueueStill
<1>7. /\ JobInv(a)' /\ Running(a)' = Running(a) /\ (Lapsing(a)' => Lapsing(a))
      /\ LeftBehind(a)' \subseteq LeftBehind(a)
      /\ AtWork(a) => LeaseInv(a)'
  BY <1>1, <1>2, <1>3, <1>4, <1>5, <1>6, GoesOn
<1>8. lost[a] \in Nat /\ lost'[a] = lost[a] /\ lost'[a] >= lost[a]
  BY <1>1, OneWorker
<1>9. LeaseInv(a)'
  BY <1>1, <1>7, <1>8 DEF AtWork, LeaseInv
<1>10. CountInv(a)'
  <2>1. DoneBy(a)' = DoneBy(a) /\ ClaimsOf(a)' = ClaimsOf(a)
    BY <1>1, QueueStill
  <2>2. shown[a].processed \in Nat /\ Running(a) \in 0..1
    BY OneWorker DEF Running
  <2>3. shown'[a].processed + Running(a)' <= shown[a].processed + Running(a)
    BY <1>1, <1>7, <2>2
  <2> QED
    BY <1>1, <1>8, <2>1, <2>3, CountStep DEF AgentInv
<1>11. LeftInv(a)'
  BY <1>7, <1>8, LeftStep DEF AgentInv
<1> QED
  BY <1>7, <1>9, <1>10, <1>11 DEF AgentInv

\* A worker whose own account says nothing new.
LEMMA CountStill ==
  ASSUME WorkerTypeOK, WorkerTypeOK', NEW a \in Agents, CountInv(a), lost'[a] >= lost[a],
         DoneBy(a)' = DoneBy(a), ClaimsOf(a)' = ClaimsOf(a), shown'[a].accepted = shown[a].accepted,
         shown'[a].processed = shown[a].processed, Running(a)' = Running(a) \/ Running(a)' = 0
  PROVE  CountInv(a)'
<1>1. shown[a].processed \in Nat /\ Running(a) \in 0..1
  BY OneWorker DEF Running
<1>2. shown'[a].processed + Running(a)' <= shown[a].processed + Running(a)
  BY <1>1
<1> QED
  BY <1>2, CountStep

\* run_once comes to its error path, and the queue did nothing.
LEMMA Stuck ==
  ASSUME LedgerInv, WorkerTypeOK, WorkerTypeOK', NEW a \in Agents, AgentInv(a), Working(a),
         UNCHANGED vars, UNCHANGED <<job, beatAt, shown>>, lost'[a] >= lost[a], wpc'[a] = "give back"
  PROVE  AgentInv(a)'
<1>1. JobInv(a) /\ LeaseInv(a) /\ CountInv(a) /\ LeftInv(a)
  BY DEF AgentInv
<1>2. PICK t \in Tasks, l \in Nat : t = job[a].task /\ l = job[a].lease /\ Granted(t, a, l)
  BY <1>1 DEF JobInv
<1>3. clock' = clock /\ task' = task /\ Granted(t, a, l)'
  BY <1>2 DEF vars, Granted
<1>4. \A u \in Tasks : Untouched(a, u)
  BY QueueStill
<1>5. DoneBy(a)' = DoneBy(a) /\ ClaimsOf(a)' = ClaimsOf(a)
  BY QueueStill
<1>6. "give back" \in WorkerSteps \ {"idle"}
  BY DEF WorkerSteps
<1>7. JobInv(a)' /\ Running(a)' = Running(a) /\ (Lapsing(a)' => Lapsing(a)) /\ LeftBehind(a)' \subseteq LeftBehind(a)
  BY <1>1, <1>2, <1>3, <1>4, <1>6, GoesOn
<1>8. CountInv(a)'
  BY <1>1, <1>5, <1>7, CountStill
<1>9. LeftInv(a)'
  BY <1>1, <1>7, LeftStep
<1>10. LeaseInv(a)'
  BY RunOver
<1> QED
  BY <1>7, <1>8, <1>9, <1>10 DEF AgentInv

\* A submission, whatever becomes of its answer.
LEMMA OwnSubmit ==
  ASSUME LedgerInv, QuorumInv, WorkerTypeOK, WorkerTypeOK', NEW a \in Agents, AgentInv(a), SubmitJob(a)
  PROVE  AgentInv(a)'
<1>1. /\ wpc[a] = "submit" /\ Working(a)
      /\ JobInv(a) /\ LeaseInv(a) /\ CountInv(a) /\ LeftInv(a)
  BY DEF SubmitJob, AgentInv, Working
<1>2. PICK t \in Tasks, l \in Nat, b \in Bodies, r \in Nat :
        t = job[a].task /\ l = job[a].lease /\ b = job[a].body /\ r = job[a].repairs /\ Granted(t, a, l)
  <2>1. job[a].repairs \in Nat
    BY OneWorker DEF JobRecord
  <2> QED
    BY <1>1, <2>1 DEF JobInv
<1>3. lost[a] \in Nat
  BY OneWorker
<1>4. l # NoLease
  BY <1>2, OneRow DEF Granted, NoLease
<1>5. ASSUME Submit(t, a, l, b, r)
      PROVE  /\ task[t].claimedBy = a /\ task[t].lease = l /\ clock' = clock
             /\ \/ task'[t] = task[t] /\ Check[b] = "repairable"
                \/ task'[t].claimedBy = None /\ task'[t].lease = NoLease
             /\ Granted(t, a, l)'
             /\ \A u \in Tasks \ {t} : Untouched(a, u)
             /\ ClaimsOf(a)' = ClaimsOf(a)
             /\ IF Check[b] = "clean" THEN t \notin DoneBy(a) /\ DoneBy(a)' = DoneBy(a) \cup {t}
                                      ELSE DoneBy(a)' = DoneBy(a)
             /\ LeftBehind(a)' \subseteq LeftBehind(a) \cup {t}
             /\ task'[t].claimedBy # a => LeftBehind(a)' \subseteq LeftBehind(a)
  <2>1. /\ task[t].claimedBy = a /\ task[t].lease = l /\ clock' = clock
        /\ \/ task'[t] = task[t] /\ Check[b] = "repairable"
           \/ task'[t].claimedBy = None /\ task'[t].lease = NoLease
        /\ \A k : Granted(t, a, k)' <=> Granted(t, a, k)
        /\ a \notin AcceptedAgents(t)
        /\ a \in AcceptedAgents(t)' <=> Check[b] = "clean"
        /\ \A u \in Tasks \ {t} : Untouched(a, u)
    <3>1. /\ task[t].claimedBy = a /\ task[t].lease = l /\ clock' = clock
          /\ \/ task'[t] = task[t] /\ Check[b] = "repairable"
             \/ task'[t].claimedBy = None /\ task'[t].lease = NoLease
      BY <1>5, SubmitMoves
    <3>2. \A k : Granted(t, a, k)' <=> Granted(t, a, k)
      BY <1>5, SubmitEffect
    <3>3. a \notin AcceptedAgents(t) /\ (a \in AcceptedAgents(t)' <=> Check[b] = "clean")
      BY <1>5, SubmitAccepts
    <3>4. \A x \in Agents, u \in Tasks : x # a \/ u # t => Untouched(x, u)
      BY <1>5, SubmitEffect
    <3> QED
      BY <3>1, <3>2, <3>3, <3>4
  <2>2. ClaimsOf(a)' = ClaimsOf(a)
    BY <2>1, OwnSets
  <2>3. IF Check[b] = "clean" THEN t \notin DoneBy(a) /\ DoneBy(a)' = DoneBy(a) \cup {t}
                              ELSE DoneBy(a)' = DoneBy(a)
    BY <2>1, OwnSets
  <2>4. /\ LeftBehind(a)' \subseteq LeftBehind(a) \cup {t}
        /\ task'[t].claimedBy # a => LeftBehind(a)' \subseteq LeftBehind(a)
    BY <1>2, <2>1, OwnLeft
  <2> QED
    BY <1>2, <2>1, <2>2, <2>3, <2>4
<1>6. a # None
  BY NoneAssumption
<1>7. CASE SubmitAnswered(a)
  <2>1. Submit(t, a, l, b, r)
    BY <1>2, <1>7 DEF SubmitAnswered
  <2>2. CASE Check[b] = "clean"
    <3>1. Tells(a, TRUE)
      BY <1>2, <1>7, <2>2 DEF SubmitAnswered
    <3>2. JobInv(a)' /\ CountInv(a)' /\ LeaseInv(a)' /\ ~Lapsing(a)' /\ lost'[a] >= lost[a]
      BY <1>1, <1>5, <2>1, <2>2, <3>1, Told
    <3>3. task'[t].claimedBy # a
      BY <1>5, <1>6, <2>1, <2>2
    <3>4. LeftBehind(a)' \subseteq LeftBehind(a)
      BY <1>5, <2>1, <3>3
    <3>5. LeftInv(a)'
      BY <1>1, <3>2, <3>4, LeftStep
    <3> QED
      BY <3>2, <3>5 DEF AgentInv
  <2>3. ASSUME Check[b] # "clean", Tells(a, FALSE), task'[t].lease # l PROVE AgentInv(a)'
    <3>1. JobInv(a)' /\ CountInv(a)' /\ LeaseInv(a)' /\ ~Lapsing(a)' /\ lost'[a] >= lost[a]
      BY <1>1, <1>5, <2>1, <2>3, Told
    <3>2. LeftBehind(a)' \subseteq LeftBehind(a)
      BY <1>5, <1>6, <2>1, <2>3
    <3>3. LeftInv(a)'
      BY <1>1, <3>1, <3>2, LeftStep
    <3> QED
      BY <3>1, <3>3 DEF AgentInv
  <2>4. ASSUME Check[b] # "clean", NothingLost, UNCHANGED <<beatAt, shown>>, task'[t].lease = l,
               t = job'[a].task, l = job'[a].lease, wpc'[a] \in {"research", "spent"}
        PROVE  AgentInv(a)'
    <3>1. lost'[a] = lost[a] /\ lost'[a] >= lost[a] /\ task'[t] = task[t]
      BY <1>3, <1>4, <1>5, <2>1, <2>4, OwnParts
    <3>2. wpc'[a] \in WorkerSteps \ {"idle"}
      BY <2>4 DEF WorkerSteps
    <3>3. /\ JobInv(a)' /\ Running(a)' = Running(a) /\ (Lapsing(a)' => Lapsing(a))
          /\ LeftBehind(a)' \subseteq LeftBehind(a)
          /\ AtWork(a) => LeaseInv(a)'
      BY <1>1, <1>2, <1>5, <2>1, <2>4, <3>1, <3>2, GoesOn
    <3>4. LeaseInv(a)'
      BY <1>1, <3>1, <3>3 DEF AtWork, LeaseInv
    <3>5. CountInv(a)'
      BY <1>1, <1>5, <2>1, <2>4, <3>1, <3>3, CountStill
    <3>6. LeftInv(a)'
      BY <1>1, <3>1, <3>3, LeftStep
    <3> QED
      BY <3>3, <3>4, <3>5, <3>6 DEF AgentInv
  <2>5. CASE Check[b] # "clean"
    <3>1. \/ /\ Turns(a, "research") /\ UNCHANGED <<beatAt, shown>> /\ NothingLost /\ task'[t].lease = l
             /\ job' = [job EXCEPT ![a].repairs = Len(evidence'[job[a].task]), ![a].tries = @ + 1]
          \/ Turns(a, "spent") /\ UNCHANGED <<job, beatAt, shown>> /\ NothingLost /\ task'[t].lease = l
          \/ Tells(a, FALSE) /\ task'[t].lease # l
      BY <1>2, <1>7, <2>5 DEF SubmitAnswered, GivesBack
    <3>2. CASE /\ Turns(a, "research") /\ UNCHANGED <<beatAt, shown>> /\ NothingLost /\ task'[t].lease = l
               /\ job' = [job EXCEPT ![a].repairs = Len(evidence'[job[a].task]), ![a].tries = @ + 1]
      <4>1. job \in [Agents -> JobRecord] /\ job[a] \in JobRecord
        BY OneWorker DEF WorkerTypeOK
      <4>2. \E n, m : job'[a] = [job[a] EXCEPT !.repairs = n, !.tries = m]
        BY <3>2, <4>1
      <4>3. t = job'[a].task /\ l = job'[a].lease
        BY <1>2, <4>1, <4>2 DEF JobRecord
      <4>4. wpc'[a] = "research"
        BY <3>2, OwnParts
      <4> QED
        BY <2>4, <2>5, <3>2, <4>3, <4>4
    <3>3. CASE Turns(a, "spent") /\ UNCHANGED <<job, beatAt, shown>> /\ NothingLost /\ task'[t].lease = l
      <4>1. wpc'[a] = "spent" /\ t = job'[a].task /\ l = job'[a].lease
        BY <1>2, <3>3, OwnParts
      <4> QED
        BY <2>4, <2>5, <3>3, <4>1
    <3> QED
      BY <2>3, <2>5, <3>1, <3>2, <3>3
  <2> QED
    BY <2>2, <2>5
<1>8. CASE SubmitFailed(a)
  <2>1. wpc'[a] = "give back" /\ UNCHANGED <<job, beatAt, shown>>
    BY <1>8, OwnParts DEF SubmitFailed
  <2>2. CASE Submit(t, a, l, b, r) /\ Loses(a)
    <3>1. lost'[a] = lost[a] + 1
      BY <2>2, OwnParts
    <3>2. lost'[a] >= lost[a]
      BY <1>3, <3>1
    <3>3. wpc'[a] \in WorkerSteps \ {"idle"}
      BY <2>1 DEF WorkerSteps
    <3>4. t = job'[a].task /\ l = job'[a].lease
      BY <1>2, <2>1
    <3>5. JobInv(a)' /\ Running(a)' = Running(a) /\ LeftBehind(a)' \subseteq LeftBehind(a)
      BY <1>1, <1>2, <1>5, <2>1, <2>2, <3>3, <3>4, GoesOn
    <3>6. CountInv(a)'
      <4>1. shown[a].processed \in Nat /\ Running(a) \in 0..1 /\ shown'[a].processed = shown[a].processed
        BY <2>1, OneWorker, RunOver
      <4>2. shown'[a].processed + Running(a)' <= shown[a].processed + Running(a)
        BY <3>5, <4>1
      <4>3. \/ DoneBy(a)' = DoneBy(a) /\ shown'[a].accepted = shown[a].accepted
            \/ /\ t \notin DoneBy(a) /\ DoneBy(a)' = DoneBy(a) \cup {t}
               /\ shown'[a].accepted = shown[a].accepted /\ lost'[a] = lost[a] + 1
        BY <1>5, <2>1, <2>2, <3>1
      <4> QED
        BY <1>1, <1>5, <2>2, <3>2, <4>2, <4>3, CountStep
    <3>7. LeftInv(a)'
      BY <1>1, <3>1, <3>2, <3>5, LeftStep
    <3>8. LeaseInv(a)'
      BY <2>1, RunOver
    <3> QED
      BY <3>5, <3>6, <3>7, <3>8 DEF AgentInv
  <2>3. CASE UNCHANGED vars /\ (Loses(a) \/ NothingLost)
    <3>1. lost'[a] >= lost[a]
      BY <1>3, <2>3, OwnParts
    <3> QED
      BY <1>1, <2>1, <2>3, <3>1, Stuck
  <2> QED
    BY <1>2, <1>8, <2>2, <2>3 DEF SubmitFailed
<1> QED
  BY <1>7, <1>8 DEF SubmitJob

\* What a release of its lease leaves to the worker.
LEMMA OwnRelease ==
  ASSUME LedgerInv, NEW a \in Agents, JobInv(a), Working(a), NEW t \in Tasks, NEW l \in Nat,
         t = job[a].task, l = job[a].lease, Release(t, a, l)
  PROVE  /\ DoneBy(a)' = DoneBy(a) /\ ClaimsOf(a)' = ClaimsOf(a)
         /\ LeftBehind(a)' \subseteq LeftBehind(a)
         /\ clock' = clock /\ Granted(t, a, l)'
         /\ task'[t].claimedBy = None /\ task'[t].lease = NoLease
         /\ \A u \in Tasks \ {t} : Untouched(a, u)
<1>1. Granted(t, a, l)
  BY DEF JobInv
<1>2. /\ clock' = clock /\ task'[t].claimedBy = None /\ task'[t].lease = NoLease
      /\ \A k : Granted(t, a, k)' <=> Granted(t, a, k)
      /\ a \in AcceptedAgents(t)' <=> a \in AcceptedAgents(t)
      /\ \A u \in Tasks \ {t} : Untouched(a, u)
  BY ReleaseEffect
<1>3. DoneBy(a)' = DoneBy(a) /\ ClaimsOf(a)' = ClaimsOf(a)
  BY <1>2, OwnSets
<1>4. LeftBehind(a)' \subseteq LeftBehind(a)
  BY <1>2, OwnLeft, NoneAssumption
<1>5. Granted(t, a, l)'
  BY <1>1, <1>2
<1> QED
  BY <1>2, <1>3, <1>4, <1>5

\* A release that fails costs a fault, unless the queue refused it.
LEMMA ReleaseCost ==
  ASSUME WorkerTypeOK, NEW a \in Agents, ReleaseFails(a)
  PROVE  lost'[a] >= lost[a]
<1>1. lost[a] \in Nat /\ (Loses(a) => lost'[a] = lost[a] + 1) /\ (NothingLost => lost'[a] = lost[a])
  BY OneWorker, OwnParts
<1>2. Loses(a) \/ NothingLost
  BY DEF ReleaseFails
<1> QED
  BY <1>1, <1>2

\* The lease is released and the run reported.
LEMMA OwnReleased ==
  ASSUME LedgerInv, WorkerTypeOK, WorkerTypeOK', NEW a \in Agents, AgentInv(a), Working(a),
         Release(job[a].task, a, job[a].lease), Tells(a, FALSE)
  PROVE  AgentInv(a)'
<1>1. JobInv(a) /\ CountInv(a) /\ LeftInv(a)
  BY DEF AgentInv
<1>2. /\ DoneBy(a)' = DoneBy(a) /\ ClaimsOf(a)' = ClaimsOf(a)
      /\ LeftBehind(a)' \subseteq LeftBehind(a)
  <2>1. PICK t \in Tasks, l \in Nat : t = job[a].task /\ l = job[a].lease
    BY <1>1 DEF JobInv
  <2> QED
    BY <1>1, <2>1, OwnRelease
<1>3. JobInv(a)' /\ CountInv(a)' /\ LeaseInv(a)' /\ ~Lapsing(a)' /\ lost'[a] >= lost[a]
  BY <1>1, <1>2, Told
<1>4. LeftInv(a)'
  BY <1>1, <1>2, <1>3, LeftStep
<1> QED
  BY <1>3, <1>4 DEF AgentInv

\* The release after the last repair.
LEMMA OwnGiveBackSpent ==
  ASSUME LedgerInv, WorkerTypeOK, WorkerTypeOK', NEW a \in Agents, AgentInv(a), GiveBackSpent(a)
  PROVE  AgentInv(a)'
<1>1. Working(a) /\ JobInv(a) /\ LeaseInv(a) /\ CountInv(a) /\ LeftInv(a) /\ lost[a] \in Nat
  BY OneWorker DEF GiveBackSpent, AgentInv, Working
<1>2. CASE Release(job[a].task, a, job[a].lease) /\ Tells(a, FALSE)
  BY <1>1, <1>2, OwnReleased
<1>3. CASE ReleaseFails(a) /\ Turns(a, "give back") /\ UNCHANGED <<job, beatAt, shown>>
  <2>1. wpc'[a] = "give back" /\ "give back" \in WorkerSteps \ {"idle"}
    BY <1>3, OwnParts DEF WorkerSteps
  <2>2. lost'[a] >= lost[a]
    BY <1>3, ReleaseCost
  <2>3. CASE Release(job[a].task, a, job[a].lease)
    <3>1. PICK t \in Tasks, l \in Nat : t = job[a].task /\ l = job[a].lease
      BY <1>1 DEF JobInv
    <3>2. /\ DoneBy(a)' = DoneBy(a) /\ ClaimsOf(a)' = ClaimsOf(a)
          /\ clock' = clock /\ Granted(t, a, l)'
          /\ task'[t].claimedBy = None /\ task'[t].lease = NoLease
          /\ \A u \in Tasks \ {t} : Untouched(a, u)
      BY <1>1, <2>3, <3>1, OwnRelease
    <3>3. /\ JobInv(a)' /\ Running(a)' = Running(a) /\ (Lapsing(a)' => Lapsing(a))
          /\ LeftBehind(a)' \subseteq LeftBehind(a)
      BY <1>1, <1>3, <2>1, <3>1, <3>2, GoesOn
    <3>4. CountInv(a)'
      BY <1>1, <1>3, <2>2, <3>2, <3>3, CountStill
    <3>5. LeftInv(a)'
      BY <1>1, <2>2, <3>3, LeftStep
    <3>6. LeaseInv(a)'
      BY <2>1, RunOver
    <3> QED
      BY <3>3, <3>4, <3>5, <3>6 DEF AgentInv
  <2>4. CASE UNCHANGED vars
    BY <1>1, <1>3, <2>1, <2>2, <2>4, Stuck
  <2> QED
    BY <1>3, <2>3, <2>4 DEF ReleaseFails
<1> QED
  BY <1>2, <1>3 DEF GiveBackSpent

\* A worker that forgets its task leaves one lease behind at most, and pays for it.
LEMMA Forgotten ==
  ASSUME LedgerInv, WorkerTypeOK, WorkerTypeOK', NEW a \in Agents, JobInv(a), LeftInv(a), UNCHANGED vars,
         wpc'[a] = "idle", lost'[a] = lost[a] + 1
  PROVE  LeftInv(a)'
<1>1. ~Lapsing(a)' /\ \A u \in Tasks : Untouched(a, u)
  BY RunOver, QueueStill
<1>2. lost'[a] >= lost[a]
  BY OneWorker
<1>3. CASE Working(a)
  <2>1. PICK t \in Tasks : t = job[a].task
    BY <1>3 DEF JobInv
  <2>2. LeftBehind(a)' \subseteq LeftBehind(a) \cup {t}
    BY <1>1, <2>1, OwnLeft
  <2> QED
    BY <1>1, <1>2, <2>2, LeftStep
<1>4. CASE ~Working(a)
  <2>1. LeftBehind(a)' \subseteq LeftBehind(a)
    BY <1>4 DEF LeftBehind, WorkedOn, vars
  <2> QED
    BY <1>1, <1>2, <2>1, LeftStep
<1> QED
  BY <1>3, <1>4

\* The error path gives the lease back, if it can.
LEMMA OwnGiveBack ==
  ASSUME LedgerInv, WorkerTypeOK, WorkerTypeOK', NEW a \in Agents, AgentInv(a), GiveBack(a)
  PROVE  AgentInv(a)'
<1>1. Working(a) /\ JobInv(a) /\ LeaseInv(a) /\ CountInv(a) /\ LeftInv(a) /\ lost[a] \in Nat
  BY OneWorker DEF GiveBack, AgentInv, Working
<1>2. PICK t \in Tasks, l \in Nat : t = job[a].task /\ l = job[a].lease
  BY <1>1 DEF JobInv
<1>3. CASE Release(job[a].task, a, job[a].lease) /\ Tells(a, FALSE)
  BY <1>1, <1>3, OwnReleased
<1>4. CASE ReleaseFails(a) /\ Reports(a, FALSE, TRUE)
  <2>1. /\ wpc'[a] = "idle" /\ shown'[a].processed = shown[a].processed + 1
        /\ shown'[a].accepted = shown[a].accepted + 0
    BY <1>4, OwnParts DEF AcceptedDelta
  <2>2. shown[a].processed \in Nat /\ shown[a].accepted \in Nat /\ Running(a) = 1
    BY <1>1, OneWorker DEF Running
  <2>3. lost'[a] >= lost[a]
    BY <1>4, ReleaseCost
  <2>4. JobInv(a)' /\ LeaseInv(a)' /\ ~Lapsing(a)' /\ Running(a)' = 0
    BY <2>1, RunOver
  <2>5. DoneBy(a)' = DoneBy(a) /\ ClaimsOf(a)' = ClaimsOf(a)
    BY <1>1, <1>2, <1>4, OwnRelease, QueueStill DEF ReleaseFails
  <2>6. CountInv(a)'
    <3>1. shown'[a].accepted = shown[a].accepted
      BY <2>1, <2>2
    <3>2. shown'[a].processed + Running(a)' <= shown[a].processed + Running(a)
      BY <2>1, <2>2, <2>4
    <3> QED
      BY <1>1, <2>3, <2>5, <3>1, <3>2, CountStep
  <2>7. LeftInv(a)'
    <3>1. CASE Release(job[a].task, a, job[a].lease)
      <4>1. LeftBehind(a)' \subseteq LeftBehind(a)
        BY <1>1, <1>2, <3>1, OwnRelease
      <4> QED
        BY <1>1, <2>3, <2>4, <4>1, LeftStep
    <3>2. CASE UNCHANGED vars /\ Loses(a)
      BY <1>1, <2>1, <3>2, OwnParts, Forgotten
    <3>3. ASSUME UNCHANGED vars, NEW now \in CapturedNow, ~ActiveLease(t, a, l, now) PROVE LeftInv(a)'
      <4>1. \A u \in Tasks : Untouched(a, u)
        BY <3>3, QueueStill
      <4>2. LeftBehind(a)' \subseteq LeftBehind(a) \cup {t}
        BY <1>2, <4>1, OwnLeft
      <4>3. CASE task[t].lease = l
        <5>1. Lapsing(a)
          BY <1>1, <1>2, <3>3, <4>3, RefusedIsLapsing
        <5> QED
          BY <1>1, <2>3, <2>4, <4>2, <5>1, LeftStep
      <4>4. CASE task[t].lease # l
        <5>1. ~WorkedOn(t, a)
          BY <1>2, <4>4 DEF WorkedOn
        <5>2. task' = task
          BY <3>3 DEF vars
        <5>3. t \in LeftBehind(a)' => t \in LeftBehind(a)
          BY <5>1, <5>2 DEF LeftBehind
        <5>4. LeftBehind(a)' \subseteq LeftBehind(a)
          BY <4>2, <5>3
        <5> QED
          BY <1>1, <2>3, <2>4, <5>4, LeftStep
      <4> QED
        BY <4>3, <4>4
    <3> QED
      BY <1>2, <1>4, <3>1, <3>2, <3>3 DEF ReleaseFails
  <2> QED
    BY <2>4, <2>6, <2>7 DEF AgentInv
<1> QED
  BY <1>3, <1>4 DEF GiveBack

\* A killed worker forgets its task.
LEMMA OwnKilled ==
  ASSUME LedgerInv, WorkerTypeOK, WorkerTypeOK', NEW a \in Agents, AgentInv(a), Killed(a)
  PROVE  AgentInv(a)'
<1>1. JobInv(a) /\ CountInv(a) /\ LeftInv(a) /\ lost[a] \in Nat /\ UNCHANGED vars /\ shown' = shown
  BY OneWorker DEF Killed, AgentInv
<1>2. wpc'[a] = "idle" /\ lost'[a] = lost[a] + 1
  BY OwnParts DEF Killed
<1>3. JobInv(a)' /\ LeaseInv(a)' /\ Running(a)' = 0
  BY <1>2, RunOver
<1>4. CountInv(a)'
  <2>1. lost'[a] >= lost[a]
    BY <1>1, <1>2
  <2>2. DoneBy(a)' = DoneBy(a) /\ ClaimsOf(a)' = ClaimsOf(a)
    BY <1>1, QueueStill
  <2> QED
    BY <1>1, <1>3, <2>1, <2>2, CountStill
<1>5. LeftInv(a)'
  BY <1>1, <1>2, Forgotten
<1> QED
  BY <1>3, <1>4, <1>5 DEF AgentInv

\* A turn of the heartbeat thread.
LEMMA OwnBeat ==
  ASSUME LedgerInv, WorkerTypeOK, WorkerTypeOK', NEW a \in Agents, AgentInv(a), Beat(a)
  PROVE  AgentInv(a)'
<1>1. /\ Working(a) /\ JobInv(a) /\ LeaseInv(a) /\ CountInv(a) /\ LeftInv(a)
      /\ wpc' = wpc /\ job' = job
  BY DEF Beat, AgentInv
<1>2. PICK t \in Tasks, l \in Nat : t = job[a].task /\ l = job[a].lease /\ Granted(t, a, l)
  BY <1>1 DEF JobInv
<1>3. t = job'[a].task /\ l = job'[a].lease /\ Working(a)' /\ Running(a)' = Running(a)
  BY <1>1, <1>2 DEF Working, Running
<1>4. beatAt'[a] = clock
  BY DEF Beat, WorkerTypeOK
<1>5. /\ lost[a] \in Nat /\ beatAt[a] \in Nat /\ shown[a].seen \in Nat /\ shown[a] \in ShownRow
      /\ clock \in Nat /\ Interval \in Nat /\ MaxDelay \in Nat /\ task[t] \in TaskRow
  BY OneRow, OneWorker, IntervalShort
<1>6. (Loses(a) => lost'[a] = lost[a] + 1) /\ (NothingLost => lost'[a] = lost[a])
  BY OwnParts
<1>7. ASSUME clock' = clock, Granted(t, a, l)' PROVE JobInv(a)'
  <2>1. clock <= clock + Interval /\ clock <= clock
    BY <1>5
  <2> QED
    BY <1>1, <1>2, <1>3, <1>4, <1>7, <2>1 DEF JobInv
<1>8. ASSUME NEW now \in CapturedNow, NEW s \in LeaseTimes, ActiveLease(t, a, l, now),
             task' = [task EXCEPT ![t].leaseExpires = now + s],
             shown' = [shown EXCEPT ![a] = SeenBy(@, now)],
             UNCHANGED <<clock, leases, evidence>>, NothingLost \/ Loses(a)
      PROVE  AgentInv(a)'
  <2>1. now \in Nat /\ now + MaxDelay >= clock /\ s \in Nat /\ s > Interval + MaxDelay
    <3>1. TypeOK
      BY DEF LedgerInv
    <3> QED
      BY <1>5, <3>1, CapturedIsNat, IntervalShort DEF CapturedNow
  <2>2. /\ task'[t].claimedBy = a /\ task'[t].lease = l /\ task'[t].leaseExpires = now + s
        /\ a \in AcceptedAgents(t)' <=> a \in AcceptedAgents(t)
        /\ \A k : Granted(t, a, k)' <=> Granted(t, a, k)
        /\ \A u \in Tasks \ {t} : Untouched(a, u)
    <3>1. leases' = leases /\ evidence' = evidence
      BY <1>8
    <3>2. /\ task'[t].claimedBy = a /\ task'[t].lease = l
          /\ task'[t].leaseExpires = now + s
      <4>1. task \in [Tasks -> TaskRow] /\ task[t].claimedBy = a /\ task[t].lease = l
        BY <1>8 DEF LedgerInv, TypeOK, ActiveLease
      <4>2. task'[t] = [task[t] EXCEPT !.leaseExpires = now + s]
        BY <1>8, <4>1
      <4> QED
        BY <1>5, <4>1, <4>2 DEF TaskRow
    <3>3. a \in AcceptedAgents(t)' <=> a \in AcceptedAgents(t)
      BY <1>8, <2>1, <3>1, RenewalEffect
    <3>4. \A k : Granted(t, a, k)' <=> Granted(t, a, k)
      BY <1>8, <2>1, <3>1, RenewalEffect
    <3>5. \A u \in Tasks \ {t} : Untouched(a, u)
      BY <1>8, <2>1, <3>1, RenewalEffect
    <3> QED
      BY <3>2, <3>3, <3>4, <3>5
  <2>3. JobInv(a)'
    BY <1>2, <1>7, <1>8, <2>2
  <2>4. /\ shown'[a].seen + MaxDelay >= clock
        /\ shown'[a].accepted = shown[a].accepted /\ shown'[a].processed = shown[a].processed
    <3>1. shown'[a] = SeenBy(shown[a], now)
      BY <1>8 DEF WorkerTypeOK
    <3>2. CASE shown[a].seen < now
      <4>1. shown'[a] = [shown[a] EXCEPT !.seen = now]
        BY <3>1, <3>2 DEF SeenBy
      <4>2. /\ shown'[a].seen = now
            /\ shown'[a].accepted = shown[a].accepted /\ shown'[a].processed = shown[a].processed
        BY <1>5, <4>1 DEF ShownRow
      <4> QED
        BY <2>1, <4>2
    <3>3. CASE ~(shown[a].seen < now)
      <4>1. shown'[a] = shown[a]
        BY <3>1, <3>3 DEF SeenBy
      <4> QED
        BY <1>5, <2>1, <3>3, <4>1
    <3> QED
      BY <3>2, <3>3
  <2>5. now + s > clock + Interval /\ ~(now + s <= clock + Interval)
    BY <1>5, <2>1
  <2>6. LeaseInv(a)'
    BY <1>3, <1>4, <2>2, <2>4, <2>5 DEF LeaseInv, Kept
  <2>7. ~Lapsing(a)'
    BY <1>3, <1>4, <2>2, <2>5 DEF Lapsing
  <2>8. lost'[a] >= lost[a]
    BY <1>5, <1>6, <1>8
  <2>9. CountInv(a)'
    <3>1. DoneBy(a)' = DoneBy(a) /\ ClaimsOf(a)' = ClaimsOf(a)
      BY <2>2, OwnSets
    <3> QED
      BY <1>1, <1>3, <2>4, <2>8, <3>1, CountStill
  <2>10. LeftInv(a)'
    <3>1. WorkedOn(t, a)'
      BY <1>3, <2>2 DEF WorkedOn
    <3>2. LeftBehind(a)' \subseteq LeftBehind(a)
      BY <1>2, <2>2, <3>1, OwnLeft
    <3> QED
      BY <1>1, <2>7, <2>8, <3>2, LeftStep
  <2> QED
    BY <2>3, <2>6, <2>9, <2>10 DEF AgentInv
<1>9. ASSUME UNCHANGED <<vars, shown>>, NEW now \in CapturedNow,
             Loses(a) \/ (NothingLost /\ ~ActiveLease(t, a, l, now))
      PROVE  AgentInv(a)'
  <2>1. clock' = clock /\ task' = task /\ shown' = shown /\ Granted(t, a, l)' /\ UNCHANGED vars
    BY <1>2, <1>9 DEF vars, Granted
  <2>2. JobInv(a)'
    BY <1>7, <2>1
  <2>3. lost'[a] >= lost[a]
    BY <1>5, <1>6, <1>9
  <2>4. CountInv(a)'
    BY <1>1, <1>3, <2>1, <2>3, QueueStill, CountStill
  <2>5. LeftBehind(a)' \subseteq LeftBehind(a)
    BY <1>1, <2>1 DEF LeftBehind, WorkedOn, Working
  <2>6. CASE Loses(a)
    <3>1. lost'[a] = lost[a] + 1 /\ lost'[a] # 0
      BY <1>5, <1>6, <2>6
    <3>2. LeaseInv(a)'
      BY <3>1 DEF LeaseInv, AtWork
    <3>3. LeftInv(a)'
      BY <1>1, <2>3, <2>5, <3>1, LeftStep
    <3> QED
      BY <2>2, <2>4, <3>2, <3>3 DEF AgentInv
  <2>7. CASE NothingLost /\ ~ActiveLease(t, a, l, now)
    <3>1. task[t].lease = l => Lapsing(a)
      BY <1>1, <1>2, <2>7, RefusedIsLapsing
    <3>2. Lapsing(a)' => Lapsing(a)
      BY <1>2, <1>3, <2>1, <3>1 DEF Lapsing
    <3>3. LeftInv(a)'
      BY <1>1, <2>3, <2>5, <3>2, LeftStep
    <3>4. LeaseInv(a)'
      <4>1. ~Kept(a)
        <5>1. task[t].leaseExpires \in Nat
          BY <1>5 DEF TaskRow
        <5>2. task[t].lease = l => task[t].leaseExpires <= beatAt[a] + Interval
          BY <1>2, <3>1 DEF Lapsing
        <5>3. task[t].lease = l => ~(task[t].leaseExpires > beatAt[a] + Interval)
          BY <1>5, <5>1, <5>2
        <5> QED
          BY <1>2, <5>3 DEF Kept
      <4>2. AtWork(a)' => AtWork(a)
        BY <1>1, <1>6, <2>7 DEF AtWork
      <4>3. Dropped(a) => Dropped(a)'
        BY <1>1, <2>1 DEF Dropped, DeadlineMissed
      <4> QED
        BY <1>1, <4>1, <4>2, <4>3 DEF LeaseInv
    <3> QED
      BY <2>2, <2>4, <3>3, <3>4 DEF AgentInv
  <2> QED
    BY <1>9, <2>6, <2>7
<1> QED
  BY <1>2, <1>8, <1>9 DEF Beat

-----------------------------------------------------------------------------
(* The theorems.                                                           *)

\* A step of worker a keeps what is true of it.
LEMMA OwnStep ==
  ASSUME LedgerInv, QuorumInv, WorkerTypeOK, WorkerTypeOK', NEW a \in Agents, AgentInv(a), WorkerStep(a)
  PROVE  AgentInv(a)'
BY OwnClaim, OwnResearch, OwnSubmit, OwnGiveBackSpent, OwnGiveBack, OwnBeat, OwnKilled DEF WorkerStep

\* The steps of the queue that are no worker's keep what is true of each.
LEMMA QuietStep ==
  ASSUME LedgerInv, WorkerInv, UNCHANGED workerVars,
         \/ Tick /\ \A a \in Agents : Working(a) => clock < beatAt[a] + Interval
         \/ Maintain \/ (\E t \in Tasks : Create(t)) \/ UNCHANGED vars
  PROVE  WorkerInv'
<1>1. /\ \A x \in Agents, u \in Tasks : Untouched(x, u)
      /\ \/ clock' = clock
         \/ clock' = clock + 1 /\ \A x \in Agents : Working(x) => clock < beatAt[x] + Interval
  BY QuietEffect DEF Tick, Maintain, Create, vars
<1>2. WorkerTypeOK'
  BY DEF WorkerInv, workerVars, WorkerTypeOK
<1>3. ASSUME NEW x \in Agents PROVE AgentInv(x)'
  <2>1. Same(x)
    BY DEF Same, workerVars
  <2>2. WorkerTypeOK /\ AgentInv(x)
    BY DEF WorkerInv
  <2> QED
    BY <1>1, <2>1, <2>2, Bystander
<1> QED
  BY <1>2, <1>3 DEF WorkerInv

\* Every step keeps what is true of all.
LEMMA WorkerNextInv ==
  ASSUME LedgerInv, LedgerInv', QuorumInv, WorkerInv, [WorkerNext]_allVars
  PROVE  WorkerInv'
<1>1. ASSUME NEW a \in Agents, WorkerStep(a) PROVE WorkerInv'
  <2>1. WorkerTypeOK /\ \A x \in Agents : AgentInv(x) /\ JobInv(x)
    BY DEF WorkerInv, AgentInv
  <2>2. WorkerTypeOK'
    BY <1>1, <2>1, WorkerTypeNext
  <2>3. AgentInv(a)'
    BY <1>1, <2>1, <2>2, OwnStep
  <2>4. \A x \in Agents : x # a => AgentInv(x)'
    BY <1>1, <2>1, OthersKeep
  <2> QED
    BY <2>2, <2>3, <2>4 DEF WorkerInv
<1>2. CASE WorkerTick \/ (Maintain /\ UNCHANGED workerVars) \/ (\E t \in Tasks : Create(t) /\ UNCHANGED workerVars)
  BY <1>2, QuietStep DEF WorkerTick
<1>3. CASE UNCHANGED allVars
  BY <1>3, QuietStep DEF allVars
<1> QED
  BY <1>1, <1>2, <1>3 DEF WorkerNext

\* At the start no worker has claimed anything.
LEMMA WorkerInitInv ==
  ASSUME WorkerInit
  PROVE  WorkerInv
<1>1. WorkerTypeOK
  <2>1. "idle" \in WorkerSteps /\ NoJob \in JobRecord /\ 0 \in 0..MaxClock /\ 0 \in 0..(PauseAfter - 1) /\ 0 \in 0..MaxLost
    <3>1. MaxClock \in Nat /\ MaxLost \in Nat /\ PauseAfter \in Nat \ {0}
      BY BoundAssumption, WorkersAssumption
    <3>2. 0 \in 0..MaxClock /\ 0 \in 0..(PauseAfter - 1) /\ 0 \in 0..MaxLost
      BY <3>1
    <3> QED
      BY <3>2, NoJobTyped DEF WorkerSteps
  <2>2. [seen |-> 0, processed |-> 0, accepted |-> 0] \in ShownRow
    BY DEF ShownRow
  <2> QED
    BY <2>1, <2>2 DEF WorkerInit, WorkerTypeOK
<1>2. ASSUME NEW x \in Agents PROVE AgentInv(x)
  <2>1. ~Working(x)
    BY DEF WorkerInit, Working
  <2>2. DoneBy(x) = {}
    BY DEF WorkerInit, Init, DoneBy, AcceptedAgents, Accepted
  <2>3. ClaimsOf(x) = {}
    <3>1. \A c \in Tasks \X (1..20) : c[1] \in Tasks
      OBVIOUS
    <3>2. \A t \in Tasks : leases[t] = <<>> /\ DOMAIN leases[t] = {}
      BY DEF WorkerInit, Init
    <3> QED
      BY <3>1, <3>2 DEF ClaimsOf, Granted
  <2>4. LeftBehind(x) = {}
    BY NoneAssumption DEF WorkerInit, Init, LeftBehind, AbsentTask
  <2>5. JobInv(x) /\ LeaseInv(x)
    BY <2>1 DEF JobInv, LeaseInv, AtWork, Working
  <2>6. /\ shown[x].processed = 0 /\ shown[x].accepted = 0 /\ lost[x] = 0
        /\ Running(x) = 0 /\ Reserved(x) = 0
    BY <2>1 DEF WorkerInit, Running, Reserved, Lapsing
  <2>7. CountInv(x) /\ LeftInv(x)
    BY <2>2, <2>3, <2>4, <2>6, FS_EmptySet DEF CountInv, LeftInv
  <2> QED
    BY <2>5, <2>7 DEF AgentInv
<1> QED
  BY <1>1, <1>2 DEF WorkerInv

\* The inductive invariant behind the theorems that follow, with that of the queue: the
\* workers do nothing to the queue that its own next-state relation does not allow.
THEOREM WorkerCorrect == WorkerSpec => [](LedgerInv /\ QuorumInv /\ WorkerInv)
<1>1. WorkerInit => LedgerInv /\ QuorumInv /\ WorkerInv
  BY LedgerInit, QuorumInit, WorkerInitInv DEF WorkerInit
<1>2. (LedgerInv /\ QuorumInv /\ WorkerInv) /\ [WorkerNext]_allVars => (LedgerInv /\ QuorumInv /\ WorkerInv)'
  <2> SUFFICES ASSUME LedgerInv, QuorumInv, WorkerInv, [WorkerNext]_allVars
               PROVE  LedgerInv' /\ QuorumInv' /\ WorkerInv'
    OBVIOUS
  <2>1. [Next]_vars
    BY WorkersStepTheQueue
  <2>2. LedgerInv' /\ QuorumInv'
    BY <2>1, LedgerNext, QuorumNext
  <2>3. WorkerInv'
    BY <2>2, WorkerNextInv
  <2> QED
    BY <2>2, <2>3
<1> QED
  BY <1>1, <1>2, PTL DEF WorkerSpec

\* The workers use the queue as AgentTaskQueue says agents do, lost answers and kills
\* included: whatever is proved of the queue holds of the queue they share.
THEOREM WorkersUseTheQueue == WorkerSpec => Spec
<1>1. WorkerInit => Init
  BY DEF WorkerInit
<1>2. (LedgerInv /\ QuorumInv /\ WorkerInv) /\ [WorkerNext]_allVars => [Next]_vars
  BY WorkersStepTheQueue
<1> QED
  BY <1>1, <1>2, WorkerCorrect, PTL DEF WorkerSpec, Spec

\* A worker whose heartbeats are answered keeps the lease it works under until its task
\* misses its deadline, and is shown online all the while (AGENT-02), whatever interval
\* is configured; and it leaves no lease behind but for a lost answer or a kill.
THEOREM WorkersKeepTheirLease == WorkerSpec => []WorkHolds
<1>1. LedgerInv /\ WorkerInv => WorkHolds
  <2> SUFFICES ASSUME LedgerInv, WorkerInv, NEW a \in Agents
               PROVE  /\ AtWork(a) => LeaseLives(a) \/ DeadlineMissed(job[a].task)
                      /\ AtWork(a) /\ LeaseLives(a) => clock - shown[a].seen <= OnlineTime
                      /\ Cardinality(LeftBehind(a)) <= lost[a]
    BY DEF WorkHolds, WorkKeepsLease, WorkingIsOnline, HeldIsWorkedOn, LeftBehind
  <2>1. WorkerTypeOK /\ JobInv(a) /\ LeaseInv(a) /\ LeftInv(a)
    BY DEF WorkerInv, AgentInv
  <2>2. /\ clock \in Nat /\ beatAt[a] \in Nat /\ Interval \in Nat /\ shown[a].seen \in Nat /\ lost[a] \in Nat
        /\ MaxDelay \in Nat /\ OnlineTime \in Nat /\ OnlineTime >= Interval + MaxDelay
    <3>1. clock \in Nat
      BY BoundAssumption DEF LedgerInv, TypeOK
    <3> QED
      BY <2>1, <3>1, OneWorker, IntervalShort
  <2>3. Cardinality(LeftBehind(a)) <= lost[a]
    <3>1. IsFiniteSet(LeftBehind(a)) /\ Cardinality(LeftBehind(a)) + Reserved(a) <= lost[a]
      BY <2>1 DEF LeftInv
    <3>2. Cardinality(LeftBehind(a)) \in Nat /\ Reserved(a) \in 0..1
      BY <3>1, FS_CardinalityType DEF Reserved
    <3> QED
      BY <2>2, <3>1, <3>2
  <2>4. ASSUME AtWork(a)
        PROVE  /\ LeaseLives(a) \/ DeadlineMissed(job[a].task)
               /\ LeaseLives(a) => clock - shown[a].seen <= OnlineTime
    <3>1. Working(a) /\ clock <= beatAt[a] + Interval /\ job[a].task \in Tasks
      BY <2>1, <2>4 DEF AtWork, JobInv, Working
    <3>2. CASE Kept(a)
      <4>1. task[job[a].task].leaseExpires \in Nat
        BY <3>1, OneRow DEF TaskRow
      <4>2. task[job[a].task].leaseExpires > clock
        BY <2>2, <3>1, <3>2, <4>1 DEF Kept
      <4>3. clock - shown[a].seen <= OnlineTime
        <5>1. shown[a].seen + MaxDelay >= beatAt[a]
          BY <3>2 DEF Kept
        <5> QED
          BY <2>2, <3>1, <5>1
      <4> QED
        BY <3>2, <4>2, <4>3 DEF Kept, LeaseLives
    <3>3. CASE Dropped(a)
      BY <3>3 DEF Dropped, LeaseLives
    <3> QED
      BY <2>1, <2>4, <3>2, <3>3 DEF LeaseInv
  <2> QED
    BY <2>3, <2>4
<1> QED
  BY <1>1, WorkerCorrect, PTL

\* What a worker reports of itself is never more than the queue recorded, and falls
\* short of it by the answers that were lost, at most.
THEOREM CountsAreTrue == WorkerSpec => []CountsHold
<1>1. LedgerInv /\ WorkerInv => CountsHold
  <2> SUFFICES ASSUME LedgerInv, WorkerInv PROVE CountsHonest
    BY DEF CountsHold, WorkerInv
  <2>1. ASSUME NEW a \in Agents
        PROVE  /\ shown[a].accepted <= Cardinality(DoneBy(a))
               /\ Cardinality(DoneBy(a)) <= shown[a].accepted + lost[a]
               /\ shown[a].processed <= Cardinality(ClaimsOf(a))
    <3>1. WorkerTypeOK /\ CountInv(a)
      BY DEF WorkerInv, AgentInv
    <3>2. /\ shown[a].processed \in Nat /\ Running(a) \in 0..1
          /\ IsFiniteSet(ClaimsOf(a)) /\ shown[a].processed + Running(a) <= Cardinality(ClaimsOf(a))
      BY <3>1, OneWorker, RunOver DEF CountInv
    <3>3. Cardinality(ClaimsOf(a)) \in Nat
      BY <3>2, FS_CardinalityType
    <3>4. shown[a].processed <= Cardinality(ClaimsOf(a))
      BY <3>2, <3>3
    <3> QED
      BY <3>1, <3>4 DEF CountInv
  <2> QED
    BY <2>1 DEF CountsHonest, DoneBy, ClaimsOf
<1> QED
  BY <1>1, WorkerCorrect, PTL
=============================================================================
