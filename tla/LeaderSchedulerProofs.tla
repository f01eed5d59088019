----------------------- MODULE LeaderSchedulerProofs -----------------------
(***************************************************************************)
(* Theorems about LeaderScheduler, for every number of replicas, jobs,     *)
(* threads, restarts and faults.                                           *)
(***************************************************************************)
EXTENDS LeaderScheduler, FiniteSetTheorems, SequenceTheorems, TLAPS

\* The steps that touch neither the lock nor a connection nor a phase.
JobStep(p) ==
  \/ ThreadTakes(p) \/ WatchWakes(p) \/ Dispatch(p)
  \/ \E j \in Jobs : FallsDue(p, j) \/ TimesOut(p, j)
  \/ \E s \in 1..Threads : JobEnds(p, s)

\* The types that the lock's invariant rests on.
LockTyped == lock \in Procs \cup {None} /\ conn \in [Procs -> BOOLEAN]

\* Jobs run without any effect on leadership (_loop, _run_task).
LEMMA JobsLeaveTheLock ==
  ASSUME NEW p \in Procs, JobStep(p)
  PROVE  UNCHANGED <<lock, cut, conn>>
<1>1. CASE ThreadTakes(p)
  BY <1>1 DEF ThreadTakes, lockVars
<1>2. CASE WatchWakes(p)
  BY <1>2 DEF WatchWakes, lockVars
<1>3. CASE Dispatch(p)
  BY <1>3 DEF Dispatch, lockVars
<1>4. ASSUME NEW j \in Jobs, FallsDue(p, j) \/ TimesOut(p, j)
      PROVE  UNCHANGED <<lock, cut, conn>>
  BY <1>4 DEF FallsDue, TimesOut, lockVars
<1>5. ASSUME NEW s \in 1..Threads, JobEnds(p, s)
      PROVE  UNCHANGED <<lock, cut, conn>>
  BY <1>5 DEF JobEnds, lockVars
<1> QED
  BY <1>1, <1>2, <1>3, <1>4, <1>5 DEF JobStep

\* A live session never belongs to a replica that takes itself for a follower:
\* every path that gives up a connection either closes its session or has seen
\* it dead (try_acquire_leader, check_leadership, release_leader).
THEOREM LockIsNeverForgotten == Spec => []NoForgottenLock
<1> DEFINE Inv == LockTyped /\ NoForgottenLock
<1>1. Init => Inv
  BY DEF Init, LockTyped, NoForgottenLock
<1>2. Inv /\ [Next]_vars => Inv'
  <2> SUFFICES ASSUME LockTyped, NoForgottenLock, [Next]_vars
               PROVE  LockTyped' /\ NoForgottenLock'
    OBVIOUS
  <2> USE ConstantsAssumption DEF LockTyped, NoForgottenLock, IsLeader
  <2>1. CASE Cut
    BY <2>1 DEF Cut
  <2>2. CASE ServerDrops
    BY <2>2 DEF ServerDrops
  <2>3. CASE UNCHANGED vars
    BY <2>3 DEF vars
  <2>4. ASSUME NEW p \in Procs, ProcStep(p) PROVE LockTyped' /\ NoForgottenLock'
    <3>1. CASE JobStep(p)
      BY <3>1, JobsLeaveTheLock
    <3>2. CASE Boot(p)
      <4>1. CASE Elected(p) /\ conn' = [conn EXCEPT ![p] = TRUE]
        BY <4>1 DEF Elected
      <4>2. CASE NotElected /\ UNCHANGED conn
        BY <4>2 DEF NotElected
      <4> QED
        BY <3>2, <4>1, <4>2 DEF Boot
    <3>3. CASE StartRuntime(p)
      BY <3>3 DEF StartRuntime, lockVars
    <3>4. CASE Shutdown(p)
      BY <3>4 DEF Shutdown, LockAfterClose, SessionAlive
    <3>5. CASE Exit(p)
      BY <3>5 DEF Exit, Gone, LockAfterClose, SessionAlive
    <3>6. CASE Kill(p)
      BY <3>6 DEF Kill, Gone
    <3>7. CASE Probe(p)
      BY <3>7 DEF Probe, SessionAlive, lockVars
    <3>8. CASE TryAcquire(p)
      <4>1. CASE Elected(p) /\ conn' = [conn EXCEPT ![p] = TRUE]
        BY <4>1 DEF Elected
      <4>2. CASE NotElected /\ UNCHANGED conn
        BY <4>2 DEF NotElected
      <4> QED
        BY <3>8, <4>1, <4>2 DEF TryAcquire
    <3> QED
      BY <2>4, <3>1, <3>2, <3>3, <3>4, <3>5, <3>6, <3>7, <3>8 DEF ProcStep, JobStep
  <2> QED
    BY <2>1, <2>2, <2>3, <2>4 DEF Next
<1> QED
  BY <1>1, <1>2, PTL DEF Spec

-----------------------------------------------------------------------------
(* The pool.                                                               *)

Waits(q, w) == \E i \in DOMAIN q : q[i] = w
Works(t, w) == \E s \in 1..Threads : t[s] = w

\* The queue q and the threads t of a replica have everything once, and its flags r and the
\* stage g of its leadership check say what is there.
Consistent(q, t, r, g) ==
  /\ \A i, k \in DOMAIN q : q[i] = q[k] => i = k
  /\ \A i, k \in 1..Threads : t[i] = t[k] /\ t[i] # None => i = k
  /\ \A i \in DOMAIN q, k \in 1..Threads : q[i] # t[k]
  /\ \A j \in Jobs : j \in r <=> Waits(q, j) \/ Works(t, j)
  /\ g = "queued" <=> Waits(q, Election)
  /\ g \in {"probing", "trying"} <=> Works(t, Election)

PoolInv == \A p \in Procs : Consistent(queue[p], threads[p], running[p], stage[p])

\* The pool of one replica changes to another consistent one.
LEMMA OnePool ==
  ASSUME TypeOK, PoolInv, NEW p \in Procs,
         NEW q \in Seq(Work), NEW t \in [1..Threads -> Work \cup {None}],
         NEW r \in SUBSET Jobs, NEW g \in Stages, Consistent(q, t, r, g),
         queue' = [queue EXCEPT ![p] = q], threads' = [threads EXCEPT ![p] = t],
         running' = [running EXCEPT ![p] = r], stage' = [stage EXCEPT ![p] = g]
  PROVE  /\ PoolInv'
         /\ queue' \in [Procs -> Seq(Work)] /\ threads' \in [Procs -> [1..Threads -> Work \cup {None}]]
         /\ running' \in [Procs -> SUBSET Jobs] /\ stage' \in [Procs -> Stages]
<1>1. /\ queue' \in [Procs -> Seq(Work)] /\ threads' \in [Procs -> [1..Threads -> Work \cup {None}]]
      /\ running' \in [Procs -> SUBSET Jobs] /\ stage' \in [Procs -> Stages]
  BY DEF TypeOK
<1>2. ASSUME NEW o \in Procs
      PROVE  Consistent(queue'[o], threads'[o], running'[o], stage'[o])
  <2>1. CASE o = p
    <3>1. queue'[o] = q /\ threads'[o] = t /\ running'[o] = r /\ stage'[o] = g
      BY <2>1 DEF TypeOK
    <3> QED
      BY <3>1
  <2>2. CASE o # p
    <3>1. /\ queue'[o] = queue[o] /\ threads'[o] = threads[o] /\ running'[o] = running[o]
          /\ stage'[o] = stage[o]
      BY <2>2 DEF TypeOK
    <3> QED
      BY <3>1 DEF PoolInv
  <2> QED
    BY <2>1, <2>2
<1>3. PoolInv'
  BY <1>2 DEF PoolInv, Consistent, Waits, Works
<1> QED
  BY <1>1, <1>3

\* What a replica's pool is made of.
LEMMA PoolOf ==
  ASSUME TypeOK, PoolInv, NEW p \in Procs
  PROVE  /\ Consistent(queue[p], threads[p], running[p], stage[p])
         /\ queue[p] \in Seq(Work) /\ threads[p] \in [1..Threads -> Work \cup {None}]
         /\ running[p] \in SUBSET Jobs /\ stage[p] \in Stages
         /\ queue = [queue EXCEPT ![p] = queue[p]] /\ threads = [threads EXCEPT ![p] = threads[p]]
         /\ running = [running EXCEPT ![p] = running[p]] /\ stage = [stage EXCEPT ![p] = stage[p]]
BY DEF TypeOK, PoolInv

LEMMA WorkKinds ==
  /\ None \notin Work /\ Election \in Work /\ Jobs \subseteq Work
  /\ \A j \in Jobs : j # Election /\ j # None
  /\ IsFiniteSet(Jobs) /\ Threads \in Nat
BY ConstantsAssumption, ElectionAssumption DEF Work

\* SetToSeq lists a finite set, each element once.
LEMMA Listed ==
  ASSUME NEW S, IsFiniteSet(S)
  PROVE  /\ SetToSeq(S) \in Seq(S)
         /\ \A i, k \in DOMAIN SetToSeq(S) : SetToSeq(S)[i] = SetToSeq(S)[k] => i = k
         /\ \A x \in S : \E i \in DOMAIN SetToSeq(S) : SetToSeq(S)[i] = x
<1> DEFINE n == Cardinality(S)
           f == SetToSeq(S)
<1>1. n \in Nat /\ ExistsBijection(1..n, S)
  BY FS_CardinalityType
<1>2. \E g \in [1..n -> S] : IsInjective(g)
  BY <1>1 DEF ExistsBijection, Bijection, Injection
<1>3. f \in [1..n -> S] /\ IsInjective(f)
  BY <1>2 DEF SetToSeq
<1>4. f \in Injection(1..n, S)
  BY <1>3 DEF Injection
<1>5. Cardinality(1..n) = n
  BY <1>1, FS_Interval
<1> HIDE DEF f
<1>6. f \in Surjection(1..n, S)
  BY <1>4, <1>5, FS_Injection
<1>7. f \in Seq(S) /\ DOMAIN f = 1..n
  BY <1>1, <1>3
<1>8. \A x \in S : \E i \in DOMAIN f : f[i] = x
  BY <1>6, <1>7 DEF Surjection
<1>9. \A i, k \in DOMAIN f : f[i] = f[k] => i = k
  BY <1>3 DEF IsInjective
<1> QED
  BY <1>7, <1>8, <1>9 DEF f

\* An element taken out of the queue leaves the rest in order.
LEMMA Removed ==
  ASSUME NEW S, NEW q \in Seq(S), NEW i \in DOMAIN q
  PROVE  /\ RemoveAt(q, i) \in Seq(S) /\ Len(RemoveAt(q, i)) = Len(q) - 1
         /\ \A k \in 1..(Len(q) - 1) : RemoveAt(q, i)[k] = IF k < i THEN q[k] ELSE q[k + 1]
<1> DEFINE a == SubSeq(q, 1, i - 1)
           b == SubSeq(q, i + 1, Len(q))
<1>1. i \in 1..Len(q) /\ Len(q) \in Nat
  OBVIOUS
<1>2. a \in Seq(S) /\ Len(a) = i - 1 /\ \A k \in 1..(i - 1) : a[k] = q[k]
  BY <1>1, SubSeqProperties
<1>3. b \in Seq(S) /\ Len(b) = Len(q) - i /\ \A k \in 1..(Len(q) - i) : b[k] = q[i + k]
  BY <1>1, SubSeqProperties
<1>4. RemoveAt(q, i) = a \o b
  BY DEF RemoveAt
<1> HIDE DEF a, b
<1>5. /\ a \o b \in Seq(S) /\ Len(a \o b) = Len(a) + Len(b)
      /\ \A k \in 1 .. Len(a) + Len(b) : (a \o b)[k] = IF k <= Len(a) THEN a[k] ELSE b[k - Len(a)]
  BY <1>2, <1>3, ConcatProperties
<1>6. ASSUME NEW k \in 1..(Len(q) - 1) PROVE (a \o b)[k] = IF k < i THEN q[k] ELSE q[k + 1]
  <2>1. k \in 1 .. Len(a) + Len(b)
    BY <1>1, <1>2, <1>3
  <2>2. CASE k < i
    BY <1>1, <1>2, <1>5, <2>1, <2>2
  <2>3. CASE k >= i
    <3>1. (a \o b)[k] = b[k - Len(a)]
      BY <1>1, <1>2, <1>5, <2>1, <2>3
    <3>2. k - Len(a) \in 1..(Len(q) - i) /\ i + (k - Len(a)) = k + 1
      BY <1>1, <1>2, <2>3
    <3>3. b[k - Len(a)] = q[k + 1]
      BY <1>3, <3>2
    <3> QED
      BY <1>1, <2>3, <3>1, <3>3
  <2>4. k < i \/ k >= i
    BY <1>1
  <2> QED
    BY <2>2, <2>3, <2>4
<1>7. Len(a \o b) = Len(q) - 1
  BY <1>1, <1>2, <1>3, <1>5
<1> QED
  BY <1>4, <1>5, <1>6, <1>7

\* A queued work item that is one of a kind is taken out (the cancelled check).
LEMMA Withdrawn ==
  ASSUME NEW q \in Seq(Work), \A i, k \in DOMAIN q : q[i] = q[k] => i = k
  PROVE  LET r == WithoutElection(q)
         IN  /\ r \in Seq(Work) /\ \A i, k \in DOMAIN r : r[i] = r[k] => i = k
             /\ ~Waits(r, Election)
             /\ \A w \in Work \ {Election} : Waits(r, w) <=> Waits(q, w)
<1>1. CASE ~Waits(q, Election)
  <2>1. WithoutElection(q) = q
    BY <1>1 DEF WithoutElection, Waits
  <2> QED
    BY <1>1, <2>1
<1>2. CASE Waits(q, Election)
  <2> DEFINE at == CHOOSE i \in DOMAIN q : q[i] = Election
             r == RemoveAt(q, at)
  <2>1. at \in DOMAIN q /\ q[at] = Election /\ WithoutElection(q) = r
    BY <1>2 DEF WithoutElection, Waits
  <2> HIDE DEF at
  <2>2. /\ r \in Seq(Work) /\ Len(r) = Len(q) - 1
        /\ \A k \in 1..(Len(q) - 1) : r[k] = IF k < at THEN q[k] ELSE q[k + 1]
    BY <2>1, Removed
  <2> HIDE DEF r
  <2>3. Len(q) \in Nat /\ at \in 1..Len(q) /\ DOMAIN q = 1..Len(q) /\ DOMAIN r = 1..(Len(q) - 1)
    BY <2>1, <2>2
  <2> DEFINE src(k) == IF k < at THEN k ELSE k + 1
  <2>4. \A k \in DOMAIN r : src(k) \in DOMAIN q /\ src(k) # at /\ r[k] = q[src(k)]
    BY <2>2, <2>3
  <2>5. \A i, k \in DOMAIN r : src(i) = src(k) => i = k
    BY <2>3
  <2>6. \A i \in DOMAIN q : i # at => \E k \in DOMAIN r : src(k) = i
    <3> SUFFICES ASSUME NEW i \in DOMAIN q, i # at PROVE \E k \in DOMAIN r : src(k) = i
      OBVIOUS
    <3> DEFINE k == IF i < at THEN i ELSE i - 1
    <3>1. k \in DOMAIN r /\ src(k) = i
      BY <2>3
    <3> QED
      BY <3>1
  <2> HIDE DEF src
  <2>7. \A i, k \in DOMAIN r : r[i] = r[k] => i = k
    BY <2>4, <2>5
  <2>8. ~Waits(r, Election)
    BY <2>1, <2>4 DEF Waits
  <2>9. \A w \in Work \ {Election} : Waits(r, w) <=> Waits(q, w)
    <3> SUFFICES ASSUME NEW w \in Work \ {Election} PROVE Waits(r, w) <=> Waits(q, w)
      OBVIOUS
    <3>1. Waits(r, w) => Waits(q, w)
      BY <2>4 DEF Waits
    <3>2. Waits(q, w) => Waits(r, w)
      <4> SUFFICES ASSUME NEW i \in DOMAIN q, q[i] = w PROVE Waits(r, w)
        BY DEF Waits
      <4>1. PICK k \in DOMAIN r : src(k) = i
        BY <2>1, <2>6
      <4> QED
        BY <2>4, <4>1 DEF Waits
    <3> QED
      BY <3>1, <3>2
  <2> QED
    BY <2>1, <2>2, <2>7, <2>8, <2>9
<1> QED
  BY <1>1, <1>2

\* Copies are counted where there is at most one.
LEMMA CountsOne ==
  ASSUME TypeOK, PoolInv, NEW p \in Procs, NEW w \in Work
  PROVE  Copies(p, w) = IF Waits(queue[p], w) \/ Works(threads[p], w) THEN 1 ELSE 0
<1> DEFINE Q == {i \in DOMAIN queue[p] : queue[p][i] = w}
           T == {s \in 1..Threads : threads[p][s] = w}
<1>1. Consistent(queue[p], threads[p], running[p], stage[p]) /\ w # None
  BY PoolOf, WorkKinds
<1>2. Copies(p, w) = Cardinality(Q) + Cardinality(T)
  BY DEF Copies
<1>3. CASE Waits(queue[p], w)
  <2>1. PICK i \in DOMAIN queue[p] : queue[p][i] = w
    BY <1>3 DEF Waits
  <2>2. Q = {i} /\ T = {}
    BY <1>1, <2>1 DEF Consistent
  <2> HIDE DEF Q, T
  <2> QED
    BY <1>2, <1>3, <2>2, FS_Singleton, FS_EmptySet
<1>4. CASE ~Waits(queue[p], w) /\ Works(threads[p], w)
  <2>1. PICK s \in 1..Threads : threads[p][s] = w
    BY <1>4 DEF Works
  <2>2. Q = {} /\ T = {s}
    BY <1>1, <1>4, <2>1 DEF Consistent, Waits
  <2> HIDE DEF Q, T
  <2> QED
    BY <1>2, <1>4, <2>2, FS_Singleton, FS_EmptySet
<1>5. CASE ~Waits(queue[p], w) /\ ~Works(threads[p], w)
  <2>1. Q = {} /\ T = {}
    BY <1>5 DEF Waits, Works
  <2> HIDE DEF Q, T
  <2> QED
    BY <1>2, <1>5, <2>1, FS_EmptySet
<1> QED
  BY <1>3, <1>4, <1>5

LEMMA PoolSingle == TypeOK /\ PoolInv => SingleFlight
<1> SUFFICES ASSUME TypeOK, PoolInv, NEW p \in Procs
             PROVE  /\ \A j \in Jobs : Copies(p, j) = IF j \in running[p] THEN 1 ELSE 0
                    /\ Copies(p, Election) = IF stage[p] = "idle" THEN 0 ELSE 1
  BY DEF SingleFlight
<1>1. Consistent(queue[p], threads[p], running[p], stage[p]) /\ stage[p] \in Stages
  BY PoolOf
<1>2. \A j \in Jobs : Copies(p, j) = IF j \in running[p] THEN 1 ELSE 0
  BY <1>1, CountsOne, WorkKinds DEF Consistent
<1>3. stage[p] = "idle" <=> ~(Waits(queue[p], Election) \/ Works(threads[p], Election))
  BY <1>1 DEF Consistent, Stages
<1> QED
  BY <1>2, <1>3, CountsOne, WorkKinds

\* The types of all but the pool.
RestTyped ==
  /\ lock \in Procs \cup {None} /\ cut \in BOOLEAN
  /\ conn \in [Procs -> BOOLEAN] /\ phase \in [Procs -> Phases]
  /\ due \in [Procs -> SUBSET Jobs] /\ overdue \in [Procs -> SUBSET Jobs]
  /\ boots \in [Procs -> 0..MaxBoots] /\ faults \in 0..MaxFaults

PoolTyped ==
  /\ queue \in [Procs -> Seq(Work)] /\ threads \in [Procs -> [1..Threads -> Work \cup {None}]]
  /\ running \in [Procs -> SUBSET Jobs] /\ stage \in [Procs -> Stages]

LEMMA TypesSplit == TypeOK <=> RestTyped /\ PoolTyped
BY DEF TypeOK, RestTyped, PoolTyped

LEMMA RestKept ==
  ASSUME TypeOK, [Next]_vars
  PROVE  RestTyped'
<1>0. RestTyped /\ MaxBoots \in Nat /\ MaxFaults \in Nat
  BY TypesSplit, ConstantsAssumption
<1> USE <1>0 DEF RestTyped
<1>1. CASE Cut \/ ServerDrops \/ UNCHANGED vars
  <2>1. CASE Cut
    BY <2>1 DEF Cut, taskVars
  <2>2. CASE ServerDrops
    BY <2>2 DEF ServerDrops, taskVars
  <2>3. CASE UNCHANGED vars
    BY <2>3 DEF vars
  <2> QED
    BY <1>1, <2>1, <2>2, <2>3
<1>2. ASSUME NEW p \in Procs, Boot(p) \/ TryAcquire(p) PROVE RestTyped'
  <2>1. /\ lock' \in Procs \cup {None} /\ cut' \in BOOLEAN /\ faults' \in 0..MaxFaults
        /\ UNCHANGED <<due, overdue>>
    BY <1>2 DEF Boot, TryAcquire, Elected, NotElected, taskVars
  <2>2. boots' \in [Procs -> 0..MaxBoots]
    BY <1>2 DEF Boot, TryAcquire
  <2>3. conn' \in [Procs -> BOOLEAN] /\ phase' \in [Procs -> Phases]
    BY <1>2 DEF Boot, TryAcquire, Phases, PhaseIfElected
  <2> QED
    BY <2>1, <2>2, <2>3
<1>3. ASSUME NEW p \in Procs, StartRuntime(p) \/ Shutdown(p) PROVE RestTyped'
  BY <1>3 DEF StartRuntime, Shutdown, LockAfterClose, Phases, lockVars, taskVars
<1>4. ASSUME NEW p \in Procs, Exit(p) \/ Kill(p) PROVE RestTyped'
  BY <1>4 DEF Exit, Kill, Gone, LockAfterClose, Phases
<1>5. ASSUME NEW p \in Procs, ThreadTakes(p) \/ WatchWakes(p) \/ Probe(p) \/ Dispatch(p) PROVE RestTyped'
  BY <1>5 DEF ThreadTakes, WatchWakes, Probe, Dispatch, DueAfterPass, lockVars, taskVars
<1>6. ASSUME NEW p \in Procs, NEW j \in Jobs, FallsDue(p, j) \/ TimesOut(p, j) PROVE RestTyped'
  BY <1>6 DEF FallsDue, TimesOut, lockVars
<1>7. ASSUME NEW p \in Procs, NEW s \in 1..Threads, JobEnds(p, s) PROVE RestTyped'
  BY <1>7 DEF JobEnds, lockVars
<1> QED
  BY <1>1, <1>2, <1>3, <1>4, <1>5, <1>6, <1>7 DEF Next, ProcStep

\* The leadership check goes into the queue once (wait_for_leadership, watch_leadership).
LEMMA WakeKeepsPool ==
  ASSUME TypeOK, PoolInv, NEW p \in Procs, WatchWakes(p)
  PROVE  PoolInv' /\ PoolTyped'
<1> DEFINE q == Append(queue[p], Election)
<1>0. /\ Consistent(queue[p], threads[p], running[p], stage[p])
      /\ queue[p] \in Seq(Work) /\ threads[p] \in [1..Threads -> Work \cup {None}]
      /\ running[p] \in SUBSET Jobs
      /\ threads = [threads EXCEPT ![p] = threads[p]] /\ running = [running EXCEPT ![p] = running[p]]
  BY PoolOf
<1>1. /\ stage[p] = "idle" /\ stage' = [stage EXCEPT ![p] = "queued"] /\ queue' = [queue EXCEPT ![p] = q]
      /\ UNCHANGED <<threads, running>>
  BY DEF WatchWakes, taskVars
<1>2. /\ q \in Seq(Work) /\ DOMAIN q = 1..(Len(queue[p]) + 1) /\ Len(queue[p]) \in Nat
      /\ DOMAIN queue[p] = 1..Len(queue[p])
      /\ \A i \in DOMAIN queue[p] : q[i] = queue[p][i]
      /\ q[Len(queue[p]) + 1] = Election
  BY <1>0, WorkKinds
<1>3. ~Waits(queue[p], Election) /\ ~Works(threads[p], Election)
  BY <1>0, <1>1 DEF Consistent
<1> HIDE DEF q
<1>4. \A i, k \in DOMAIN q : q[i] = q[k] => i = k
  <2>1. \A i \in DOMAIN queue[p] : q[i] # Election
    BY <1>2, <1>3 DEF Waits
  <2>2. \A i \in DOMAIN q : i \in DOMAIN queue[p] \/ i = Len(queue[p]) + 1
    BY <1>2
  <2>3. \A i, k \in DOMAIN queue[p] : q[i] = q[k] => i = k
    BY <1>0, <1>2 DEF Consistent
  <2>4. q[Len(queue[p]) + 1] = Election
    BY <1>2
  <2> QED
    BY <2>1, <2>2, <2>3, <2>4
<1>5. \A i \in DOMAIN q, k \in 1..Threads : q[i] # threads[p][k]
  <2> SUFFICES ASSUME NEW i \in DOMAIN q, NEW k \in 1..Threads PROVE q[i] # threads[p][k]
    OBVIOUS
  <2>1. CASE i \in DOMAIN queue[p]
    BY <1>0, <1>2, <2>1 DEF Consistent
  <2>2. CASE i = Len(queue[p]) + 1
    BY <1>2, <1>3, <2>2 DEF Works
  <2> QED
    BY <1>2, <2>1, <2>2
<1>6. \A w \in Work : Waits(q, w) <=> Waits(queue[p], w) \/ w = Election
  <2> SUFFICES ASSUME NEW w \in Work PROVE Waits(q, w) <=> Waits(queue[p], w) \/ w = Election
    OBVIOUS
  <2>1. \A i \in DOMAIN q : i \in DOMAIN queue[p] \/ i = Len(queue[p]) + 1
    BY <1>2
  <2>2. DOMAIN queue[p] \subseteq DOMAIN q /\ Len(queue[p]) + 1 \in DOMAIN q
    BY <1>2
  <2>3. ASSUME NEW i \in DOMAIN q, q[i] = w PROVE Waits(queue[p], w) \/ w = Election
    BY <1>2, <2>1, <2>3 DEF Waits
  <2>4. Waits(queue[p], w) => Waits(q, w)
    BY <1>2, <2>2 DEF Waits
  <2>5. Waits(q, Election)
    BY <1>2, <2>2 DEF Waits
  <2>6. Waits(q, w) => Waits(queue[p], w) \/ w = Election
    BY <2>3 DEF Waits
  <2> QED
    BY <2>4, <2>5, <2>6
<1>7. Consistent(q, threads[p], running[p], "queued")
  BY <1>0, <1>3, <1>4, <1>5, <1>6, WorkKinds DEF Consistent
<1>8. "queued" \in Stages
  BY DEF Stages
<1> QED
  BY <1>0, <1>1, <1>2, <1>7, <1>8, OnePool DEF PoolTyped

\* A thread takes what was queued: it is moved, not copied.
LEMMA TakeKeepsPool ==
  ASSUME TypeOK, PoolInv, NEW p \in Procs, ThreadTakes(p)
  PROVE  PoolInv' /\ PoolTyped'
<1> DEFINE q == Tail(queue[p])
           h == Head(queue[p])
<1>0. /\ Consistent(queue[p], threads[p], running[p], stage[p])
      /\ queue[p] \in Seq(Work) /\ threads[p] \in [1..Threads -> Work \cup {None}]
      /\ running[p] \in SUBSET Jobs /\ stage[p] \in Stages
      /\ running = [running EXCEPT ![p] = running[p]]
  BY PoolOf
<1>1. PICK s \in 1..Threads : FreeThread(p, s) /\ threads' = [threads EXCEPT ![p][s] = h]
  BY DEF ThreadTakes
<1> DEFINE t == [threads[p] EXCEPT ![s] = h]
           g == IF h = Election THEN "probing" ELSE stage[p]
<1>2. /\ queue[p] # << >> /\ threads[p][s] = None
      /\ queue' = [queue EXCEPT ![p] = q] /\ stage' = [stage EXCEPT ![p] = g] /\ UNCHANGED running
      /\ threads' = [threads EXCEPT ![p] = t]
  BY <1>1 DEF ThreadTakes, FreeThread, taskVars, TypeOK
<1>3. /\ q \in Seq(Work) /\ h \in Work /\ DOMAIN q = 1..(Len(queue[p]) - 1) /\ h = queue[p][1]
      /\ DOMAIN queue[p] = 1..Len(queue[p]) /\ Len(queue[p]) \in Nat \ {0}
      /\ \A i \in DOMAIN q : q[i] = queue[p][i + 1]
  BY <1>0, <1>2
<1>4. /\ t \in [1..Threads -> Work \cup {None}] /\ t[s] = h
      /\ \A k \in 1..Threads : k # s => t[k] = threads[p][k]
  BY <1>0, <1>3
<1>5. g \in Stages
  BY <1>0 DEF Stages
<1> HIDE DEF q, h, t
<1>6. /\ \A i \in DOMAIN q : i + 1 \in DOMAIN queue[p] /\ i + 1 # 1
      /\ 1 \in DOMAIN queue[p]
      /\ \A i \in DOMAIN queue[p] : i = 1 \/ (i - 1 \in DOMAIN q /\ q[i - 1] = queue[p][i])
  <2>1. \A i \in DOMAIN q : i + 1 \in DOMAIN queue[p] /\ i + 1 # 1
    BY <1>3
  <2>2. 1 \in DOMAIN queue[p]
    BY <1>3
  <2>3. ASSUME NEW i \in DOMAIN queue[p], i # 1 PROVE i - 1 \in DOMAIN q /\ q[i - 1] = queue[p][i]
    <3>1. i - 1 \in DOMAIN q /\ (i - 1) + 1 = i
      BY <1>3, <2>3
    <3> QED
      BY <1>3, <3>1
  <2> QED
    BY <2>1, <2>2, <2>3
<1>7. \A i, k \in DOMAIN q : q[i] = q[k] => i = k
  BY <1>0, <1>3, <1>6 DEF Consistent
<1>8. \A i \in DOMAIN q : q[i] # h
  <2> SUFFICES ASSUME NEW i \in DOMAIN q, q[i] = h PROVE FALSE
    OBVIOUS
  <2>1. queue[p][i + 1] = queue[p][1] /\ i + 1 \in DOMAIN queue[p] /\ 1 \in DOMAIN queue[p] /\ i + 1 # 1
    BY <1>3, <1>6
  <2> QED
    BY <1>0, <2>1 DEF Consistent
<1>9. \A k \in 1..Threads : threads[p][k] # h
  BY <1>0, <1>3, <1>6 DEF Consistent
<1>10. \A i, k \in 1..Threads : t[i] = t[k] /\ t[i] # None => i = k
  BY <1>0, <1>4, <1>9 DEF Consistent
<1>11. \A i \in DOMAIN q, k \in 1..Threads : q[i] # t[k]
  <2> SUFFICES ASSUME NEW i \in DOMAIN q, NEW k \in 1..Threads PROVE q[i] # t[k]
    OBVIOUS
  <2>1. CASE k = s
    BY <1>4, <1>8, <2>1
  <2>2. CASE k # s
    <3>1. t[k] = threads[p][k] /\ q[i] = queue[p][i + 1] /\ i + 1 \in DOMAIN queue[p]
      BY <1>3, <1>4, <1>6, <2>2
    <3> QED
      BY <1>0, <3>1 DEF Consistent
  <2> QED
    BY <2>1, <2>2
<1>12. \A w \in Work : /\ Waits(q, w) <=> Waits(queue[p], w) /\ w # h
                       /\ Works(t, w) <=> Works(threads[p], w) \/ w = h
  <2> SUFFICES ASSUME NEW w \in Work
               PROVE  /\ Waits(q, w) <=> Waits(queue[p], w) /\ w # h
                      /\ Works(t, w) <=> Works(threads[p], w) \/ w = h
    OBVIOUS
  <2>1. Waits(q, w) <=> Waits(queue[p], w) /\ w # h
    BY <1>3, <1>6, <1>8 DEF Waits
  <2>2. Works(t, w) <=> Works(threads[p], w) \/ w = h
    BY <1>2, <1>4, WorkKinds DEF Works
  <2> QED
    BY <2>1, <2>2
<1>13. Waits(queue[p], h)
  BY <1>3, <1>6 DEF Waits
<1>14. Consistent(q, t, running[p], g)
  <2>1. \A j \in Jobs : j \in running[p] <=> Waits(q, j) \/ Works(t, j)
    BY <1>0, <1>12, <1>13, WorkKinds DEF Consistent
  <2>2. g = "queued" <=> Waits(q, Election)
    BY <1>0, <1>12, <1>13, WorkKinds DEF Consistent
  <2>3. g \in {"probing", "trying"} <=> Works(t, Election)
    BY <1>0, <1>12, <1>13, WorkKinds DEF Consistent
  <2> QED
    BY <1>7, <1>10, <1>11, <2>1, <2>2, <2>3 DEF Consistent
<1> QED
  <2> HIDE DEF g
  <2> QED
    BY <1>0, <1>2, <1>3, <1>4, <1>5, <1>14, OnePool DEF PoolTyped

LEMMA QueueIsWork ==
  ASSUME NEW q \in Seq(Work), NEW i \in DOMAIN q
  PROVE  q[i] \in Work /\ q[i] # None
BY WorkKinds

\* What leaves a thread leaves the pool.
LEMMA Freed ==
  ASSUME NEW q \in Seq(Work), NEW t \in [1..Threads -> Work \cup {None}], NEW r \in SUBSET Jobs, NEW g \in Stages,
         Consistent(q, t, r, g), NEW s \in 1..Threads, t[s] # None
  PROVE  LET u == [t EXCEPT ![s] = None]
             h == IF t[s] = Election THEN "idle" ELSE g
         IN  /\ u \in [1..Threads -> Work \cup {None}]
             /\ Consistent(q, u, r \ {t[s]}, h)
<1> DEFINE u == [t EXCEPT ![s] = None]
           h == IF t[s] = Election THEN "idle" ELSE g
<1>1. /\ u \in [1..Threads -> Work \cup {None}] /\ u[s] = None
      /\ \A k \in 1..Threads : k # s => u[k] = t[k]
  OBVIOUS
<1> HIDE DEF u
<1>2. \A i, k \in 1..Threads : u[i] = u[k] /\ u[i] # None => i = k
  BY <1>1 DEF Consistent
<1>3. \A w \in Work : /\ Works(u, w) <=> Works(t, w) /\ w # t[s]
                      /\ Waits(q, w) => w # t[s]
  <2> SUFFICES ASSUME NEW w \in Work
               PROVE  /\ Works(u, w) <=> Works(t, w) /\ w # t[s]
                      /\ Waits(q, w) => w # t[s]
    OBVIOUS
  <2>1. Waits(q, w) => w # t[s]
    BY DEF Consistent, Waits
  <2>2. Works(u, w) => Works(t, w) /\ w # t[s]
    <3> SUFFICES ASSUME NEW k \in 1..Threads, u[k] = w PROVE Works(t, w) /\ w # t[s]
      BY DEF Works
    <3>1. k # s /\ t[k] = w
      BY <1>1, WorkKinds
    <3> QED
      BY <3>1 DEF Works, Consistent
  <2>3. Works(t, w) /\ w # t[s] => Works(u, w)
    BY <1>1 DEF Works
  <2> QED
    BY <2>1, <2>2, <2>3
<1>4. \A i \in DOMAIN q, k \in 1..Threads : q[i] # u[k]
  <2> SUFFICES ASSUME NEW i \in DOMAIN q, NEW k \in 1..Threads PROVE q[i] # u[k]
    OBVIOUS
  <2>1. CASE k # s
    BY <1>1, <2>1 DEF Consistent
  <2>2. CASE k = s
    BY <1>1, <2>2, QueueIsWork
  <2> QED
    BY <2>1, <2>2
<1>5. \A j \in Jobs : j \in r \ {t[s]} <=> Waits(q, j) \/ Works(u, j)
  BY <1>3, WorkKinds DEF Consistent
<1>6. h = "queued" <=> Waits(q, Election)
  BY <1>3, WorkKinds DEF Consistent
<1>7. h \in {"probing", "trying"} <=> Works(u, Election)
  BY <1>3, WorkKinds DEF Consistent
<1>8. Consistent(q, u, r \ {t[s]}, h)
  BY <1>2, <1>4, <1>5, <1>6, <1>7 DEF Consistent
<1> QED
  BY <1>1, <1>8 DEF u

\* The thread of a job, or of the leadership check, is done (_run_task, check_leadership).
LEMMA FreeKeepsPool ==
  ASSUME TypeOK, PoolInv, NEW p \in Procs, NEW s \in 1..Threads, threads[p][s] # None,
         UNCHANGED queue, threads' = [threads EXCEPT ![p][s] = None],
         running' = [running EXCEPT ![p] = @ \ {threads[p][s]}],
         stage' = [stage EXCEPT ![p] = IF threads[p][s] = Election THEN "idle" ELSE @]
  PROVE  PoolInv' /\ PoolTyped'
<1>0. /\ Consistent(queue[p], threads[p], running[p], stage[p])
      /\ queue[p] \in Seq(Work) /\ threads[p] \in [1..Threads -> Work \cup {None}]
      /\ running[p] \in SUBSET Jobs /\ stage[p] \in Stages
      /\ queue = [queue EXCEPT ![p] = queue[p]]
  BY PoolOf
<1> DEFINE t == [threads[p] EXCEPT ![s] = None]
           r == running[p] \ {threads[p][s]}
           g == IF threads[p][s] = Election THEN "idle" ELSE stage[p]
<1>1. t \in [1..Threads -> Work \cup {None}] /\ Consistent(queue[p], t, r, g)
  BY <1>0, Freed
<1>2. threads' = [threads EXCEPT ![p] = t] /\ running' = [running EXCEPT ![p] = r]
      /\ stage' = [stage EXCEPT ![p] = g]
  BY DEF TypeOK
<1>3. r \in SUBSET Jobs /\ g \in Stages
  BY <1>0 DEF Stages
<1>4. queue' = [queue EXCEPT ![p] = queue[p]]
  BY <1>0
<1> HIDE DEF t, r, g
<1>5. PICK q \in Seq(Work), u \in [1..Threads -> Work \cup {None}], f \in SUBSET Jobs, h \in Stages :
        q = queue[p] /\ u = t /\ f = r /\ h = g
  BY <1>0, <1>1, <1>3
<1>6. /\ Consistent(q, u, f, h) /\ queue' = [queue EXCEPT ![p] = q] /\ threads' = [threads EXCEPT ![p] = u]
      /\ running' = [running EXCEPT ![p] = f] /\ stage' = [stage EXCEPT ![p] = h]
  BY <1>1, <1>2, <1>4, <1>5
<1> QED
  BY <1>6, OnePool DEF PoolTyped

\* The check moves on, or it ends and frees its thread (check_leadership, try_acquire_leader).
LEMMA CheckKeepsPool ==
  ASSUME TypeOK, PoolInv, NEW p \in Procs, Probe(p) \/ TryAcquire(p)
  PROVE  PoolInv' /\ PoolTyped'
<1>0. /\ Consistent(queue[p], threads[p], running[p], stage[p])
      /\ queue[p] \in Seq(Work) /\ threads[p] \in [1..Threads -> Work \cup {None}]
      /\ running[p] \in SUBSET Jobs /\ stage[p] \in Stages
      /\ queue = [queue EXCEPT ![p] = queue[p]] /\ threads = [threads EXCEPT ![p] = threads[p]]
      /\ running = [running EXCEPT ![p] = running[p]]
  BY PoolOf
<1>1. UNCHANGED <<queue, running>> /\ stage[p] \in {"probing", "trying"}
  BY DEF Probe, TryAcquire, taskVars
<1>2. PICK s \in 1..Threads : threads[p][s] = Election
  BY <1>0, <1>1 DEF Consistent, Works
<1>3. CASE stage' = [stage EXCEPT ![p] = "idle"] /\ ElectionReturns(p)
  <2> DEFINE t == [k \in 1..Threads |-> IF threads[p][k] = Election THEN None ELSE threads[p][k]]
  <2>1. \A k \in 1..Threads : threads[p][k] = Election => k = s
    BY <1>0, <1>2, WorkKinds DEF Consistent
  <2>2. t = [threads[p] EXCEPT ![s] = None]
    BY <1>0, <1>2, <2>1
  <2>3. threads' = [threads EXCEPT ![p] = t]
    BY <1>3 DEF ElectionReturns, TypeOK
  <2>4. threads' = [threads EXCEPT ![p][s] = None]
    BY <2>2, <2>3 DEF TypeOK
  <2>5. running' = [running EXCEPT ![p] = @ \ {threads[p][s]}]
    BY <1>0, <1>1, <1>2, WorkKinds DEF TypeOK
  <2>6. stage' = [stage EXCEPT ![p] = IF threads[p][s] = Election THEN "idle" ELSE @]
    BY <1>2, <1>3
  <2> QED
    BY <1>1, <1>2, <2>4, <2>5, <2>6, WorkKinds, FreeKeepsPool
<1>4. CASE stage' = [stage EXCEPT ![p] = "trying"] /\ UNCHANGED threads
  <2>1. Consistent(queue[p], threads[p], running[p], "trying") /\ "trying" \in Stages
    BY <1>0, <1>1 DEF Consistent, Stages
  <2>2. PICK q \in Seq(Work), t \in [1..Threads -> Work \cup {None}], r \in SUBSET Jobs :
          /\ q = queue[p] /\ t = threads[p] /\ r = running[p] /\ Consistent(q, t, r, "trying")
    BY <1>0, <2>1
  <2>3. /\ queue' = [queue EXCEPT ![p] = q] /\ threads' = [threads EXCEPT ![p] = t]
        /\ running' = [running EXCEPT ![p] = r]
    BY <1>0, <1>1, <1>4, <2>2
  <2> QED
    BY <1>4, <2>1, <2>2, <2>3, OnePool DEF PoolTyped
<1> QED
  BY <1>3, <1>4 DEF Probe, TryAcquire

\* New work joins the queue behind what is there.
LEMMA Joined ==
  ASSUME NEW q \in Seq(Work), NEW l \in Seq(Work),
         \A i, k \in DOMAIN q : q[i] = q[k] => i = k,
         \A i, k \in DOMAIN l : l[i] = l[k] => i = k,
         \A i \in DOMAIN q, k \in DOMAIN l : q[i] # l[k]
  PROVE  /\ q \o l \in Seq(Work)
         /\ \A i, k \in DOMAIN (q \o l) : (q \o l)[i] = (q \o l)[k] => i = k
         /\ \A w \in Work : Waits(q \o l, w) <=> Waits(q, w) \/ Waits(l, w)
<1> DEFINE c == q \o l
<1>1. /\ c \in Seq(Work) /\ Len(c) = Len(q) + Len(l)
      /\ \A i \in 1 .. Len(q) + Len(l) : c[i] = IF i <= Len(q) THEN q[i] ELSE l[i - Len(q)]
  BY ConcatProperties
<1>2. /\ Len(q) \in Nat /\ Len(l) \in Nat
      /\ DOMAIN q = 1..Len(q) /\ DOMAIN l = 1..Len(l) /\ DOMAIN c = 1..(Len(q) + Len(l))
  BY <1>1
<1> HIDE DEF c
<1>3. \A i \in DOMAIN q : i \in DOMAIN c /\ c[i] = q[i]
  BY <1>1, <1>2
<1>4. \A k \in DOMAIN l : Len(q) + k \in DOMAIN c /\ c[Len(q) + k] = l[k]
  <2> SUFFICES ASSUME NEW k \in DOMAIN l PROVE Len(q) + k \in DOMAIN c /\ c[Len(q) + k] = l[k]
    OBVIOUS
  <2>1. Len(q) + k \in 1 .. Len(q) + Len(l) /\ ~(Len(q) + k <= Len(q)) /\ (Len(q) + k) - Len(q) = k
    BY <1>2
  <2> QED
    BY <1>1, <1>2, <2>1
<1>5. \A i \in DOMAIN c : i \in DOMAIN q \/ \E k \in DOMAIN l : i = Len(q) + k
  <2> SUFFICES ASSUME NEW i \in DOMAIN c, i \notin DOMAIN q PROVE \E k \in DOMAIN l : i = Len(q) + k
    OBVIOUS
  <2>1. i - Len(q) \in DOMAIN l /\ i = Len(q) + (i - Len(q))
    BY <1>2
  <2> QED
    BY <2>1
<1>6. \A i, k \in DOMAIN c : c[i] = c[k] => i = k
  BY <1>3, <1>4, <1>5
<1>7. \A w \in Work : Waits(c, w) <=> Waits(q, w) \/ Waits(l, w)
  BY <1>3, <1>4, <1>5 DEF Waits
<1> QED
  BY <1>1, <1>6, <1>7 DEF c

\* A pass starts what is due and not in the pool yet (_loop).
LEMMA DispatchKeepsPool ==
  ASSUME TypeOK, PoolInv, NEW p \in Procs, Dispatch(p)
  PROVE  PoolInv' /\ PoolTyped'
<1> DEFINE S == Startable(p)
           l == SetToSeq(S)
<1>0. /\ Consistent(queue[p], threads[p], running[p], stage[p])
      /\ queue[p] \in Seq(Work) /\ threads[p] \in [1..Threads -> Work \cup {None}]
      /\ running[p] \in SUBSET Jobs /\ stage[p] \in Stages
      /\ threads = [threads EXCEPT ![p] = threads[p]] /\ stage = [stage EXCEPT ![p] = stage[p]]
  BY PoolOf
<1>1. /\ queue' = [queue EXCEPT ![p] = queue[p] \o l] /\ running' = [running EXCEPT ![p] = running[p] \cup S]
      /\ UNCHANGED <<threads, stage>>
  BY DEF Dispatch
<1>2. S \subseteq Jobs /\ IsFiniteSet(S) /\ S \cap running[p] = {}
  <2>1. S \subseteq Jobs /\ S \cap running[p] = {}
    BY DEF Startable, TypeOK
  <2> QED
    BY <2>1, WorkKinds, FS_Subset
<1>3. /\ l \in Seq(S) /\ \A i, k \in DOMAIN l : l[i] = l[k] => i = k
      /\ \A x \in S : \E i \in DOMAIN l : l[i] = x
  BY <1>2, Listed
<1> HIDE DEF l, S
<1>4. l \in Seq(Work) /\ \A i \in DOMAIN l : l[i] \in S
  BY <1>2, <1>3, WorkKinds
<1>5. \A w \in Work : Waits(l, w) <=> w \in S
  BY <1>3, <1>4 DEF Waits
<1>6. \A j \in S : ~Waits(queue[p], j) /\ ~Works(threads[p], j)
  BY <1>0, <1>2 DEF Consistent
<1>7. \A i \in DOMAIN queue[p], k \in DOMAIN l : queue[p][i] # l[k]
  BY <1>4, <1>6 DEF Waits
<1>8. PICK q \in Seq(Work), t \in [1..Threads -> Work \cup {None}], r \in SUBSET Jobs, g \in Stages :
        q = queue[p] \o l /\ t = threads[p] /\ r = running[p] \cup S /\ g = stage[p]
  <2>1. queue[p] \o l \in Seq(Work)
    BY <1>0, <1>4
  <2> QED
    BY <1>0, <1>2, <2>1
<1>9. /\ \A i, k \in DOMAIN q : q[i] = q[k] => i = k
      /\ \A w \in Work : Waits(q, w) <=> Waits(queue[p], w) \/ w \in S
  <2>1. \A i, k \in DOMAIN queue[p] : queue[p][i] = queue[p][k] => i = k
    BY <1>0 DEF Consistent
  <2> QED
    BY <1>0, <1>3, <1>4, <1>5, <1>7, <1>8, <2>1, Joined
<1>10. \A i \in DOMAIN q, k \in 1..Threads : q[i] # t[k]
  <2> SUFFICES ASSUME NEW i \in DOMAIN q, NEW k \in 1..Threads, q[i] = t[k] PROVE FALSE
    OBVIOUS
  <2>1. q[i] \in Work /\ Waits(q, q[i]) /\ Works(threads[p], q[i])
    BY <1>8 DEF Waits, Works
  <2>2. Waits(queue[p], q[i])
    BY <1>6, <1>9, <2>1
  <2> QED
    BY <1>0, <1>8, <2>2 DEF Consistent, Waits
<1>11. Consistent(q, t, r, g)
  <2>1. \A j \in Jobs : j \in r <=> Waits(q, j) \/ Works(t, j)
    BY <1>0, <1>8, <1>9, WorkKinds DEF Consistent
  <2>2. Election \notin S
    BY <1>2, WorkKinds
  <2> QED
    BY <1>0, <1>8, <1>9, <1>10, <2>1, <2>2, WorkKinds DEF Consistent
<1>12. /\ queue' = [queue EXCEPT ![p] = q] /\ threads' = [threads EXCEPT ![p] = t]
       /\ running' = [running EXCEPT ![p] = r] /\ stage' = [stage EXCEPT ![p] = g]
  BY <1>0, <1>1, <1>8
<1> QED
  BY <1>11, <1>12, OnePool DEF PoolTyped

\* A replica that shuts down cancels a check that waits (lifespan).
LEMMA ShutdownKeepsPool ==
  ASSUME TypeOK, PoolInv, NEW p \in Procs, Shutdown(p)
  PROVE  PoolInv' /\ PoolTyped'
<1>0. /\ Consistent(queue[p], threads[p], running[p], stage[p])
      /\ queue[p] \in Seq(Work) /\ threads[p] \in [1..Threads -> Work \cup {None}]
      /\ running[p] \in SUBSET Jobs /\ stage[p] \in Stages
      /\ threads = [threads EXCEPT ![p] = threads[p]] /\ running = [running EXCEPT ![p] = running[p]]
  BY PoolOf
<1> DEFINE o == WithoutElection(queue[p])
           h == IF stage[p] = "queued" THEN "idle" ELSE stage[p]
<1>1. /\ queue' = [queue EXCEPT ![p] = o] /\ stage' = [stage EXCEPT ![p] = h]
      /\ UNCHANGED <<threads, running>>
  BY DEF Shutdown, taskVars
<1>2. /\ o \in Seq(Work) /\ \A i, k \in DOMAIN o : o[i] = o[k] => i = k
      /\ ~Waits(o, Election) /\ \A w \in Work \ {Election} : Waits(o, w) <=> Waits(queue[p], w)
  BY <1>0, Withdrawn DEF Consistent
<1>3. h \in Stages
  BY <1>0 DEF Stages
<1>4. PICK q \in Seq(Work), t \in [1..Threads -> Work \cup {None}], r \in SUBSET Jobs, g \in Stages :
        q = o /\ t = threads[p] /\ r = running[p] /\ g = h
  BY <1>0, <1>2, <1>3
<1> HIDE DEF o
<1>5. \A i \in DOMAIN q, k \in 1..Threads : q[i] # t[k]
  <2> SUFFICES ASSUME NEW i \in DOMAIN q, NEW k \in 1..Threads, q[i] = t[k] PROVE FALSE
    OBVIOUS
  <2>1. q[i] \in Work /\ Waits(o, q[i])
    BY <1>4 DEF Waits
  <2>2. Waits(queue[p], q[i])
    BY <1>2, <2>1
  <2> QED
    BY <1>0, <1>4, <2>2 DEF Consistent, Waits
<1>6. Consistent(q, t, r, g)
  <2>1. \A j \in Jobs : j \in r <=> Waits(q, j) \/ Works(t, j)
    BY <1>0, <1>2, <1>4, WorkKinds DEF Consistent
  <2>2. g = "queued" <=> Waits(q, Election)
    BY <1>2, <1>4
  <2>3. g \in {"probing", "trying"} <=> Works(t, Election)
    BY <1>0, <1>4 DEF Consistent
  <2> QED
    BY <1>0, <1>2, <1>4, <1>5, <2>1, <2>2, <2>3 DEF Consistent
<1>7. /\ queue' = [queue EXCEPT ![p] = q] /\ threads' = [threads EXCEPT ![p] = t]
      /\ running' = [running EXCEPT ![p] = r] /\ stage' = [stage EXCEPT ![p] = g]
  BY <1>0, <1>1, <1>4
<1> QED
  BY <1>6, <1>7, OnePool DEF PoolTyped

\* The pool of a replica that is down.
LEMMA NoPool ==
  /\ << >> \in Seq(Work) /\ NoThreads \in [1..Threads -> Work \cup {None}]
  /\ Consistent(<< >>, NoThreads, {}, "idle")
<1>1. << >> \in Seq(Work)
  BY EmptySeq
<1>2. NoThreads \in [1..Threads -> Work \cup {None}]
  BY DEF NoThreads
<1>3. DOMAIN << >> = {}
  OBVIOUS
<1>4. \A s \in 1..Threads : NoThreads[s] = None
  BY DEF NoThreads
<1> QED
  BY <1>1, <1>2, <1>3, <1>4, WorkKinds DEF Consistent, Waits, Works

\* A process takes its pool with it.
LEMMA GoneKeepsPool ==
  ASSUME TypeOK, PoolInv, NEW p \in Procs, Gone(p)
  PROVE  PoolInv' /\ PoolTyped'
<1>1. PICK q \in Seq(Work), t \in [1..Threads -> Work \cup {None}], r \in SUBSET Jobs, g \in Stages :
        q = << >> /\ t = NoThreads /\ r = {} /\ g = "idle"
  BY NoPool DEF Stages
<1>2. Consistent(q, t, r, g)
  BY <1>1, NoPool
<1>3. /\ queue' = [queue EXCEPT ![p] = q] /\ threads' = [threads EXCEPT ![p] = t]
      /\ running' = [running EXCEPT ![p] = r] /\ stage' = [stage EXCEPT ![p] = g]
  BY <1>1 DEF Gone
<1> QED
  BY <1>2, <1>3, OnePool DEF PoolTyped

LEMMA PoolKept ==
  ASSUME TypeOK, PoolInv, [Next]_vars
  PROVE  PoolInv' /\ PoolTyped'
<1>1. ASSUME UNCHANGED <<queue, threads, running, stage>> PROVE PoolInv' /\ PoolTyped'
  BY <1>1, TypesSplit DEF PoolInv, PoolTyped, Consistent, Waits, Works
<1>2. CASE Cut \/ ServerDrops \/ UNCHANGED vars
  BY <1>1, <1>2 DEF Cut, ServerDrops, vars, taskVars, poolVars
<1>3. ASSUME NEW p \in Procs, Boot(p) \/ StartRuntime(p) PROVE PoolInv' /\ PoolTyped'
  BY <1>1, <1>3 DEF Boot, StartRuntime, taskVars, poolVars
<1>4. ASSUME NEW p \in Procs, NEW j \in Jobs, FallsDue(p, j) \/ TimesOut(p, j)
      PROVE  PoolInv' /\ PoolTyped'
  BY <1>1, <1>4 DEF FallsDue, TimesOut, RunningAfterTimeout, poolVars, TypeOK
<1>5. ASSUME NEW p \in Procs, NEW s \in 1..Threads, JobEnds(p, s) PROVE PoolInv' /\ PoolTyped'
  <2>1. threads[p][s] # None /\ threads[p][s] # Election
    BY <1>5, WorkKinds DEF JobEnds
  <2>2. /\ UNCHANGED queue /\ threads' = [threads EXCEPT ![p][s] = None]
        /\ running' = [running EXCEPT ![p] = @ \ {threads[p][s]}] /\ UNCHANGED stage
    BY <1>5 DEF JobEnds, RunningAfterEnd
  <2>3. stage' = [stage EXCEPT ![p] = IF threads[p][s] = Election THEN "idle" ELSE @]
    BY <2>1, <2>2 DEF TypeOK
  <2> QED
    BY <2>1, <2>2, <2>3, FreeKeepsPool
<1>6. ASSUME NEW p \in Procs, Exit(p) \/ Kill(p) PROVE PoolInv' /\ PoolTyped'
  BY <1>6, GoneKeepsPool DEF Exit, Kill
<1> QED
  BY <1>2, <1>3, <1>4, <1>5, <1>6, WakeKeepsPool, TakeKeepsPool, CheckKeepsPool, DispatchKeepsPool,
     ShutdownKeepsPool DEF Next, ProcStep

\* However jobs hang past their timeouts and their intervals and checks are cut short by shutdowns,
\* a replica has one run of a job and one leadership check in its pool at most, and its flags say
\* which (_loop, _run_task, watch_leadership, lifespan).
THEOREM PoolIsSingle == Spec => []PoolHolds
<1>1. Init => TypeOK /\ PoolInv
  <2> SUFFICES ASSUME Init PROVE TypeOK /\ PoolInv
    OBVIOUS
  <2>1. TypeOK
    <3>1. /\ stage \in [Procs -> Stages] /\ running \in [Procs -> SUBSET Jobs]
          /\ queue \in [Procs -> Seq(Work)] /\ threads \in [Procs -> [1..Threads -> Work \cup {None}]]
      BY NoPool DEF Init, Stages
    <3>2. /\ conn \in [Procs -> BOOLEAN] /\ phase \in [Procs -> Phases]
          /\ due \in [Procs -> SUBSET Jobs] /\ overdue \in [Procs -> SUBSET Jobs]
      BY DEF Init, Phases
    <3>3. lock \in Procs \cup {None} /\ cut \in BOOLEAN
      BY DEF Init
    <3>4. 0 \in 0..MaxBoots /\ 0 \in 0..MaxFaults
      BY ConstantsAssumption
    <3>5. boots \in [Procs -> 0..MaxBoots] /\ faults \in 0..MaxFaults
      BY <3>4 DEF Init
    <3> QED
      BY <3>1, <3>2, <3>3, <3>5 DEF TypeOK
  <2>2. ASSUME NEW p \in Procs PROVE Consistent(queue[p], threads[p], running[p], stage[p])
    BY NoPool DEF Init
  <2> QED
    BY <2>1, <2>2 DEF PoolInv
<1>2. TypeOK /\ PoolInv /\ [Next]_vars => TypeOK' /\ PoolInv'
  <2> SUFFICES ASSUME TypeOK, PoolInv, [Next]_vars PROVE TypeOK' /\ PoolInv'
    OBVIOUS
  <2>1. RestTyped' /\ PoolTyped' /\ PoolInv'
    BY RestKept, PoolKept
  <2>2. TypeOK'
    BY <2>1 DEF RestTyped, PoolTyped, TypeOK
  <2> QED
    BY <2>1, <2>2
<1>3. TypeOK /\ PoolInv => PoolHolds
  BY PoolSingle DEF PoolHolds
<1> QED
  BY <1>1, <1>2, <1>3, PTL DEF Spec
=============================================================================
