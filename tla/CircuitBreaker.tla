--------------------------- MODULE CircuitBreaker ---------------------------
(***************************************************************************)
(* The breaker that every call to an external API passes                   *)
(* (core/circuit_breaker.py).  Its callers are jobs in threads of one      *)
(* process and take no lock, so a method is one step only between the      *)
(* points at which CPython may switch threads: its calls.                  *)
(***************************************************************************)
EXTENDS Naturals, Folds

CONSTANTS
  Callers,      \* threads that share the breaker
  None,         \* no thread
  Threshold,    \* failure_threshold
  Cooldown,     \* cooldown_seconds, in ticks
  HalfOpenMax,  \* half_open_max
  Window,       \* rate_limit_window_s, in ticks
  RateMax,      \* rate_limit_max_calls
  MaxStamps     \* bound on the timestamps of a list, beyond RateMax

ASSUME BreakerAssumption ==
  /\ None \notin Callers
  /\ Threshold \in Nat \ {0} /\ Window \in Nat \ {0} /\ RateMax \in Nat \ {0}
  /\ Cooldown \in Nat /\ HalfOpenMax \in Nat
  /\ MaxStamps \in Nat /\ MaxStamps > RateMax

VARIABLES
  open,      \* _circuit_open_until # 0.0
  left,      \* ticks until _circuit_open_until, 0 when it is past
  probes,    \* _half_open_probes
  failures,  \* _failure_count, which matters only up to Threshold
  stamps,    \* stamps[k]: the calls of _call_timestamps that count k ticks more
  pc,        \* [Callers -> Steps]
  old        \* old[c]: the list that c still copies after another one replaced it

circuit == <<open, left, probes>>
vars == <<open, left, probes, failures, stamps, pc, old>>

\* Between two calls; in allow, copying the list of timestamps or one replaced
\* since, about to stamp the call or to open the circuit; in the API call, as a
\* call of a closed circuit or a probe; after its record_success; in
\* record_success, about to close; in record_failure, about to open a circuit that
\* was closed or one that was open.
Steps == {"idle", "copying", "outdated", "admitted", "limiting", "calling",
          "probing", "answered", "closing", "tripping", "retripping"}

\* Timestamps by the ticks that each still counts.
Lists == [1..Window -> Nat]
Never == [k \in 1..Window |-> 0]

Init ==
  /\ open = FALSE /\ left = 0 /\ probes = 0 /\ failures = 0
  /\ stamps = Never
  /\ pc = [c \in Callers |-> "idle"]
  /\ old = [c \in Callers |-> Never]

-----------------------------------------------------------------------------
\* Mutant: the cooldown is never over.
Blocking_NoClock == open

\* The circuit is open and its cooldown is not over.
Blocking == open /\ left > 0

\* state = "half_open".
HalfOpen == Blocking /\ probes < HalfOpenMax

\* The calls of a list that count in the window.
Recent(list) == MapThenFoldSet(+, 0, LAMBDA k : list[k], LAMBDA S : CHOOSE k \in S : TRUE, DOMAIN list)

Goes(c, step) == pc' = [pc EXCEPT ![c] = step]

\* c puts a new list of timestamps in place and goes on to step; who copies the
\* list before does not see it.
Replaces(c, list, step) ==
  /\ stamps' = list
  /\ old' = [d \in Callers |->
       IF d = c THEN Never ELSE IF pc[d] = "copying" THEN stamps ELSE old[d]]
  /\ pc' = [d \in Callers |->
       IF d = c THEN step ELSE IF pc[d] = "copying" THEN "outdated" ELSE pc[d]]

\* allow: a probe of an open circuit, or a call of a closed one, whose old
\* failures a cooldown that is over has cleared.
Ask(c) ==
  /\ pc[c] = "idle"
  /\ \/ /\ HalfOpen
        /\ probes' = probes + 1
        /\ Goes(c, "probing")
        /\ UNCHANGED <<open, left, failures>>
     \/ /\ ~Blocking
        /\ open' = FALSE /\ left' = 0
        /\ failures' = IF open THEN 0 ELSE failures
        /\ probes' = IF open THEN 0 ELSE probes
        /\ Goes(c, "copying")
  /\ UNCHANGED <<stamps, old>>

\* allow of a closed circuit: the timestamps out of the window go, the others
\* are counted.
Count(c) ==
  /\ pc[c] \in {"copying", "outdated"}
  /\ LET list == IF pc[c] = "copying" THEN stamps ELSE old[c]
     IN  Replaces(c, list, IF Recent(list) >= RateMax THEN "limiting" ELSE "admitted")
  /\ UNCHANGED <<circuit, failures>>

\* allow of a closed circuit: the call is counted and goes out.
Stamp(c) ==
  /\ pc[c] = "admitted"
  /\ Recent(stamps) < MaxStamps
  /\ stamps' = [stamps EXCEPT ![Window] = @ + 1]
  /\ Goes(c, "calling")
  /\ UNCHANGED <<circuit, failures, old>>

\* allow of a closed circuit: too many calls, the circuit opens without probes.
Limit(c) ==
  /\ pc[c] = "limiting"
  /\ open' = TRUE /\ left' = Cooldown /\ probes' = HalfOpenMax
  /\ Goes(c, "idle")
  /\ UNCHANGED <<failures, stamps, old>>

\* record_success.
Succeeds(c) ==
  /\ pc[c] \in {"calling", "probing"}
  /\ \/ HalfOpen /\ Goes(c, "closing") /\ UNCHANGED failures
     \/ ~HalfOpen /\ Goes(c, "answered") /\ failures' = 0
  /\ UNCHANGED <<circuit, stamps, old>>

\* Mutant: the failures that opened the circuit survive its closing.
FailuresAfterClose_Kept == failures

\* What record_success leaves of _failure_count.
FailuresAfterClose == 0

\* record_success of a half-open circuit, after its log line.
Close(c) ==
  /\ pc[c] = "closing"
  /\ open' = FALSE /\ left' = 0 /\ probes' = 0
  /\ failures' = FailuresAfterClose
  /\ Goes(c, "answered")
  /\ UNCHANGED <<stamps, old>>

\* record_failure, up to was_already_open.  An answer that cannot be parsed
\* fails after its success was recorded.
Fails(c) ==
  /\ pc[c] \in {"calling", "probing", "answered"}
  /\ IF failures + 1 < Threshold
     THEN failures' = failures + 1 /\ Goes(c, "idle")
     ELSE failures' = Threshold /\ Goes(c, IF Blocking THEN "retripping" ELSE "tripping")
  /\ UNCHANGED <<circuit, stamps, old>>

\* Any trip opens, the first one too.
OpenAfterTrip(c) == TRUE

\* record_failure at the threshold: a cooldown from now.
Trip(c) ==
  /\ pc[c] \in {"tripping", "retripping"}
  /\ open' = OpenAfterTrip(c) /\ left' = Cooldown
  /\ probes' = IF pc[c] = "tripping" THEN 0 ELSE probes
  /\ Goes(c, "idle")
  /\ UNCHANGED <<failures, stamps, old>>

\* A call site that reports neither, or that only asked for the state.
Forgets(c) ==
  /\ pc[c] \in {"calling", "probing", "answered"}
  /\ Goes(c, "idle")
  /\ UNCHANGED <<circuit, failures, stamps, old>>

\* reset, by an administrator.
Reset ==
  /\ open' = FALSE /\ left' = 0 /\ probes' = 0 /\ failures' = 0
  /\ Replaces(None, Never, "idle")

\* A timestamp leaves the window of every list alike.
Older(list) == [k \in 1..Window |-> IF k < Window THEN list[k + 1] ELSE 0]

Tick ==
  /\ left' = IF left > 0 THEN left - 1 ELSE 0
  /\ stamps' = Older(stamps) /\ old' = [c \in Callers |-> Older(old[c])]
  /\ UNCHANGED <<open, probes, failures, pc>>

Answer(c) == Succeeds(c) \/ Fails(c) \/ Forgets(c)
Work(c) == Count(c) \/ Stamp(c) \/ Limit(c) \/ Close(c) \/ Trip(c)

Next == Tick \/ Reset \/ \E c \in Callers : Ask(c) \/ Work(c) \/ Answer(c)

Spec == Init /\ [][Next]_vars

\* Time passes, calls have timeouts, and the jobs keep asking.
FairSpec ==
  /\ Spec
  /\ WF_vars(Tick)
  /\ \A c \in Callers : WF_vars(Ask(c)) /\ WF_vars(Work(c)) /\ WF_vars(Answer(c))

-----------------------------------------------------------------------------
\* The fields of CircuitBreaker have their types, and no circuit that is
\* not open has a cooldown.
TypeOK ==
  /\ open \in BOOLEAN /\ left \in 0..Cooldown /\ (open = FALSE => left = 0)
  /\ probes \in 0..HalfOpenMax
  /\ failures \in 0..Threshold
  /\ stamps \in Lists /\ old \in [Callers -> Lists]
  /\ pc \in [Callers -> Steps]

\* However the methods interleave, a breaker that has counted its threshold of
\* consecutive failures is open, or the thread that will open it is on its way:
\* none closes with its count still at the threshold (record_failure,
\* record_success, allow, reset).
TripsAtThreshold ==
  failures >= Threshold => open \/ \E c \in Callers : pc[c] \in {"tripping", "retripping"}

\* Count, circuit and cooldown belong together, though no method is atomic.
BreakerHolds == TypeOK /\ TripsAtThreshold

\* An API that answers nothing but failures is still asked again and again: late
\* failures prolong a cooldown, never for ever (allow, record_failure).
AskedAgain == []<>(\E c \in Callers : pc[c] \in {"calling", "probing"})
=============================================================================
