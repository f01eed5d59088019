------------------------------ MODULE EdgePaper ------------------------------
(***************************************************************************)
(* The paper order of one forecast (edge/paper.py) and the broker's side   *)
(* of it.  The tick places the entry, ends it at its deadline, protects or *)
(* flattens what a partial fill left, sells the rest at the time exit and  *)
(* reconciles after the close; the guard job (wolf_app.py) does the second *)
(* of these too, without the tick's lease.                                 *)
(*                                                                         *)
(* A call to the broker or to the store is a step.  The answer of any call *)
(* may be lost, whether or not the broker acted on it, and a job may die   *)
(* between two calls: what is then known is the record in edge_paper.      *)
(***************************************************************************)
EXTENDS Integers, FiniteSets

CONSTANTS
  Shares,       \* size of the forecast
  OthersShares,       \* shares of the symbol that other experiments hold
  MaxTries,     \* MAX_TRIES: protective exits, and flattens, per forecast
  MaxSells,     \* bound on the time-exit attempts
  MaxOverlaps,  \* bound on how often both jobs are in the forecast at once
  MaxMishaps    \* bound on lost answers, refusals and crashes

ASSUME NumbersAssumption ==
  /\ {OthersShares, MaxOverlaps, MaxMishaps} \subseteq Nat
  /\ {Shares, MaxTries, MaxSells} \subseteq Nat \ {0}

Runners == {"tick", "guard"}

\* Client order ids.  A bracket's two legs are one exit: filling one ends the
\* other.  So are the take-profit and the stop of a protective OCO (px).
Entry == <<"entry", 1>>
Legs == <<"legs", 1>>
Protect == {"px"} \X (1..MaxTries)
Flatten == {"pf"} \X (1..MaxTries)
TimeExit == {"tx"} \X (1..MaxSells)
Close == <<"close", 1>>
ExitIds == {Legs, Close} \cup Protect \cup Flatten \cup TimeExit
Ids == {Entry} \cup ExitIds

Statuses == {"none", "held", "working", "canceling", "filled", "canceled", "rejected"}
Order == [status: Statuses, qty: 0..Shares, filled: 0..Shares]
Never == [status |-> "none", qty |-> 0, filled |-> 0]

\* The row of edge_paper.  px, pf and tx count the ids recorded so far; closes
\* says that a position close is among tx_closes.
Rows == [state: {"none", "submitted", "rejected"}, checked: BOOLEAN, refused: BOOLEAN,
         px: 0..MaxTries, pf: 0..MaxTries, tx: 0..MaxSells, closes: BOOLEAN,
         done: BOOLEAN, unprotected: BOOLEAN, notFlat: BOOLEAN]
NoRow == [state |-> "none", checked |-> FALSE, refused |-> FALSE, px |-> 0, pf |-> 0, tx |-> 0,
          closes |-> FALSE, done |-> FALSE, unprotected |-> FALSE, notFlat |-> FALSE]

Phases == {"entry", "due", "overdue", "exit", "last", "after"}
Steps == {"idle", "post entry", "look up entry", "put entry",
          "read", "cancel entry", "reread", "judge", "cancel legs", "reread legs", "protect",
          "post px", "confirm px", "post pf", "confirm pf",
          "x read", "x cancel", "x reread", "x sell", "x post", "x close", "x record"}

VARIABLES
  phase,     \* of the day, for this forecast: Phases
  orders,    \* [Ids -> Order]: the broker's own records
  row,       \* the row of edge_paper
  actual,    \* the actual outcome in the ledger, or "none"
  pc,        \* [Runners -> Steps]
  local,     \* [Runners -> Locals]
  overlaps, mishaps

orderVars == <<phase, orders, row, actual, pc, local, overlaps, mishaps>>

\* rec is the copy of the row a job works on and writes back; snap what it read
\* of the orders; owned the shares it found to sell; code how its post was
\* answered; last whether its tick is the last of the window.
Unread == [i \in Ids |-> Never]
Fresh == [rec |-> NoRow, snap |-> Unread, owned |-> 0, code |-> "none", last |-> FALSE]
Locals == [rec: Rows, snap: [Ids -> Order], owned: 0..Shares,
           code: {"none", "accepted", "transient", "refused"}, last: BOOLEAN]

OrdersInit ==
  /\ phase = "entry"
  /\ orders = Unread
  /\ row = NoRow
  /\ actual = "none"
  /\ pc = [r \in Runners |-> "idle"]
  /\ local = [r \in Runners |-> Fresh]
  /\ overlaps = 0 /\ mishaps = 0

Final(o) == o.status \in {"filled", "canceled", "rejected"}
Working(o) == o.status \in {"held", "working", "canceling"}
Remaining(o) == o.qty - o.filled

\* The shares of an order are numbered in the order in which they trade.
FilledOf(os, ids) == Cardinality({share \in ids \X (1..Shares) : share[2] <= os[share[1]].filled})

\* The ids a snapshot looks up: of protective exits and flattens, those recorded.
Known(rec) == {Entry, Legs} \cup ({"px"} \X (1..rec.px)) \cup ({"pf"} \X (1..rec.pf))

Bought(os) == os[Entry].filled
SoldBy(os, rec) == FilledOf(os, Known(rec) \ {Entry})

GoesTo(r, step) == pc' = [pc EXCEPT ![r] = step]
EndsPass(r) == GoesTo(r, "idle") /\ local' = [local EXCEPT ![r] = Fresh]

\* store.put of the job's copy: the whole row is replaced.
Saves(r, rec) == row' = rec
Mishap == mishaps < MaxMishaps /\ mishaps' = mishaps + 1
NoMishap == UNCHANGED mishaps

-----------------------------------------------------------------------------
(* The broker.                                                             *)

\* What it lets be sold: the account's shares that no working exit has a claim on.
Position == OthersShares + Bought(orders) - FilledOf(orders, ExitIds)
Claims(o, n) == o.status \in {"working", "canceling"} /\ o.filled < n /\ n <= o.qty
ClaimOf(ids) == Cardinality({share \in ids \X (1..Shares) : Claims(orders[share[1]], share[2])})
Available(id, qty) == id = Entry \/ ClaimOf(ExitIds) + qty <= Position

\* The id must be new; a bracket's legs come with it and are held.
Accepted(id, qty) ==
  LET placed == [orders EXCEPT ![id] = [status |-> "working", qty |-> qty, filled |-> 0]]
  IN  IF id = Entry THEN [placed EXCEPT ![Legs] = [status |-> "held", qty |-> qty, filled |-> 0]] ELSE placed

\* A post and its answer: no answer, a 429 and a 5xx look alike to the caller.
Posts(id, qty, answer) ==
  LET takes == orders[id] = Never /\ Available(id, qty)
  IN  \/ /\ takes
         /\ orders' = Accepted(id, qty)
         /\ \/ answer = "accepted" /\ NoMishap
            \/ answer = "transient" /\ Mishap
      \/ ~takes /\ answer = "refused" /\ UNCHANGED orders /\ NoMishap
      \/ answer \in {"transient", "refused"} /\ UNCHANGED orders /\ Mishap

\* Cancel requests for ids: the broker takes them, or some get lost or refused.  A
\* leg that does not work yet ends at once.
Asked(o) ==
  IF o.status = "held" THEN [o EXCEPT !.status = "canceled"]
  ELSE IF o.status = "working" THEN [o EXCEPT !.status = "canceling"] ELSE o
Cancels(ids) ==
  \E taken \in SUBSET ids :
    /\ orders' = [i \in Ids |-> IF i \in taken THEN Asked(orders[i]) ELSE orders[i]]
    /\ IF taken = ids THEN NoMishap ELSE Mishap

OneMore(o) == [o EXCEPT !.filled = @ + 1, !.status = IF o.filled + 1 = o.qty THEN "filled" ELSE @]

\* One share of a working order trades.  The legs of a bracket start to work once
\* the whole entry is filled.
Fills(i) ==
  /\ phase # "after"
  /\ orders[i].status \in {"working", "canceling"}
  /\ LET os == [orders EXCEPT ![i] = OneMore(orders[i])]
     IN  orders' = IF i = Entry /\ os[Entry].status = "filled" /\ os[Legs].status = "held"
                   THEN [os EXCEPT ![Legs].status = "working"] ELSE os
  /\ UNCHANGED <<phase, row, actual, pc, local, overlaps, mishaps>>

\* What becomes of the legs of an entry that ends: without a fill they end too; of
\* a part the broker may end them, leave them held, or size them to it.
LegsLeft(entry, legs) ==
  IF ~Working(legs) THEN {legs}
  ELSE IF entry.filled = 0 THEN {[legs EXCEPT !.status = "canceled"]}
  ELSE {legs, [legs EXCEPT !.status = "canceled"],
        [legs EXCEPT !.status = "working", !.qty = entry.filled]}

\* An order that was asked to end does; so may a new one that the exchange rejects.
Stops(i, status) ==
  /\ phase # "after"
  /\ \/ status = "canceled" /\ orders[i].status = "canceling" /\ NoMishap
     \/ status = "rejected" /\ orders[i].status = "working" /\ orders[i].filled = 0 /\ i # Legs /\ Mishap
  /\ LET os == [orders EXCEPT ![i].status = status]
     IN  IF i = Entry
         THEN \E legs \in LegsLeft(os[Entry], os[Legs]) : orders' = [os EXCEPT ![Legs] = legs]
         ELSE orders' = os
  /\ UNCHANGED <<phase, row, actual, pc, local, overlaps>>

-----------------------------------------------------------------------------
(* The day, the jobs.                                                      *)

\* The guard's window, and that of the tick's cancel step, end half an hour before
\* the time exit.  At the close what still works expires.
TimePasses ==
  /\ \/ phase = "entry" /\ phase' = "due" /\ UNCHANGED orders
     \/ phase = "due" /\ phase' = "overdue" /\ UNCHANGED orders
     \/ /\ phase = "overdue" /\ \A r \in Runners : pc[r] = "idle"
        /\ phase' = "exit" /\ UNCHANGED orders
     \/ phase = "exit" /\ phase' = "last" /\ UNCHANGED orders
     \/ /\ phase \in {"last", "closing"} /\ pc["tick"] = "idle"
        /\ phase' = "after"
        /\ orders' = [i \in Ids |-> IF Working(orders[i]) THEN [orders[i] EXCEPT !.status = "canceled"]
                                    ELSE orders[i]]
  /\ UNCHANGED <<row, actual, pc, local, overlaps, mishaps>>

\* A job comes to the forecast, the other one being elsewhere, or not.
Comes(r) ==
  /\ pc[r] = "idle"
  /\ IF \A q \in Runners : pc[q] = "idle" THEN UNCHANGED overlaps
     ELSE overlaps < MaxOverlaps /\ overlaps' = overlaps + 1

\* The job dies, or its process.
Dies(r) ==
  /\ pc[r] # "idle"
  /\ Mishap
  /\ EndsPass(r)
  /\ UNCHANGED <<phase, orders, row, actual, overlaps>>

-----------------------------------------------------------------------------
(* submit.                                                                 *)

StartSubmit ==
  /\ phase \in {"entry", "due", "overdue"}
  /\ row.state = "none"
  /\ Comes("tick")
  /\ GoesTo("tick", "post entry")
  /\ UNCHANGED <<phase, orders, row, actual, local, mishaps>>

PostEntry ==
  /\ pc["tick"] = "post entry"
  /\ \E answer \in {"accepted", "transient", "refused"} :
       /\ Posts(Entry, Shares, answer)
       /\ local' = [local EXCEPT !["tick"].code = answer]
  /\ GoesTo("tick", "look up entry")
  /\ UNCHANGED <<phase, row, actual, overlaps>>

\* Mutant: the broker is not asked before a refusal is recorded.
EntryHeld_NotAsked(answered) == FALSE

\* _by_client_id: None when there is no such order, or no answer.
EntryHeld(answered) == answered /\ orders[Entry] # Never

\* The record of a placed order or of a refusal; of anything else there is none, and
\* the next tick tries again.
RecordEntry ==
  /\ pc["tick"] = "look up entry"
  /\ \E answered \in BOOLEAN :
       /\ IF answered \/ local["tick"].code = "accepted" THEN NoMishap ELSE Mishap
       /\ \/ /\ local["tick"].code = "accepted" \/ EntryHeld(answered)
             /\ row' = [NoRow EXCEPT !.state = "submitted"]
          \/ /\ local["tick"].code = "refused" /\ ~EntryHeld(answered)
             /\ row' = [NoRow EXCEPT !.state = "rejected"]
          \/ /\ local["tick"].code = "transient" /\ ~EntryHeld(answered)
             /\ UNCHANGED row
  /\ EndsPass("tick")
  /\ UNCHANGED <<phase, orders, actual, overlaps>>

-----------------------------------------------------------------------------
(* cancel_unfilled_entries and _protect_entry.                             *)

\* The ways a pass over the forecast ends.  One that is left open past the grace
\* period, or that has failed, is an alarm.
Checked(r) == Saves(r, [local[r].rec EXCEPT !.checked = TRUE]) /\ EndsPass(r)
Alarm(r) == Saves(r, [local[r].rec EXCEPT !.unprotected = TRUE]) /\ EndsPass(r)

\* Mutant: what is left open is looked at again, however late it is.
LeftOpen_Quiet(r) == UNCHANGED row /\ EndsPass(r)

LeftOpen(r) == IF phase = "overdue" THEN Alarm(r) ELSE UNCHANGED row /\ EndsPass(r)

\* _snapshot; a read that fails is never taken for "nothing there".
Sees(r, step) ==
  /\ local' = [local EXCEPT ![r].snap = [i \in Ids |-> IF i \in Known(local[r].rec) THEN orders[i] ELSE Never]]
  /\ GoesTo(r, step)
  /\ UNCHANGED row
  /\ NoMishap
CannotSee(r) == Mishap /\ LeftOpen(r)

StartCheck(r) ==
  /\ phase \in {"due", "overdue"}
  /\ row.state = "submitted" /\ ~row.checked
  /\ Comes(r)
  /\ GoesTo(r, "read")
  /\ local' = [local EXCEPT ![r].rec = row]
  /\ UNCHANGED <<phase, orders, row, actual, mishaps>>

Read(r) ==
  /\ pc[r] = "read"
  /\ \/ Sees(r, IF Final(orders[Entry]) THEN "judge" ELSE "cancel entry")
     \/ CannotSee(r)
  /\ UNCHANGED <<phase, orders, actual, overlaps>>

\* The unfilled rest is cancelled whether or not a part has filled, and the request
\* is recorded.
CancelEntry(r) ==
  /\ pc[r] = "cancel entry"
  /\ IF local[r].snap[Entry].status = "canceling" THEN UNCHANGED orders /\ NoMishap ELSE Cancels({Entry})
  /\ Saves(r, local[r].rec)
  /\ GoesTo(r, "reread")
  /\ UNCHANGED <<phase, actual, local, overlaps>>

\* Mutant: a cancel that was taken is a cancel that happened.
Ended_Asked(o) == Final(o) \/ o.status = "canceling"

\* An order is judged final from a fresh read only.
Ended(o) == Final(o)

Reread(r) ==
  /\ pc[r] = "reread"
  /\ \/ Ended(orders[Entry]) /\ Sees(r, "judge")
     \/ ~Ended(orders[Entry]) /\ LeftOpen(r) /\ NoMishap
     \/ CannotSee(r)
  /\ UNCHANGED <<phase, orders, actual, overlaps>>

\* Mutant: legs that are held count as protection.
LegsProtect_Held(legs, qty) == Working(legs)

\* _legs_protect
LegsProtect(legs, qty) == legs.status = "working" /\ Remaining(legs) = qty

\* Nothing bought, or a full fill, whose legs work until the time exit; or legs that
\* cover a part; or legs that must go first.
Judge(r) ==
  LET s     == local[r].snap
      owned == Bought(s) - SoldBy(s, local[r].rec)
  IN  /\ pc[r] = "judge"
      /\ IF \/ Bought(s) = 0 \/ s[Entry].status = "filled"
            \/ LegsProtect(s[Legs], owned)
         THEN Checked(r)
         ELSE /\ GoesTo(r, IF Working(s[Legs]) THEN "cancel legs" ELSE "protect")
              /\ UNCHANGED <<row, local>>
      /\ UNCHANGED <<phase, orders, actual, overlaps, mishaps>>

CancelLegs(r) ==
  /\ pc[r] = "cancel legs"
  /\ Cancels({Legs})
  /\ GoesTo(r, "reread legs")
  /\ UNCHANGED <<phase, row, actual, local, overlaps>>

RereadLegs(r) ==
  /\ pc[r] = "reread legs"
  /\ \/ Ended(orders[Legs]) /\ Sees(r, "protect")
     \/ ~Ended(orders[Legs]) /\ LeftOpen(r) /\ NoMishap
     \/ CannotSee(r)
  /\ UNCHANGED <<phase, orders, actual, overlaps>>

FlattensSpent(rec) == rec.pf >= MaxTries

\* _flatten up to its post: the id is recorded first.
StartFlatten(r, rec, owned) ==
  IF FlattensSpent(rec)
  THEN Saves(r, [rec EXCEPT !.unprotected = TRUE]) /\ EndsPass(r)
  ELSE LET next == [rec EXCEPT !.pf = @ + 1]
       IN  /\ Saves(r, next)
           /\ local' = [local EXCEPT ![r].rec = next, ![r].owned = owned]
           /\ GoesTo(r, "post pf")

\* Mutant: the id is recorded once the broker has taken the order.
ProtectRecord_Late(rec) == rec

\* The record before a protective exit is posted names its id.
ProtectRecord(rec) == [rec EXCEPT !.px = @ + 1]

\* A part is owned and its legs are gone: an exit that is there, a new one for
\* exactly what is owned, or a flatten.
ProtectPart(r) ==
  LET l     == local[r]
      s     == l.snap
      owned == Bought(s) - SoldBy(s, l.rec)
      live  == {i \in Known(l.rec) : i \in Protect /\ Working(s[i])}
      ended == {i \in Known(l.rec) : i \in Protect /\ Final(s[i])}
      flattening == \E i \in Known(l.rec) : i \in Flatten /\ Working(s[i])
  IN  /\ pc[r] = "protect"
      /\ \/ /\ owned < 0 /\ Alarm(r)
            /\ UNCHANGED orders /\ NoMishap
         \/ /\ owned = 0 /\ live = {} /\ ~flattening /\ Checked(r)
            /\ UNCHANGED orders /\ NoMishap
         \/ /\ owned >= 0 /\ flattening /\ LeftOpen(r)
            /\ UNCHANGED orders /\ NoMishap
         \/ /\ owned >= 0 /\ ~flattening /\ live # {}
            /\ IF \E i \in live : s[i].status # "canceling" /\ Remaining(s[i]) = owned
               THEN Checked(r) /\ UNCHANGED orders /\ NoMishap
               ELSE LeftOpen(r) /\ Cancels(live)
         \/ /\ owned > 0 /\ ~flattening /\ live = {}
            /\ IF ~l.rec.refused /\ ended = {} /\ l.rec.px < MaxTries
               THEN /\ Saves(r, ProtectRecord(l.rec))
                    /\ local' = [local EXCEPT ![r].rec = [l.rec EXCEPT !.px = @ + 1], ![r].owned = owned]
                    /\ GoesTo(r, "post px")
               ELSE StartFlatten(r, l.rec, owned)
            /\ UNCHANGED orders /\ NoMishap
      /\ UNCHANGED <<phase, actual, overlaps>>

\* A definite refusal is not tried again: the shares are flattened.
PostProtect(r) ==
  LET l == local[r]
  IN  /\ pc[r] = "post px"
      /\ \E answer \in {"accepted", "transient", "refused"} :
           /\ Posts(<<"px", l.rec.px>>, l.owned, answer)
           /\ IF answer = "refused"
              THEN StartFlatten(r, [l.rec EXCEPT !.refused = TRUE], l.owned)
              ELSE GoesTo(r, "confirm px") /\ UNCHANGED <<row, local>>
      /\ UNCHANGED <<phase, actual, overlaps>>

\* The exit counts once the broker's own record of it shows it working.
ConfirmProtect(r) ==
  LET l == local[r]
      o == orders[<<"px", l.rec.px>>]
  IN  /\ pc[r] = "confirm px"
      /\ \/ CannotSee(r)
         \/ /\ NoMishap
            /\ IF Working(o) /\ Remaining(o) = l.owned THEN Checked(r)
               ELSE IF Final(o) THEN StartFlatten(r, l.rec, l.owned)
               ELSE LeftOpen(r)
      /\ UNCHANGED <<phase, orders, actual, overlaps>>

PostFlatten(r) ==
  /\ pc[r] = "post pf"
  /\ \E answer \in {"accepted", "transient", "refused"} :
       /\ Posts(<<"pf", local[r].rec.pf>>, local[r].owned, answer)
       /\ IF answer = "refused" THEN Alarm(r)
          ELSE GoesTo(r, "confirm pf") /\ UNCHANGED <<row, local>>
  /\ UNCHANGED <<phase, actual, overlaps>>

\* Only a fill that the broker shows is flat.
ConfirmFlatten(r) ==
  /\ pc[r] = "confirm pf"
  /\ \/ Mishap /\ Alarm(r)
     \/ /\ NoMishap
        /\ IF orders[<<"pf", local[r].rec.pf>>].filled >= local[r].owned THEN Checked(r) ELSE Alarm(r)
  /\ UNCHANGED <<phase, orders, actual, overlaps>>

CheckStep(r) ==
  \/ StartCheck(r) \/ Read(r) \/ CancelEntry(r) \/ Reread(r) \/ Judge(r) \/ CancelLegs(r)
  \/ RereadLegs(r) \/ ProtectPart(r) \/ PostProtect(r) \/ ConfirmProtect(r) \/ PostFlatten(r)
  \/ ConfirmFlatten(r)

-----------------------------------------------------------------------------
(* time_exit, by the tick.                                                 *)

T == local["tick"]

\* Not sold this time: on the last tick that is an alarm.
Retried == (IF T.last THEN Saves("tick", [T.rec EXCEPT !.notFlat = TRUE]) ELSE UNCHANGED row) /\ EndsPass("tick")
Unfinished(s) == {i \in Known(T.rec) : Working(s[i])}

\* The last tick of the window is one tick.
StartExit ==
  /\ phase \in {"exit", "last"}
  /\ phase' = IF phase = "last" THEN "closing" ELSE phase
  /\ row.state = "submitted" /\ ~row.done
  /\ Comes("tick")
  /\ GoesTo("tick", "x read")
  /\ local' = [local EXCEPT !["tick"].rec = row, !["tick"].last = (phase = "last")]
  /\ UNCHANGED <<orders, row, actual, mishaps>>

ExitRead ==
  /\ pc["tick"] = "x read"
  /\ \/ Sees("tick", IF Unfinished(orders) = {} THEN "x sell" ELSE "x cancel")
     \/ Mishap /\ Retried
  /\ UNCHANGED <<phase, orders, actual, overlaps>>

ExitCancel ==
  /\ pc["tick"] = "x cancel"
  /\ Cancels({i \in Unfinished(T.snap) : T.snap[i].status # "canceling"})
  /\ GoesTo("tick", "x reread")
  /\ UNCHANGED <<phase, row, actual, local, overlaps>>

\* F02: the shares are counted from reads after the cancels, once all is final.
CountedFrom == [i \in Ids |-> IF i \in Known(T.rec) THEN orders[i] ELSE Never]

ExitReread ==
  /\ pc["tick"] = "x reread"
  /\ \/ /\ \A i \in Unfinished(T.snap) : Ended(orders[i])
        /\ local' = [local EXCEPT !["tick"].snap = CountedFrom]
        /\ GoesTo("tick", "x sell")
        /\ UNCHANGED row /\ NoMishap
     \/ (\E i \in Unfinished(T.snap) : ~Ended(orders[i])) /\ Retried /\ NoMishap
     \/ Mishap /\ Retried
  /\ UNCHANGED <<phase, orders, actual, overlaps>>

\* The exits that are recorded, or the first one; a close that is recorded.
ExitsTried == {i \in TimeExit : i[2] <= IF T.rec.tx = 0 THEN 1 ELSE T.rec.tx}
ExitsSeen == {i \in ExitsTried : orders[i] # Never} \cup (IF T.rec.closes THEN {Close} ELSE {})
Tried == IF T.rec.tx = 0 /\ orders[<<"tx", 1>>] # Never THEN 1 ELSE T.rec.tx

\* Mutant: what an accepted exit was for is counted as sold.
SoldAtExit_Accepted == Cardinality({share \in ExitsSeen \X (1..Shares) : share[2] <= orders[share[1]].qty})

SoldAtExit == FilledOf(orders, ExitsSeen)

\* Sell what the entry bought and no exit has sold, unless a sell works already.
ExitSell ==
  LET remaining == Bought(T.snap) - SoldBy(T.snap, T.rec) - SoldAtExit
      busy      == \E i \in ExitsSeen : Working(orders[i])
      rec       == [T.rec EXCEPT !.tx = Tried]
  IN  /\ pc["tick"] = "x sell"
      /\ \/ Mishap /\ Retried
         \/ /\ NoMishap
            /\ \/ remaining < 0 /\ ~busy /\ Saves("tick", [T.rec EXCEPT !.notFlat = TRUE]) /\ EndsPass("tick")
               \/ remaining = 0 /\ ~busy /\ Saves("tick", [rec EXCEPT !.done = TRUE]) /\ EndsPass("tick")
               \/ busy /\ Retried
               \/ /\ remaining > 0 /\ ~busy /\ Tried < MaxSells
                  /\ Saves("tick", [rec EXCEPT !.tx = Tried + 1])
                  /\ local' = [local EXCEPT !["tick"].rec = row', !["tick"].owned = remaining]
                  /\ GoesTo("tick", "x post")
      /\ UNCHANGED <<phase, orders, actual, overlaps>>

ExitPost ==
  /\ pc["tick"] = "x post"
  /\ \E answer \in {"accepted", "transient", "refused"} :
       /\ Posts(<<"tx", T.rec.tx>>, T.owned, answer)
       /\ IF answer = "accepted" \/ ~T.last THEN EndsPass("tick")
          ELSE GoesTo("tick", "x close") /\ UNCHANGED local
  /\ UNCHANGED <<phase, row, actual, overlaps>>

\* The last resort: close exactly the remaining shares, and never more than the
\* account holds, if it can be asked.
ExitClose ==
  /\ pc["tick"] = "x close"
  /\ \/ /\ Position <= 0
        /\ Saves("tick", [T.rec EXCEPT !.done = TRUE]) /\ EndsPass("tick")
        /\ UNCHANGED orders /\ NoMishap
     \/ /\ Position > 0
        /\ \E answer \in {"accepted", "transient", "refused"} :
             /\ Posts(Close, IF Position < T.owned THEN Position ELSE T.owned, answer)
             /\ IF answer = "accepted" THEN GoesTo("tick", "x record") /\ UNCHANGED <<row, local>> ELSE Retried
  /\ UNCHANGED <<phase, actual, overlaps>>

\* An accepted close is not a filled one.
ExitRecord ==
  /\ pc["tick"] = "x record"
  /\ \E flat \in BOOLEAN :
       /\ \/ flat = (orders[Close].status = "filled") /\ NoMishap
          \/ ~flat /\ Mishap
       /\ Saves("tick", [T.rec EXCEPT !.closes = TRUE, !.notFlat = @ \/ ~flat])
  /\ EndsPass("tick")
  /\ UNCHANGED <<phase, orders, actual, overlaps>>

ExitStep ==
  \/ StartExit \/ ExitRead \/ ExitCancel \/ ExitReread \/ ExitSell \/ ExitPost \/ ExitClose \/ ExitRecord

-----------------------------------------------------------------------------
(* reconcile and edge/fills.py.                                            *)

\* Mutant: the ids of flattens are not known as ours.
Ours_NoFlatten == ExitIds \ (Flatten \cup IF row.closes THEN {} ELSE {Close})

\* The exits among the broker's orders whose ids are ours, or recorded closes.
Ours == ExitIds \ (IF row.closes THEN {} ELSE {Close})

\* What the replayed orders make of the position.
Verdict ==
  LET open == Bought(orders) - FilledOf(orders, Ours)
  IN  IF row.state = "rejected" THEN "NO_FILL"
      ELSE IF Bought(orders) = 0
           THEN IF orders[Entry] = Never THEN "UNRESOLVED" ELSE "NO_FILL"
           ELSE IF open = 0 THEN "CLOSED" ELSE "UNRESOLVED"

\* A final outcome stands.
Reconcile ==
  /\ phase = "after" /\ pc["tick"] = "idle"
  /\ actual \in {"none", "UNRESOLVED"}
  /\ actual' = Verdict
  /\ UNCHANGED <<phase, orders, row, pc, local, overlaps, mishaps>>

SubmitStep == StartSubmit \/ PostEntry \/ RecordEntry
Broker == \E i \in Ids : Fills(i) \/ Stops(i, "canceled") \/ Stops(i, "rejected")

OrdersNext ==
  \/ TimePasses \/ Broker
  \/ SubmitStep \/ ExitStep \/ Reconcile
  \/ \E r \in Runners : CheckStep(r) \/ Dies(r)

OrdersSpec == OrdersInit /\ [][OrdersNext]_orderVars

\* The two jobs run again and again, and the broker ends what it was asked to end;
\* nobody promises a fill.
OrdersFairSpec ==
  /\ OrdersSpec
  /\ \A r \in Runners : WF_orderVars(CheckStep(r))
  /\ WF_orderVars(SubmitStep)
  /\ \A i \in Ids : WF_orderVars(Stops(i, "canceled"))

-----------------------------------------------------------------------------
(* Properties.                                                             *)

OrdersTypeOK ==
  /\ phase \in Phases \cup {"closing"}
  /\ orders \in [Ids -> Order]
  /\ row \in Rows
  /\ actual \in {"none", "UNRESOLVED", "NO_FILL", "CLOSED"}
  /\ pc \in [Runners -> Steps]
  /\ local \in [Runners -> Locals]
  /\ overlaps \in 0..MaxOverlaps /\ mishaps \in 0..MaxMishaps

\* The deadline step is called done only of an entry that can buy nothing more,
\* whichever job did it and whatever was lost: the cancel, its answer, a read.
EntryEndsFirst == row.checked => Final(orders[Entry])

\* Once it is called done, what was bought is sold or has a working exit of exactly
\* that size until the time exit, unless the exchange rejects that exit.  The jobs
\* may be in the forecast at once, but once only, and may then protect it twice.
CheckedIsCovered ==
  phase \in {"due", "overdue"} /\ row.checked /\ overlaps <= 1 =>
    LET open == Bought(orders) - FilledOf(orders, ExitIds)
    IN  \/ open <= 0
        \/ \E i \in ExitIds :
             /\ Working(orders[i])
             /\ \/ Remaining(orders[i]) = open
                \/ overlaps = 1 /\ Remaining(orders[i]) > open
        \/ \E i \in ExitIds : orders[i].status = "rejected"

\* No share is offered twice: through retries, crashes and lost answers, what exits
\* have sold and still work on is at most what was bought.  Excepted are two jobs at
\* once, the close of last resort, and a flatten of what a protective exit sold
\* before it was confirmed (see the README).
OneExitPerShare ==
  overlaps = 0 /\ orders[Close] = Never =>
    LET sure == IF \E i \in Protect : orders[i].filled > 0 THEN ExitIds \ Flatten ELSE ExitIds
    IN  ClaimOf(sure) + FilledOf(orders, sure) <= Bought(orders)

\* A forecast is called flat only when it is: nothing works for it and all is sold.
DoneIsFlat ==
  row.done /\ overlaps = 0 /\ orders[Close] = Never =>
    /\ \A i \in Ids : ~Working(orders[i])
    /\ Bought(orders) = FilledOf(orders, ExitIds)

\* What the exits of the day called flat, the reconciliation after the close calls
\* closed, or never filled: it knows every order that the exits knew.
DoneIsSettled ==
  row.done /\ actual # "none" /\ overlaps = 0 /\ orders[Close] = Never =>
    actual = IF Bought(orders) = 0 THEN "NO_FILL" ELSE "CLOSED"

\* One lost answer loses no order: a placed entry is recorded as refused only if
\* another answer, or the job, was lost as well.
PlacedIsNotRefused == row.state = "rejected" /\ orders[Entry] # Never => mishaps >= 2

\* What the row says of the entry is so at the broker: ended means ended, and refused
\* means never placed, as far as one lost answer goes.
EntryHolds == OrdersTypeOK /\ EntryEndsFirst /\ PlacedIsNotRefused

\* The exits cover what was bought, and no more: two jobs, retries and crashes leave no
\* share without an exit and none with two.
SharesHold == CheckedIsCovered /\ OneExitPerShare

\* What the row calls done is over at the broker, on the day and in the reconciliation.
DoneHolds == DoneIsFlat /\ DoneIsSettled

\* Past the grace period a placed order does not stay open in silence: its deadline
\* step is done or has raised the alarm, while its window lasts.
DeadlineKept ==
  phase = "overdue" /\ row.state = "submitted" ~> row.checked \/ row.unprotected \/ phase = "exit"

\* What paper.py says of its exits: "never sell more than we own".
NeverOversold == FilledOf(orders, ExitIds) <= Bought(orders)
=============================================================================
